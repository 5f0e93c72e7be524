-------------------------- MODULE StaticThreadPool --------------------------
(***************************************************************************)
(* The StaticThreadPool of assignment 2 and its one user: the owner, that  *)
(* is the thread of RunLockingScheduler, which gives the pool its tasks    *)
(* and collects what they hand back, and, when that thread has been        *)
(* joined, the one that destroys the pool.                                 *)
(*                                                                         *)
(* Every worker has a task queue, and the mutex of that queue is all that  *)
(* keeps the owner and the worker apart.  A task is ExecuteTxn for one     *)
(* transaction, of which the last call matters here: the push to           *)
(* completed_txns_, an AtomicQueue too, which all the workers and the      *)
(* owner contend for.  Left out are usleep, whose duration nothing but     *)
(* speed depends on, and the owner's work between two calls.               *)
(***************************************************************************)
EXTENDS AtomicQueue, FiniteSets, SequencesExt

CONSTANTS
  Tasks,    \* BOUND: the tasks the owner ever adds, each once
  Workers,  \* the pool's threads (thread_count_), each with the queue it names
  CreateCanFail \* whether pthread_create may fail

Owner     == "owner"
Completed == "completed_txns_"
Threads   == Workers \union {Owner}
Queues    == Workers \union {Completed}

(* rand() % thread_count_ needs a thread. *)
ASSUME StaticThreadPoolAssumption ==
  /\ Workers # {}
  /\ CreateCanFail \in BOOLEAN
  /\ {Owner, Completed, Free, None} \cap Workers = {}
  /\ None \notin Tasks

VARIABLES
  pc,        \* where every thread is
  stopped_,
  added,     \* tasks AddTask was called with
  received   \* tasks the owner popped from completed_txns_

vars == <<queueVars, pc, stopped_, added, received>>

At(t, from, to) == pc[t] = from /\ pc' = [pc EXCEPT ![t] = to]

Init ==
  /\ QueueInit(Threads, Queues)
  /\ pc = [t \in Threads |-> IF t = Owner THEN "start" ELSE "none"]
  /\ stopped_ = FALSE
  /\ added = {}
  /\ received = {}

-----------------------------------------------------------------------------
(* Mutants of CollectReturns and CheckStopped; none is part of Spec. *)

(* `completed_txns_.Pop(&txn);` without a look at what it returns. *)
CollectUnseen ==
  /\ At(Owner, "collect", "idle")
  /\ Unlock(Owner)
  /\ received' = received \union {item[Owner]}
  /\ item' = [item EXCEPT ![Owner] = None]
  /\ UNCHANGED <<stopped_, added>>

(* A thread that sees stopped_ breaks out of its loop. *)
BreakIfStopped(w) ==
  /\ At(w, "check", IF stopped_ THEN "exited" ELSE "poll")
  /\ UNCHANGED <<queueVars, stopped_, added, received>>

-----------------------------------------------------------------------------
(* The owner: the constructor's Start creates the threads, which run at once. *)
CreateThread(w) ==
  /\ pc[Owner] = "start"
  /\ At(w, "none", "poll")
  /\ UNCHANGED <<queueVars, stopped_, added, received>>

(* Nobody looks at what pthread_create returns: the queue stays without a
   worker, and AddTask chooses it like any other. *)
CreateThreadFails(w) ==
  /\ CreateCanFail
  /\ pc[Owner] = "start"
  /\ At(w, "none", "failed")
  /\ UNCHANGED <<queueVars, stopped_, added, received>>

Started ==
  /\ \A w \in Workers : pc[w] # "none"
  /\ At(Owner, "start", "idle")
  /\ UNCHANGED <<queueVars, stopped_, added, received>>

AddTask(k) ==
  /\ k \notin added
  /\ At(Owner, "idle", "add")
  /\ added' = added \union {k}
  /\ item' = [item EXCEPT ![Owner] = k]
  /\ UNCHANGED <<queue_, mutex_, op, on, seen, stopped_, received>>

(* One round of AddTask's loop, on the queue rand() chooses.  PushNonBlocking
   takes its argument by reference: the task is still there if it fails. *)
TryPush(w) ==
  /\ pc[Owner] = "add"
  /\ op[Owner] = "none"
  /\ PushNonBlocking(Owner, w, item[Owner])
  /\ UNCHANGED <<pc, stopped_, added, received>>

AddTaskReturns ==
  /\ At(Owner, "add", "idle")
  /\ Unlock(Owner)
  /\ item' = [item EXCEPT ![Owner] = None]
  /\ UNCHANGED <<stopped_, added, received>>

(* completed_txns_.Pop of RunLockingScheduler. *)
Collect ==
  /\ At(Owner, "idle", "collect")
  /\ Pop(Owner, Completed)
  /\ UNCHANGED <<stopped_, added, received>>

CollectReturns ==
  /\ At(Owner, "collect", "idle")
  /\ Unlock(Owner)
  /\ received' = received \union ({item[Owner]} \ {None})
  /\ item' = [item EXCEPT ![Owner] = None]
  /\ UNCHANGED <<stopped_, added>>

(* The destructor. *)
Stop ==
  /\ At(Owner, "idle", "join")
  /\ stopped_' = TRUE
  /\ UNCHANGED <<queueVars, added, received>>

Joined ==
  /\ \A w \in Workers : pc[w] = "exited"
  /\ At(Owner, "join", "gone")
  /\ UNCHANGED <<queueVars, stopped_, added, received>>

(* pthread_join of a thread that never was is undefined: it may return at once,
   as here, or never, or end the process, which then does nothing more. *)
JoinUndefined ==
  /\ \E w \in Workers : pc[w] = "failed"
  /\ \A w \in Workers : pc[w] \in {"exited", "failed"}
  /\ At(Owner, "join", "gone")
  /\ UNCHANGED <<queueVars, stopped_, added, received>>

OwnerStep ==
  \/ (\E w \in Workers : CreateThread(w)) \/ Started
  \/ (\E w \in Workers : TryPush(w)) \/ AddTaskReturns
  \/ CollectReturns \/ Joined

(* What may happen to the owner, and need not. *)
Failure == (\E w \in Workers : CreateThreadFails(w)) \/ JoinUndefined

-----------------------------------------------------------------------------
(* A worker: RunThread. *)
Poll(w) ==
  /\ op[w] = "none"
  /\ At(w, "poll", IF Busy(w) THEN "check" ELSE "poll")
  /\ PopNonBlocking(w, w)
  /\ UNCHANGED <<stopped_, added, received>>

PollReturns(w) ==
  /\ At(w, "poll", IF item[w] = None THEN "check" ELSE "run")
  /\ Unlock(w)
  /\ UNCHANGED <<item, stopped_, added, received>>

(* The task has executed its transaction and pushes it. *)
RunTask(w) ==
  /\ At(w, "run", "finish")
  /\ Push(w, Completed, item[w])
  /\ UNCHANGED <<stopped_, added, received>>

(* A task of the drain is followed by the next Pop, and not by a look at
   stopped_: there is no difference, as stopped_ stays true. *)
FinishTask(w) ==
  /\ At(w, "finish", "check")
  /\ Unlock(w)
  /\ item' = [item EXCEPT ![w] = None]
  /\ UNCHANGED <<stopped_, added, received>>

CheckStopped(w) ==
  /\ At(w, "check", IF stopped_ THEN "drain" ELSE "poll")
  /\ UNCHANGED <<queueVars, stopped_, added, received>>

Drain(w) ==
  /\ pc[w] = "drain"
  /\ op[w] = "none"
  /\ Pop(w, w)
  /\ UNCHANGED <<pc, stopped_, added, received>>

DrainReturns(w) ==
  /\ At(w, "drain", IF item[w] = None THEN "exited" ELSE "run")
  /\ Unlock(w)
  /\ UNCHANGED <<item, stopped_, added, received>>

WorkerStep(w) ==
  \/ Poll(w) \/ PollReturns(w) \/ RunTask(w) \/ FinishTask(w)
  \/ CheckStopped(w) \/ Drain(w) \/ DrainReturns(w)

-----------------------------------------------------------------------------
QueueStep(t) == InOperation(t) /\ UNCHANGED <<pc, stopped_, added, received>>

(* Nothing is left to do once the pool is gone. *)
Terminated == pc[Owner] = "gone" /\ UNCHANGED vars

Next ==
  \/ OwnerStep \/ Failure \/ Collect \/ Stop
  \/ \E k \in Tasks : AddTask(k)
  \/ \E w \in Workers : WorkerStep(w)
  \/ \E t \in Threads : QueueStep(t)
  \/ Terminated

(* Threads run on, and the owner finishes the call it is in.  A mutex that is
   released again and again is not withheld from a thread that asks for it for
   ever: the owner polls completed_txns_ while workers push to it, and AddTask
   tries queues at random whose workers sleep between two looks. *)
Fairness ==
  /\ WF_vars(OwnerStep)
  /\ SF_vars(\E w \in Workers : TryPush(w))
  /\ \A w \in Workers : WF_vars(WorkerStep(w)) /\ SF_vars(RunTask(w))
  /\ \A t \in Threads : WF_vars(QueueStep(t))

Spec == Init /\ [][Next]_vars /\ Fairness

-----------------------------------------------------------------------------
(* Every variable has its type. *)
TypeOK ==
  /\ queue_ \in [Queues -> Seq(Tasks)]
  /\ mutex_ \in [Queues -> Threads \union {Free}]
  /\ op \in [Threads ->
       {"none", "push", "pushing", "pop", "popping", "unlock"}]
  /\ on \in [Threads -> Queues \union {None}]
  /\ item \in [Threads -> Tasks \union {None}]
  /\ seen \in [Threads -> Seq(Tasks)]
  /\ pc \in [Threads -> {"none", "start", "idle", "add", "collect", "join",
       "gone", "poll", "run", "finish", "check", "drain", "exited", "failed"}]
  /\ stopped_ \in BOOLEAN
  /\ added \subseteq Tasks /\ received \subseteq Tasks

(* A thread has its item for itself unless the item is also in a queue: still
   there, as what is being popped, or already there, as what was pushed. *)
Holds(t) ==
  /\ op[t] # "popping"
  /\ ~(op[t] = "unlock" /\ pc[t] \in {"add", "finish"})

PlacesIn(q, k) == {<<q, n>> : n \in {m \in DOMAIN queue_[q] : queue_[q][m] = k}}

Places(k) ==
  (UNION {PlacesIn(q, k) : q \in Queues})
    \union {<<t>> : t \in {u \in Threads : item[u] = k /\ Holds(u)}}
    \union (IF k \in received THEN {<<>>} ELSE {})

(* static_thread_pool.h:31-37, 77-111 with atomic.h:171-237: from the call of
   AddTask to the Pop that hands it back, a task is in one queue, once, or in
   the hands of one thread: none is lost when a TryLock fails, none is run
   twice, whatever the threads do between a load and a store of a queue. *)
OnePlace ==
  \A k \in Tasks :
    IF k \in added THEN \E place \in Places(k) : Places(k) = {place}
                   ELSE Places(k) = {}

Status(k) ==
  IF \/ k \in received \union ToSet(queue_[Completed])
     \/ pc[Owner] = "collect" /\ item[Owner] = k
    THEN "done"
  ELSE IF \E w \in Workers : pc[w] # "failed" /\ k \in ToSet(queue_[w]) THEN "waiting"
  ELSE IF \E w \in Workers : k \in ToSet(queue_[w]) THEN "stranded"
  ELSE IF \E w \in Workers : item[w] = k THEN "running"
  ELSE IF k \in added THEN "offered" ELSE "new"

Pool == INSTANCE TaskPool WITH
  status  <- [k \in Tasks |-> Status(k)],
  life    <- IF pc[Owner] = "gone" THEN "closed"
             ELSE IF stopped_ THEN "closing" ELSE "open",
  lacking <- \E w \in Workers : pc[w] = "failed"

(* The pool keeps its promise: AddTask comes to an end, every task added is run
   once, and the destructor returns, but not before the last task has finished:
   a worker that sees stopped_ empties its own queue only
   (static_thread_pool.h:99-108), and that is enough.  The one task nobody runs
   is that in the queue of a worker pthread_create failed to create (:71), and
   only a pool with such a worker may never be destroyed. *)
RefinesTaskPool == Pool!Spec
=============================================================================
