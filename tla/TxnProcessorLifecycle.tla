------------------------ MODULE TxnProcessorLifecycle ------------------------
(***************************************************************************)
(* The life of a TxnProcessor: its constructor, which starts the pool and  *)
(* then the scheduler thread; its use by one client, the owner; and its    *)
(* destructor, which stops the scheduler, deletes the storage, destroys    *)
(* the queues and, as tp_ is declared before them, the pool last.          *)
(*                                                                         *)
(* The scheduler is RunLockingScheduler without its locks: what matters    *)
(* here is when each thread looks at stopped_ and what it touches.  The    *)
(* pool's threads run StaticThreadPool::RunThread.  storage_ and the       *)
(* queues of the processor are objects that are alive or are not.          *)
(***************************************************************************)
EXTENDS Integers, Sequences, SequencesExt

CONSTANTS
  Txns,        \* BOUND: the transactions the owner requests, each once
  Workers,     \* the threads of the pool
  StoppedInit, \* what the memory of stopped_ may hold before it is assigned
  CollectAll,  \* whether the owner has all its results before it deletes
  CreateCanFail \* whether pthread_create of the scheduler may fail

ASSUME LifecycleAssumption ==
  /\ StoppedInit \subseteq BOOLEAN /\ StoppedInit # {}
  /\ CollectAll \in BOOLEAN /\ CreateCanFail \in BOOLEAN
  /\ Workers # {}

None == "none"

ASSUME NamesAssumption == None \notin Txns

VARIABLES
  opc,           \* the owner: in the constructor, using the object, destroying it
  stopped_,      \* TxnProcessor::stopped_
  alive,         \* which of "storage" and "queues" exist
  spc,           \* the scheduler thread
  txn_requests_, ready_txns_, completed_txns_, txn_results_,
  requested, received,
  pool_stopped_, \* StaticThreadPool::stopped_
  queues_,       \* the task queue of every thread of the pool
  wpc,           \* those threads
  task           \* the transaction each executes

ownerVars == <<opc, stopped_, alive, requested, received, pool_stopped_>>
txnQueues == <<txn_requests_, ready_txns_, completed_txns_, txn_results_>>
workerVars == <<wpc, task>>
vars == <<ownerVars, spc, txnQueues, queues_, workerVars>>

Init ==
  /\ opc = "create"
  /\ stopped_ \in StoppedInit
  /\ alive = {"storage", "queues"}
  /\ spc = "none"
  /\ txn_requests_ = <<>>
  /\ ready_txns_ = <<>>
  /\ completed_txns_ = <<>>
  /\ txn_results_ = <<>>
  /\ requested = {}
  /\ received = {}
  /\ pool_stopped_ = FALSE
  /\ queues_ = [w \in Workers |-> <<>>]
  /\ wpc = [w \in Workers |-> "poll"]
  /\ task = [w \in Workers |-> None]

-----------------------------------------------------------------------------
(* Mutants of Delete, JoinScheduler, HandBack and NoneCompleted; none is part of Spec. *)
DeleteUnstopped ==
  /\ opc = "use"
  /\ CollectAll => received = requested
  /\ opc' = "join"
  /\ UNCHANGED <<stopped_, alive, requested, received, pool_stopped_, spc,
                 txnQueues, queues_, workerVars>>

JoinNobody ==
  /\ opc = "join"
  /\ opc' = "storage"
  /\ UNCHANGED <<stopped_, alive, requested, received, pool_stopped_, spc,
                 txnQueues, queues_, workerVars>>

HandBackCleared(w) ==
  /\ wpc[w] = "push"
  /\ task' = [task EXCEPT ![w] = None]
  /\ completed_txns_' = Append(completed_txns_, task'[w])
  /\ wpc' = [wpc EXCEPT ![w] = "check"]
  /\ UNCHANGED <<ownerVars, spc, txn_requests_, ready_txns_, txn_results_,
                 queues_>>

BackToStopped ==
  /\ spc = "drain"
  /\ completed_txns_ = <<>>
  /\ spc' = "stopped"
  /\ UNCHANGED <<ownerVars, txnQueues, queues_, workerVars>>

-----------------------------------------------------------------------------
(* The constructor: pthread_create first, stopped_ = false after it. *)
CreateScheduler ==
  /\ opc = "create"
  /\ spc' = "stopped"
  /\ opc' = "clear"
  /\ UNCHANGED <<stopped_, alive, requested, received, pool_stopped_,
                 txnQueues, queues_, workerVars>>

(* Nobody looks at what pthread_create returns: the constructor goes on, and
   the processor has no scheduler. *)
CreateSchedulerFails ==
  /\ CreateCanFail
  /\ opc = "create"
  /\ opc' = "clear"
  /\ UNCHANGED <<stopped_, alive, requested, received, pool_stopped_, spc,
                 txnQueues, queues_, workerVars>>

ClearStopped ==
  /\ opc = "clear"
  /\ stopped_' = FALSE
  /\ opc' = "use"
  /\ UNCHANGED <<alive, requested, received, pool_stopped_, spc, txnQueues,
                 queues_, workerVars>>

NewTxnRequest(t) ==
  /\ opc = "use"
  /\ t \notin requested
  /\ requested' = requested \union {t}
  /\ txn_requests_' = Append(txn_requests_, t)
  /\ UNCHANGED <<opc, stopped_, alive, received, pool_stopped_, spc,
                 ready_txns_, completed_txns_, txn_results_, queues_, workerVars>>

GetTxnResult ==
  /\ opc = "use"
  /\ txn_results_ # <<>>
  /\ received' = received \union {Head(txn_results_)}
  /\ txn_results_' = Tail(txn_results_)
  /\ UNCHANGED <<opc, stopped_, alive, requested, pool_stopped_, spc,
                 txn_requests_, ready_txns_, completed_txns_, queues_, workerVars>>

(* The destructor, and then those of the members. *)
Delete ==
  /\ opc = "use"
  /\ CollectAll => received = requested
  /\ stopped_' = TRUE
  /\ opc' = "join"
  /\ UNCHANGED <<alive, requested, received, pool_stopped_, spc, txnQueues,
                 queues_, workerVars>>

JoinScheduler ==
  /\ opc = "join"
  /\ spc = "exited"
  /\ opc' = "storage"
  /\ UNCHANGED <<stopped_, alive, requested, received, pool_stopped_, spc,
                 txnQueues, queues_, workerVars>>

(* pthread_join of a thread that never was is undefined: it may return at once,
   as here, or never, or end the process, which then does nothing more. *)
JoinUndefined ==
  /\ opc = "join"
  /\ spc = "none"
  /\ opc' = "storage"
  /\ UNCHANGED <<stopped_, alive, requested, received, pool_stopped_, spc,
                 txnQueues, queues_, workerVars>>

Destroy(object, from, to) ==
  /\ opc = from
  /\ alive' = alive \ {object}
  /\ opc' = to
  /\ UNCHANGED <<stopped_, requested, received, pool_stopped_, spc, txnQueues,
                 queues_, workerVars>>

DeleteStorage == Destroy("storage", "storage", "members")
DestroyQueues == Destroy("queues", "members", "pool")

StopPool ==
  /\ opc = "pool"
  /\ pool_stopped_' = TRUE
  /\ opc' = "joinpool"
  /\ UNCHANGED <<stopped_, alive, requested, received, spc, txnQueues, queues_,
                 workerVars>>

JoinPool ==
  /\ opc = "joinpool"
  /\ \A w \in Workers : wpc[w] = "exited"
  /\ opc' = "gone"
  /\ UNCHANGED <<stopped_, alive, requested, received, pool_stopped_, spc,
                 txnQueues, queues_, workerVars>>

OwnerStep ==
  \/ CreateScheduler \/ ClearStopped \/ GetTxnResult
  \/ JoinScheduler \/ DeleteStorage \/ DestroyQueues \/ StopPool \/ JoinPool

(* What may happen to the owner, and need not. *)
Failure == CreateSchedulerFails \/ JoinUndefined

-----------------------------------------------------------------------------
(* The scheduler: stopped_ is looked at once in every round. *)
CheckStopped ==
  /\ spc = "stopped"
  /\ spc' = IF stopped_ THEN "exited" ELSE "request"
  /\ UNCHANGED <<ownerVars, txnQueues, queues_, workerVars>>

PopRequest ==
  /\ spc = "request"
  /\ IF txn_requests_ # <<>>
       THEN /\ ready_txns_' = Append(ready_txns_, Head(txn_requests_))
            /\ txn_requests_' = Tail(txn_requests_)
       ELSE UNCHANGED <<ready_txns_, txn_requests_>>
  /\ spc' = "drain"
  /\ UNCHANGED <<ownerVars, completed_txns_, txn_results_, queues_, workerVars>>

PopCompleted ==
  /\ spc = "drain"
  /\ completed_txns_ # <<>>
  /\ txn_results_' = Append(txn_results_, Head(completed_txns_))
  /\ completed_txns_' = Tail(completed_txns_)
  /\ UNCHANGED <<ownerVars, spc, txn_requests_, ready_txns_, queues_, workerVars>>

NoneCompleted ==
  /\ spc = "drain"
  /\ completed_txns_ = <<>>
  /\ spc' = "dispatch"
  /\ UNCHANGED <<ownerVars, txnQueues, queues_, workerVars>>

Dispatch(w) ==
  /\ spc = "dispatch"
  /\ ready_txns_ # <<>>
  /\ queues_' = [queues_ EXCEPT ![w] = Append(@, Head(ready_txns_))]
  /\ ready_txns_' = Tail(ready_txns_)
  /\ UNCHANGED <<ownerVars, spc, txn_requests_, completed_txns_, txn_results_,
                 workerVars>>

NoneReady ==
  /\ spc = "dispatch"
  /\ ready_txns_ = <<>>
  /\ spc' = "stopped"
  /\ UNCHANGED <<ownerVars, txnQueues, queues_, workerVars>>

SchedulerStep ==
  \/ CheckStopped \/ PopRequest \/ PopCompleted \/ NoneCompleted
  \/ (\E w \in Workers : Dispatch(w)) \/ NoneReady

-----------------------------------------------------------------------------
(* A thread of the pool.  In "poll" it tries its queue, in "drain" it empties
   it; it goes back to where it came from, as pool_stopped_ tells. *)
TakeTask(w) ==
  /\ wpc[w] \in {"poll", "drain"}
  /\ queues_[w] # <<>>
  /\ task' = [task EXCEPT ![w] = Head(queues_[w])]
  /\ queues_' = [queues_ EXCEPT ![w] = Tail(@)]
  /\ wpc' = [wpc EXCEPT ![w] = "read"]
  /\ UNCHANGED <<ownerVars, spc, txnQueues>>

(* PopNonBlocking fails: the queue is empty, or the scheduler has its mutex. *)
NoTask(w) ==
  /\ wpc[w] = "poll"
  /\ queues_[w] = <<>> \/ (spc = "dispatch" /\ ready_txns_ # <<>>)
  /\ wpc' = [wpc EXCEPT ![w] = "check"]
  /\ UNCHANGED <<ownerVars, spc, txnQueues, queues_, task>>

(* ExecuteTxn: the reads from storage_, then the push to completed_txns_. *)
ReadStorage(w) ==
  /\ wpc[w] = "read"
  /\ wpc' = [wpc EXCEPT ![w] = "push"]
  /\ UNCHANGED <<ownerVars, spc, txnQueues, queues_, task>>

HandBack(w) ==
  /\ wpc[w] = "push"
  /\ completed_txns_' = Append(completed_txns_, task[w])
  /\ task' = [task EXCEPT ![w] = None]
  /\ wpc' = [wpc EXCEPT ![w] = "check"]
  /\ UNCHANGED <<ownerVars, spc, txn_requests_, ready_txns_, txn_results_,
                 queues_>>

CheckPoolStopped(w) ==
  /\ wpc[w] = "check"
  /\ wpc' = [wpc EXCEPT ![w] = IF pool_stopped_ THEN "drain" ELSE "poll"]
  /\ UNCHANGED <<ownerVars, spc, txnQueues, queues_, task>>

LeaveThread(w) ==
  /\ wpc[w] = "drain"
  /\ queues_[w] = <<>>
  /\ wpc' = [wpc EXCEPT ![w] = "exited"]
  /\ UNCHANGED <<ownerVars, spc, txnQueues, queues_, task>>

WorkerStep(w) ==
  \/ TakeTask(w) \/ NoTask(w) \/ ReadStorage(w) \/ HandBack(w)
  \/ CheckPoolStopped(w) \/ LeaveThread(w)

(* Nothing is left to do once the object is gone. *)
Terminated == opc = "gone" /\ UNCHANGED vars

Next ==
  \/ OwnerStep \/ Failure
  \/ \E t \in Txns : NewTxnRequest(t)
  \/ Delete
  \/ SchedulerStep
  \/ \E w \in Workers : WorkerStep(w)
  \/ Terminated

(* Threads that never block keep running, and the owner finishes what it is
   in; it need not request anything, nor ever delete the processor. *)
Spec ==
  /\ Init
  /\ [][Next]_vars
  /\ WF_vars(OwnerStep)
  /\ WF_vars(SchedulerStep)
  /\ \A w \in Workers : WF_vars(WorkerStep(w))

-----------------------------------------------------------------------------
(* Every variable has its type. *)
TypeOK ==
  /\ opc \in {"create", "clear", "use", "join", "storage", "members", "pool",
              "joinpool", "gone"}
  /\ stopped_ \in BOOLEAN /\ pool_stopped_ \in BOOLEAN
  /\ alive \subseteq {"storage", "queues"}
  /\ spc \in {"none", "stopped", "request", "drain", "dispatch", "exited"}
  /\ \A q \in {txn_requests_, ready_txns_, completed_txns_, txn_results_} :
       q \in Seq(Txns)
  /\ requested \subseteq Txns /\ received \subseteq requested
  /\ queues_ \in [Workers -> Seq(Txns)]
  /\ wpc \in [Workers -> {"poll", "read", "push", "check", "drain", "exited"}]
  /\ task \in [Workers -> Txns \union {None}]

(* txn_processor.cc:60: no thread is left that is about to use storage_ or a
   queue of the processor when the destructor has freed it. *)
NoUseAfterDestroy ==
  /\ \A w \in Workers : /\ wpc[w] = "read" => "storage" \in alive
                        /\ wpc[w] = "push" => "queues" \in alive
  /\ spc \in {"request", "drain", "dispatch"} => alive = {"storage", "queues"}

(* txn_processor.h:44-45: a destructor that has begun stops all the threads
   and returns, if there is a scheduler to join. *)
DeleteReturns == opc = "join" /\ spc # "none" ~> opc = "gone"

(* txn_processor.h:40-41: the constructor starts the processor running, so that
   every request of an owner that waits for its results is answered. *)
EveryRequestAnswered ==
  \A t \in Txns : t \in requested ~> t \in received

(* txn_processor.cc:46-47: so it is once the scheduler thread exists, whatever
   else is under way: the threads of the pool, the owner's other calls. *)
AnsweredOnceStarted ==
  \A t \in Txns : t \in requested /\ spc # "none" ~> t \in received
=============================================================================
