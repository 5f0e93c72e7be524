---------------------------- MODULE AtomicQueue ----------------------------
(***************************************************************************)
(* The AtomicQueues of assignment 2, at the grain of their mutexes: what a *)
(* thread does between Lock and Unlock are steps of their own.             *)
(*                                                                         *)
(* The std::queue inside is not atomic.  A push or a pop loads its state   *)
(* and then stores the new one; were two threads in it at once, the later  *)
(* store would undo the earlier one.                                       *)
(*                                                                         *)
(* A thread is in at most one operation at a time.  Push and Pop begin     *)
(* when the mutex is free; the NonBlocking forms return false at once if   *)
(* it is not.  What an operation returns is in item: a Pop that returns    *)
(* false leaves None there.                                                *)
(***************************************************************************)
EXTENDS Sequences

Free == "free"   \* a mutex nobody holds
None == "none"   \* no item; no queue

VARIABLES
  queue_,  \* the contents of every queue
  mutex_,  \* the thread that holds the mutex of every queue, or Free
  op,      \* how far every thread is in its operation
  on,      \*   the queue it is on
  item,    \*   the item it pushes, or has popped
  seen     \*   the contents it has loaded

queueVars == <<queue_, mutex_, op, on, item, seen>>

QueueInit(threads, queues) ==
  /\ queue_ = [q \in queues |-> <<>>]
  /\ mutex_ = [q \in queues |-> Free]
  /\ op = [t \in threads |-> "none"]
  /\ on = [t \in threads |-> None]
  /\ item = [t \in threads |-> None]
  /\ seen = [t \in threads |-> <<>>]

-----------------------------------------------------------------------------
(* A mutant of Lock: pthread_mutex_lock with an error nobody looks at. *)
LockUnchecked(t, q) ==
  /\ mutex_' = [mutex_ EXCEPT ![q] = t]
  /\ on' = [on EXCEPT ![t] = q]

(* Mutex::Lock, and a TryLock that returns true. *)
Lock(t, q) ==
  /\ mutex_[q] = Free
  /\ mutex_' = [mutex_ EXCEPT ![q] = t]
  /\ on' = [on EXCEPT ![t] = q]

(* TryLock returns false. *)
Busy(q) == mutex_[q] # Free

Unlock(t) ==
  /\ op[t] = "unlock"
  /\ mutex_' = [mutex_ EXCEPT ![on[t]] = Free]
  /\ on' = [on EXCEPT ![t] = None]
  /\ op' = [op EXCEPT ![t] = "none"]
  /\ UNCHANGED <<queue_, seen>>

(* The first step of each operation. *)
Push(t, q, x) ==
  /\ Lock(t, q)
  /\ op' = [op EXCEPT ![t] = "push"]
  /\ item' = [item EXCEPT ![t] = x]
  /\ UNCHANGED <<queue_, seen>>

Pop(t, q) ==
  /\ Lock(t, q)
  /\ op' = [op EXCEPT ![t] = "pop"]
  /\ item' = [item EXCEPT ![t] = None]
  /\ UNCHANGED <<queue_, seen>>

PushNonBlocking(t, q, x) ==
  IF Busy(q) THEN UNCHANGED queueVars ELSE Push(t, q, x)

PopNonBlocking(t, q) ==
  IF Busy(q) THEN UNCHANGED queueVars ELSE Pop(t, q)

(* Between Lock and Unlock. *)
LoadToPush(t) ==
  /\ op[t] = "push"
  /\ seen' = [seen EXCEPT ![t] = queue_[on[t]]]
  /\ op' = [op EXCEPT ![t] = "pushing"]
  /\ UNCHANGED <<queue_, mutex_, on, item>>

StorePushed(t) ==
  /\ op[t] = "pushing"
  /\ queue_' = [queue_ EXCEPT ![on[t]] = Append(seen[t], item[t])]
  /\ seen' = [seen EXCEPT ![t] = <<>>]
  /\ op' = [op EXCEPT ![t] = "unlock"]
  /\ UNCHANGED <<mutex_, on, item>>

FoundEmpty(t) ==
  /\ op[t] = "pop"
  /\ queue_[on[t]] = <<>>
  /\ op' = [op EXCEPT ![t] = "unlock"]
  /\ UNCHANGED <<queue_, mutex_, on, item, seen>>

LoadToPop(t) ==
  /\ op[t] = "pop"
  /\ queue_[on[t]] # <<>>
  /\ seen' = [seen EXCEPT ![t] = queue_[on[t]]]
  /\ item' = [item EXCEPT ![t] = Head(queue_[on[t]])]
  /\ op' = [op EXCEPT ![t] = "popping"]
  /\ UNCHANGED <<queue_, mutex_, on>>

StorePopped(t) ==
  /\ op[t] = "popping"
  /\ queue_' = [queue_ EXCEPT ![on[t]] = Tail(seen[t])]
  /\ seen' = [seen EXCEPT ![t] = <<>>]
  /\ op' = [op EXCEPT ![t] = "unlock"]
  /\ UNCHANGED <<mutex_, on, item>>

InOperation(t) ==
  LoadToPush(t) \/ StorePushed(t) \/ FoundEmpty(t) \/ LoadToPop(t) \/ StorePopped(t)
=============================================================================
