----------------------- MODULE StaticThreadPoolProofs -----------------------
(***************************************************************************)
(* The pool and its queues for any number of threads and tasks.            *)
(***************************************************************************)
EXTENDS StaticThreadPool, SequenceTheorems, TLAPS

OwnerPlaces  == {"start", "idle", "add", "collect", "join", "gone"}
WorkerPlaces == {"none", "poll", "run", "finish", "check", "drain", "exited",
                  "failed"}

(* The types of the queues, and of the rest. *)
QueueTypes ==
  /\ queue_ \in [Queues -> Seq(Tasks)]
  /\ mutex_ \in [Queues -> Threads \union {Free}]
  /\ op \in [Threads ->
       {"none", "push", "pushing", "pop", "popping", "unlock"}]
  /\ on \in [Threads -> Queues \union {None}]
  /\ item \in [Threads -> Tasks \union {None}]
  /\ seen \in [Threads -> Seq(Tasks)]

PlaceTypes ==
  /\ pc \in [Threads -> OwnerPlaces \union WorkerPlaces]
  /\ pc[Owner] \in OwnerPlaces
  /\ \A w \in Workers : pc[w] \in WorkerPlaces
  /\ stopped_ \in BOOLEAN
  /\ added \subseteq Tasks
  /\ received \subseteq Tasks

(* A thread in an operation has the mutex of the queue it is on, and what it
   has loaded is what the queue still holds. *)
Mutual ==
  \A t \in Threads : op[t] # "none" =>
    /\ on[t] \in Queues
    /\ mutex_[on[t]] = t
    /\ op[t] \in {"push", "pushing"} => item[t] # None
    /\ op[t] = "pushing" => seen[t] = queue_[on[t]]
    /\ op[t] = "popping" => /\ seen[t] = queue_[on[t]]
                            /\ seen[t] # <<>>
                            /\ item[t] = Head(seen[t])

(* What a thread is doing where it is: whether it pushes or pops, and when it
   has an item. *)
Pushing == {"add", "finish"}
Popping == {"collect", "poll", "drain"}

Doing(t) ==
  /\ pc[t] \in Pushing =>
       item[t] # None /\ op[t] \in {"none", "push", "pushing", "unlock"}
  /\ pc[t] \in Popping =>
       /\ op[t] \in {"none", "pop", "popping", "unlock"}
       /\ op[t] \in {"none", "pop"} => item[t] = None
  /\ pc[t] \notin Pushing \union Popping => op[t] = "none"
  /\ pc[t] \notin Pushing \union Popping \union {"run"} => item[t] = None
  /\ pc[t] = "run" => item[t] # None
  /\ pc[t] \in {"finish", "collect"} => op[t] # "none" /\ on[t] = Completed
  /\ pc[t] \in {"poll", "drain"} /\ op[t] # "none" => on[t] = t
  /\ pc[t] = "add" /\ op[t] # "none" => on[t] \in Workers

Control == \A t \in Threads : Doing(t)

(* Where a task is. *)
Queued(q, n, k) == q \in Queues /\ n \in DOMAIN queue_[q] /\ queue_[q][n] = k
Held(t, k)      == t \in Threads /\ item[t] = k /\ Holds(t)

(* A task is never in two places. *)
Unshared ==
  /\ \A k \in Tasks, p, q \in Queues, m, n \in Nat :
       Queued(p, m, k) /\ Queued(q, n, k) => p = q /\ m = n
  /\ \A k \in Tasks, t, u \in Threads : Held(t, k) /\ Held(u, k) => t = u
  /\ \A k \in Tasks, t \in Threads, q \in Queues, n \in Nat :
       ~(Held(t, k) /\ Queued(q, n, k))
  /\ \A k \in received, t \in Threads : ~Held(t, k)
  /\ \A k \in received, q \in Queues, n \in Nat : ~Queued(q, n, k)

(* A task is in some place once it was added, and only then. *)
Somewhere ==
  \A k \in Tasks : k \in added <=>
    \/ k \in received
    \/ \E t \in Threads : Held(t, k)
    \/ \E q \in Queues, n \in Nat : Queued(q, n, k)

Locks == QueueTypes /\ PlaceTypes /\ Mutual /\ Control
IInv  == Locks /\ Unshared /\ Somewhere

(* What a step does to the places of the tasks. *)
InQueue(q, k) == \E n \in Nat : Queued(q, n, k)

SameQueues == \A q \in Queues, k \in Tasks : InQueue(q, k)' <=> InQueue(q, k)

StaysPut ==
  /\ \A t \in Threads, k \in Tasks : Held(t, k)' <=> Held(t, k)
  /\ SameQueues
  /\ received' = received /\ added' = added

Enters(k) ==
  /\ pc'[Owner] = "add" /\ k \notin added
  /\ \A t \in Threads, j \in Tasks :
       Held(t, j)' <=> Held(t, j) \/ (t = Owner /\ j = k)
  /\ SameQueues
  /\ received' = received /\ added' = added \union {k}

Leaves ==
  /\ pc[Owner] = "collect"
  /\ \A t \in Threads, k \in Tasks : Held(t, k)' <=> Held(t, k) /\ t # Owner
  /\ SameQueues
  /\ \A k \in Tasks : k \in received' <=> k \in received \/ Held(Owner, k)
  /\ added' = added

PutIn(t, q, k) ==
  /\ pc' = pc /\ pc[t] \in Pushing /\ op[t] # "none" /\ on[t] = q /\ Held(t, k)
  /\ \A u \in Threads, j \in Tasks : Held(u, j)' <=> Held(u, j) /\ u # t
  /\ \A r \in Queues, j \in Tasks :
       InQueue(r, j)' <=> InQueue(r, j) \/ (r = q /\ j = k)
  /\ received' = received /\ added' = added

TakenOut(t, q, k) ==
  /\ pc' = pc /\ pc[t] \in Popping /\ op[t] # "none" /\ on[t] = q /\ InQueue(q, k)
  /\ \A u \in Threads, j \in Tasks :
       Held(u, j)' <=> Held(u, j) \/ (u = t /\ j = k)
  /\ \A r \in Queues, j \in Tasks :
       InQueue(r, j)' <=> InQueue(r, j) /\ ~(r = q /\ j = k)
  /\ received' = received /\ added' = added

Movement ==
  \/ StaysPut
  \/ \E k \in Tasks : Enters(k)
  \/ Leaves
  \/ \E t \in Threads, q \in Queues, k \in Tasks : PutIn(t, q, k) \/ TakenOut(t, q, k)

-----------------------------------------------------------------------------
LEMMA Names ==
  /\ Owner \notin Workers /\ Completed \notin Workers /\ Free \notin Threads
  /\ None \notin Tasks /\ None \notin Queues /\ None \notin Threads
  /\ Owner # Completed
  /\ Owner \in Threads /\ Workers \subseteq Threads
  /\ Completed \in Queues /\ Workers \subseteq Queues
  /\ Threads = Workers \union {Owner}
  BY StaticThreadPoolAssumption DEF Threads, Queues, Owner, Completed, Free, None

LEMMA LocksInit == Init => Locks
<1> SUFFICES ASSUME Init PROVE Locks
  OBVIOUS
<1>1. PlaceTypes
  BY Names DEF Init, PlaceTypes, OwnerPlaces, WorkerPlaces
<1>2. QueueTypes
  <2>1. /\ queue_ \in [Queues -> Seq(Tasks)]
        /\ mutex_ \in [Queues -> Threads \union {Free}]
        /\ seen \in [Threads -> Seq(Tasks)]
    BY DEF Init, QueueInit
  <2>2. /\ op \in [Threads ->
             {"none", "push", "pushing", "pop", "popping", "unlock"}]
        /\ on \in [Threads -> Queues \union {None}]
        /\ item \in [Threads -> Tasks \union {None}]
    BY DEF Init, QueueInit
  <2> QED
    BY <2>1, <2>2 DEF QueueTypes
<1>3. Mutual
  BY DEF Init, QueueInit, Mutual
<1>4. Control
  BY DEF Init, QueueInit, Control, Doing, Pushing, Popping
<1> QED
  BY <1>1, <1>2, <1>3, <1>4 DEF Locks

-----------------------------------------------------------------------------
(* The steps of an operation keep the types of the queues and the mutual
   exclusion on them. *)
LEMMA PushKeeps ==
  ASSUME QueueTypes, Mutual, NEW t \in Threads, op[t] = "none",
         NEW q \in Queues, NEW x \in Tasks, Push(t, q, x)
  PROVE  QueueTypes' /\ Mutual'
<1>1. QueueTypes'
  BY DEF QueueTypes, Push, Lock
<1>2. \A u \in Threads : op[u] # "none" => on[u] # q
  BY Names DEF Mutual, Push, Lock
<1>3. Mutual'
  BY <1>2, Names DEF QueueTypes, Mutual, Push, Lock
<1> QED
  BY <1>1, <1>3

LEMMA PopKeeps ==
  ASSUME QueueTypes, Mutual, NEW t \in Threads, op[t] = "none",
         NEW q \in Queues, Pop(t, q)
  PROVE  QueueTypes' /\ Mutual'
<1>1. QueueTypes'
  BY DEF QueueTypes, Pop, Lock
<1>2. \A u \in Threads : op[u] # "none" => on[u] # q
  BY Names DEF Mutual, Pop, Lock
<1>3. Mutual'
  BY <1>2 DEF QueueTypes, Mutual, Pop, Lock
<1> QED
  BY <1>1, <1>3

LEMMA UnlockKeeps ==
  ASSUME QueueTypes, Mutual, NEW t \in Threads, Unlock(t),
         NEW x \in Tasks \union {None},
         item' = item \/ item' = [item EXCEPT ![t] = x]
  PROVE  QueueTypes' /\ Mutual'
<1>1. QueueTypes'
  <2>1. on[t] \in Queues
    BY DEF Mutual, Unlock
  <2>2. item' \in [Threads -> Tasks \union {None}]
    BY DEF QueueTypes
  <2> QED
    BY <2>1, <2>2 DEF QueueTypes, Unlock
<1>2. \A u \in Threads \ {t} : op[u] # "none" => on[u] # on[t]
  BY DEF Mutual, Unlock
<1>3. Mutual'
  BY <1>2 DEF QueueTypes, Mutual, Unlock
<1> QED
  BY <1>1, <1>3

LEMMA InOperationKeeps ==
  ASSUME QueueTypes, Mutual, NEW t \in Threads, InOperation(t)
  PROVE  QueueTypes' /\ Mutual'
<1>1. \A u \in Threads \ {t} : op[t] # "none" /\ op[u] # "none" => on[u] # on[t]
  BY DEF Mutual
<1>2. op[t] # "none" => on[t] \in Queues /\ queue_[on[t]] \in Seq(Tasks)
  BY DEF Mutual, QueueTypes
<1>3. CASE LoadToPush(t)
  BY <1>1, <1>2, <1>3 DEF QueueTypes, Mutual, LoadToPush
<1>4. CASE StorePushed(t)
  <2>1. Append(seen[t], item[t]) \in Seq(Tasks)
    BY <1>4, AppendProperties DEF StorePushed, QueueTypes, Mutual
  <2> QED
    BY <1>1, <1>2, <1>4, <2>1 DEF QueueTypes, Mutual, StorePushed
<1>5. CASE FoundEmpty(t)
  BY <1>1, <1>2, <1>5 DEF QueueTypes, Mutual, FoundEmpty
<1>6. CASE LoadToPop(t)
  <2>1. Head(queue_[on[t]]) \in Tasks
    BY <1>2, <1>6, HeadTailProperties DEF LoadToPop
  <2> QED
    BY <1>1, <1>2, <1>6, <2>1 DEF QueueTypes, Mutual, LoadToPop
<1>7. CASE StorePopped(t)
  <2>1. Tail(seen[t]) \in Seq(Tasks)
    BY <1>2, <1>7, HeadTailProperties DEF StorePopped, Mutual
  <2> QED
    BY <1>1, <1>2, <1>7, <2>1 DEF QueueTypes, Mutual, StorePopped
<1> QED
  BY <1>3, <1>4, <1>5, <1>6, <1>7 DEF InOperation

LEMMA IdleKeeps ==
  ASSUME QueueTypes, Mutual, UNCHANGED queueVars
  PROVE  QueueTypes' /\ Mutual'
  BY DEF QueueTypes, Mutual, queueVars

-----------------------------------------------------------------------------
(* A step of thread t takes it from one place to another, if at all, and
   disturbs no other thread. *)
LEMMA Moves ==
  ASSUME PlaceTypes, NEW t \in Threads,
         NEW place, t = Owner => place \in OwnerPlaces,
         t \in Workers => place \in WorkerPlaces,
         pc' = [pc EXCEPT ![t] = place],
         stopped_' \in BOOLEAN, added' \subseteq Tasks, received' \subseteq Tasks
  PROVE  PlaceTypes'
  BY Names DEF PlaceTypes

LEMMA OneMoves ==
  ASSUME QueueTypes, PlaceTypes, Control, NEW t \in Threads,
         \A u \in Threads \ {t} : /\ pc'[u] = pc[u] /\ op'[u] = op[u]
                                /\ on'[u] = on[u] /\ item'[u] = item[u],
         Doing(t)'
  PROVE  Control'
  BY DEF Control, Doing

LEMMA LocksOwner ==
  ASSUME Locks, OwnerStep \/ Failure \/ Collect \/ Stop \/ \E k \in Tasks : AddTask(k)
  PROVE  Locks'
<1> USE DEF Locks
<1>0. Doing(Owner) /\ pc[Owner] \in OwnerPlaces /\ Owner \in Threads
  BY Names DEF Control, PlaceTypes
<1>1. ASSUME NEW w \in Workers, CreateThread(w) PROVE Locks'
  <2>1. QueueTypes' /\ Mutual'
    BY <1>1, IdleKeeps DEF CreateThread
  <2>2. PlaceTypes'
    BY <1>1, Names, Moves DEF CreateThread, At, WorkerPlaces, PlaceTypes
  <2>3. Doing(w)'
    BY <1>1, Names DEF CreateThread, At, Control, Doing, Pushing, Popping,
      PlaceTypes, queueVars
  <2>4. Control'
    BY <1>1, <2>3, Names, OneMoves DEF CreateThread, At, PlaceTypes, queueVars
  <2> QED
    BY <2>1, <2>2, <2>4
<1>2. ASSUME Started PROVE Locks'
  <2>1. QueueTypes' /\ Mutual'
    BY <1>2, <1>0, IdleKeeps DEF Started
  <2>2. PlaceTypes'
    BY <1>2, <1>0, Names, Moves DEF Started, At, OwnerPlaces, WorkerPlaces, PlaceTypes
  <2>3. Doing(Owner)'
    BY <1>2, <1>0, Names DEF Started, At, Doing, Pushing, Popping, PlaceTypes, QueueTypes, queueVars
  <2>4. \A u \in Threads \ {Owner} : /\ pc'[u] = pc[u] /\ op'[u] = op[u]
                               /\ on'[u] = on[u] /\ item'[u] = item[u]
    BY <1>2, <1>0, Names DEF Started, At, PlaceTypes, QueueTypes, queueVars
  <2> QED
    BY <1>0, <2>1, <2>2, <2>3, <2>4, OneMoves
<1>3. ASSUME NEW w \in Workers, TryPush(w) PROVE Locks'
  <2>1. CASE Busy(w)
    BY <1>3, <2>1 DEF TryPush, PushNonBlocking, QueueTypes, PlaceTypes, Mutual,
      Control, Doing, queueVars
  <2>2. CASE ~Busy(w)
    <3>1. Push(Owner, w, item[Owner]) /\ op[Owner] = "none" /\ pc[Owner] = "add"
      BY <1>3, <2>2 DEF TryPush, PushNonBlocking
    <3>2. item[Owner] \in Tasks
      BY <1>0, <3>1 DEF Doing, Pushing, QueueTypes
    <3>3. QueueTypes' /\ Mutual'
      BY <1>0, <3>1, <3>2, Names, PushKeeps
    <3>4. PlaceTypes'
      BY <1>3 DEF TryPush, PlaceTypes
    <3>5. Doing(Owner)'
      BY <1>3, <1>0, <3>1, <3>2, Names DEF TryPush, Push, Lock, Doing, Pushing,
        Popping, QueueTypes
    <3>6. \A u \in Threads \ {Owner} :
             /\ pc'[u] = pc[u] /\ op'[u] = op[u]
             /\ on'[u] = on[u] /\ item'[u] = item[u]
      BY <1>3, <3>1 DEF TryPush, Push, Lock, QueueTypes
    <3> QED
      BY <1>0, <3>3, <3>4, <3>5, <3>6, OneMoves
  <2> QED
    BY <2>1, <2>2
<1>4. ASSUME AddTaskReturns PROVE Locks'
  <2>1. QueueTypes' /\ Mutual'
    BY <1>4, <1>0, UnlockKeeps DEF AddTaskReturns
  <2>2. PlaceTypes'
    BY <1>4, <1>0, Names, Moves DEF AddTaskReturns, At, OwnerPlaces, WorkerPlaces, PlaceTypes, Unlock
  <2>3. Doing(Owner)'
    BY <1>4, <1>0, Names DEF AddTaskReturns, At, Doing, Pushing, Popping, PlaceTypes, QueueTypes, queueVars, Unlock
  <2>4. \A u \in Threads \ {Owner} : /\ pc'[u] = pc[u] /\ op'[u] = op[u]
                               /\ on'[u] = on[u] /\ item'[u] = item[u]
    BY <1>4, <1>0, Names DEF AddTaskReturns, At, PlaceTypes, QueueTypes, queueVars, Unlock
  <2> QED
    BY <1>0, <2>1, <2>2, <2>3, <2>4, OneMoves
<1>5. ASSUME CollectReturns PROVE Locks'
  <2>1. QueueTypes' /\ Mutual'
    BY <1>5, <1>0, UnlockKeeps DEF CollectReturns
  <2>2. PlaceTypes'
    <3>1. item[Owner] \in Tasks \union {None}
      BY <1>0 DEF QueueTypes
    <3>2. received' \subseteq Tasks
      BY <1>5, <3>1 DEF CollectReturns, PlaceTypes
    <3> QED
      BY <1>5, <1>0, <3>2, Names, Moves DEF CollectReturns, At, OwnerPlaces, PlaceTypes
  <2>3. Doing(Owner)'
    BY <1>5, <1>0, Names DEF CollectReturns, At, Doing, Pushing, Popping, PlaceTypes, QueueTypes, queueVars, Unlock
  <2>4. \A u \in Threads \ {Owner} : /\ pc'[u] = pc[u] /\ op'[u] = op[u]
                               /\ on'[u] = on[u] /\ item'[u] = item[u]
    BY <1>5, <1>0, Names DEF CollectReturns, At, PlaceTypes, QueueTypes, queueVars, Unlock
  <2> QED
    BY <1>0, <2>1, <2>2, <2>3, <2>4, OneMoves
<1>6. ASSUME Joined PROVE Locks'
  <2>1. QueueTypes' /\ Mutual'
    BY <1>6, <1>0, IdleKeeps DEF Joined
  <2>2. PlaceTypes'
    BY <1>6, <1>0, Names, Moves DEF Joined, At, OwnerPlaces, WorkerPlaces, PlaceTypes
  <2>3. Doing(Owner)'
    BY <1>6, <1>0, Names DEF Joined, At, Doing, Pushing, Popping, PlaceTypes, QueueTypes, queueVars
  <2>4. \A u \in Threads \ {Owner} : /\ pc'[u] = pc[u] /\ op'[u] = op[u]
                               /\ on'[u] = on[u] /\ item'[u] = item[u]
    BY <1>6, <1>0, Names DEF Joined, At, PlaceTypes, QueueTypes, queueVars
  <2> QED
    BY <1>0, <2>1, <2>2, <2>3, <2>4, OneMoves
<1>7. ASSUME Collect PROVE Locks'
  <2>1. QueueTypes' /\ Mutual'
    BY <1>7, <1>0, Names, PopKeeps DEF Collect, At, Doing, Pushing, Popping
  <2>2. PlaceTypes'
    BY <1>7, <1>0, Names, Moves DEF Collect, At, OwnerPlaces, WorkerPlaces, PlaceTypes, Pop, Lock
  <2>3. Doing(Owner)'
    BY <1>7, <1>0, Names DEF Collect, At, Doing, Pushing, Popping, PlaceTypes, QueueTypes, queueVars, Pop, Lock
  <2>4. \A u \in Threads \ {Owner} : /\ pc'[u] = pc[u] /\ op'[u] = op[u]
                               /\ on'[u] = on[u] /\ item'[u] = item[u]
    BY <1>7, <1>0, Names DEF Collect, At, PlaceTypes, QueueTypes, queueVars, Pop, Lock
  <2> QED
    BY <1>0, <2>1, <2>2, <2>3, <2>4, OneMoves
<1>8. ASSUME Stop PROVE Locks'
  <2>1. QueueTypes' /\ Mutual'
    BY <1>8, <1>0, IdleKeeps DEF Stop
  <2>2. PlaceTypes'
    BY <1>8, <1>0, Names, Moves DEF Stop, At, OwnerPlaces, WorkerPlaces, PlaceTypes
  <2>3. Doing(Owner)'
    BY <1>8, <1>0, Names DEF Stop, At, Doing, Pushing, Popping, PlaceTypes, QueueTypes, queueVars
  <2>4. \A u \in Threads \ {Owner} : /\ pc'[u] = pc[u] /\ op'[u] = op[u]
                               /\ on'[u] = on[u] /\ item'[u] = item[u]
    BY <1>8, <1>0, Names DEF Stop, At, PlaceTypes, QueueTypes, queueVars
  <2> QED
    BY <1>0, <2>1, <2>2, <2>3, <2>4, OneMoves
<1>9. ASSUME NEW k \in Tasks, AddTask(k) PROVE Locks'
  <2>1. QueueTypes' /\ Mutual'
    BY <1>9, <1>0, Names DEF AddTask, At, Doing, Pushing, Popping, QueueTypes, Mutual
  <2>2. PlaceTypes'
    BY <1>9, <1>0, Names, Moves DEF AddTask, At, OwnerPlaces, WorkerPlaces, PlaceTypes
  <2>3. Doing(Owner)'
    BY <1>9, <1>0, Names DEF AddTask, At, Doing, Pushing, Popping, PlaceTypes, QueueTypes, queueVars
  <2>4. \A u \in Threads \ {Owner} : /\ pc'[u] = pc[u] /\ op'[u] = op[u]
                               /\ on'[u] = on[u] /\ item'[u] = item[u]
    BY <1>9, <1>0, Names DEF AddTask, At, PlaceTypes, QueueTypes, queueVars
  <2> QED
    BY <1>0, <2>1, <2>2, <2>3, <2>4, OneMoves
<1>10. ASSUME NEW w \in Workers, CreateThreadFails(w) PROVE Locks'
  <2>1. QueueTypes' /\ Mutual'
    BY <1>10, IdleKeeps DEF CreateThreadFails
  <2>2. PlaceTypes'
    BY <1>10, Names, Moves DEF CreateThreadFails, At, WorkerPlaces, PlaceTypes
  <2>3. Doing(w)'
    BY <1>10, Names DEF CreateThreadFails, At, Control, Doing, Pushing, Popping,
      PlaceTypes, queueVars
  <2>4. Control'
    BY <1>10, <2>3, Names, OneMoves DEF CreateThreadFails, At, PlaceTypes, queueVars
  <2> QED
    BY <2>1, <2>2, <2>4
<1>11. ASSUME JoinUndefined PROVE Locks'
  <2>1. QueueTypes' /\ Mutual'
    BY <1>11, <1>0, IdleKeeps DEF JoinUndefined
  <2>2. PlaceTypes'
    BY <1>11, <1>0, Names, Moves DEF JoinUndefined, At, OwnerPlaces, WorkerPlaces, PlaceTypes
  <2>3. Doing(Owner)'
    BY <1>11, <1>0, Names DEF JoinUndefined, At, Doing, Pushing, Popping, PlaceTypes, QueueTypes, queueVars
  <2>4. \A u \in Threads \ {Owner} : /\ pc'[u] = pc[u] /\ op'[u] = op[u]
                               /\ on'[u] = on[u] /\ item'[u] = item[u]
    BY <1>11, <1>0, Names DEF JoinUndefined, At, PlaceTypes, QueueTypes, queueVars
  <2> QED
    BY <1>0, <2>1, <2>2, <2>3, <2>4, OneMoves
<1> QED
  BY <1>1, <1>2, <1>3, <1>4, <1>5, <1>6, <1>7, <1>8, <1>9, <1>10, <1>11
    DEF OwnerStep, Failure

LEMMA LocksWorker ==
  ASSUME Locks, NEW w \in Workers, WorkerStep(w)
  PROVE  Locks'
<1> USE DEF Locks
<1>0. /\ Doing(w) /\ pc[w] \in WorkerPlaces
      /\ w \in Threads /\ w \in Queues /\ w # Owner /\ w # Completed
  BY Names DEF Control, PlaceTypes
<1>1. ASSUME Poll(w) PROVE Locks'
  <2>1. CASE Busy(w)
    <3>1. QueueTypes' /\ Mutual'
      BY <1>1, <2>1, IdleKeeps DEF Poll, PopNonBlocking
    <3>2. PlaceTypes'
      BY <1>1, <1>0, <2>1, Names, Moves DEF Poll, At, WorkerPlaces, PlaceTypes
    <3>3. Doing(w)'
      BY <1>1, <1>0, <2>1, Names DEF Poll, At, PopNonBlocking, Doing, Pushing,
        Popping, PlaceTypes, queueVars
    <3>4. \A u \in Threads \ {w} :
             /\ pc'[u] = pc[u] /\ op'[u] = op[u]
             /\ on'[u] = on[u] /\ item'[u] = item[u]
      BY <1>1, <2>1 DEF Poll, At, PopNonBlocking, PlaceTypes, queueVars
    <3> QED
      BY <1>0, <3>1, <3>2, <3>3, <3>4, OneMoves
  <2>2. CASE ~Busy(w)
    <3>1. Pop(w, w) /\ op[w] = "none" /\ pc[w] = "poll"
      BY <1>1, <2>2 DEF Poll, PopNonBlocking, At
    <3>2. QueueTypes' /\ Mutual'
      BY <1>0, <3>1, PopKeeps
    <3>3. PlaceTypes'
      BY <1>1, <1>0, <2>2, Names, Moves DEF Poll, At, WorkerPlaces, PlaceTypes
    <3>4. Doing(w)'
      BY <1>1, <1>0, <2>2, <3>1, Names DEF Poll, At, Pop, Lock, Doing, Pushing,
        Popping, PlaceTypes, QueueTypes
    <3>5. \A u \in Threads \ {w} :
             /\ pc'[u] = pc[u] /\ op'[u] = op[u]
             /\ on'[u] = on[u] /\ item'[u] = item[u]
      BY <1>1, <3>1 DEF Poll, At, Pop, Lock, PlaceTypes, QueueTypes
    <3> QED
      BY <1>0, <3>2, <3>3, <3>4, <3>5, OneMoves
  <2> QED
    BY <2>1, <2>2
<1>2. ASSUME PollReturns(w) PROVE Locks'
  <2>1. QueueTypes' /\ Mutual'
    BY <1>2, <1>0, UnlockKeeps DEF PollReturns
  <2>2. PlaceTypes'
    BY <1>2, <1>0, Names, Moves DEF PollReturns, At, OwnerPlaces, WorkerPlaces, PlaceTypes, Unlock
  <2>3. Doing(w)'
    BY <1>2, <1>0, Names DEF PollReturns, At, Doing, Pushing, Popping, PlaceTypes, QueueTypes, queueVars, Unlock
  <2>4. \A u \in Threads \ {w} : /\ pc'[u] = pc[u] /\ op'[u] = op[u]
                               /\ on'[u] = on[u] /\ item'[u] = item[u]
    BY <1>2, <1>0, Names DEF PollReturns, At, PlaceTypes, QueueTypes, queueVars, Unlock
  <2> QED
    BY <1>0, <2>1, <2>2, <2>3, <2>4, OneMoves
<1>3. ASSUME RunTask(w) PROVE Locks'
  <2>1. QueueTypes' /\ Mutual'
    BY <1>3, <1>0, Names, PushKeeps DEF RunTask, At, Doing, Pushing, Popping, QueueTypes
  <2>2. PlaceTypes'
    BY <1>3, <1>0, Names, Moves DEF RunTask, At, OwnerPlaces, WorkerPlaces, PlaceTypes, Push, Lock
  <2>3. Doing(w)'
    BY <1>3, <1>0, Names DEF RunTask, At, Doing, Pushing, Popping, PlaceTypes, QueueTypes, queueVars, Push, Lock
  <2>4. \A u \in Threads \ {w} : /\ pc'[u] = pc[u] /\ op'[u] = op[u]
                               /\ on'[u] = on[u] /\ item'[u] = item[u]
    BY <1>3, <1>0, Names DEF RunTask, At, PlaceTypes, QueueTypes, queueVars, Push, Lock
  <2> QED
    BY <1>0, <2>1, <2>2, <2>3, <2>4, OneMoves
<1>4. ASSUME FinishTask(w) PROVE Locks'
  <2>1. QueueTypes' /\ Mutual'
    BY <1>4, <1>0, UnlockKeeps DEF FinishTask
  <2>2. PlaceTypes'
    BY <1>4, <1>0, Names, Moves DEF FinishTask, At, OwnerPlaces, WorkerPlaces, PlaceTypes, Unlock
  <2>3. Doing(w)'
    BY <1>4, <1>0, Names DEF FinishTask, At, Doing, Pushing, Popping, PlaceTypes, QueueTypes, queueVars, Unlock
  <2>4. \A u \in Threads \ {w} : /\ pc'[u] = pc[u] /\ op'[u] = op[u]
                               /\ on'[u] = on[u] /\ item'[u] = item[u]
    BY <1>4, <1>0, Names DEF FinishTask, At, PlaceTypes, QueueTypes, queueVars, Unlock
  <2> QED
    BY <1>0, <2>1, <2>2, <2>3, <2>4, OneMoves
<1>5. ASSUME CheckStopped(w) PROVE Locks'
  <2>1. QueueTypes' /\ Mutual'
    BY <1>5, <1>0, IdleKeeps DEF CheckStopped
  <2>2. PlaceTypes'
    BY <1>5, <1>0, Names, Moves DEF CheckStopped, At, OwnerPlaces, WorkerPlaces, PlaceTypes
  <2>3. Doing(w)'
    BY <1>5, <1>0, Names DEF CheckStopped, At, Doing, Pushing, Popping, PlaceTypes, QueueTypes, queueVars
  <2>4. \A u \in Threads \ {w} : /\ pc'[u] = pc[u] /\ op'[u] = op[u]
                               /\ on'[u] = on[u] /\ item'[u] = item[u]
    BY <1>5, <1>0, Names DEF CheckStopped, At, PlaceTypes, QueueTypes, queueVars
  <2> QED
    BY <1>0, <2>1, <2>2, <2>3, <2>4, OneMoves
<1>6. ASSUME Drain(w) PROVE Locks'
  <2>1. QueueTypes' /\ Mutual'
    BY <1>6, <1>0, PopKeeps DEF Drain
  <2>2. PlaceTypes'
    BY <1>6, <1>0, Names, Moves DEF Drain, At, OwnerPlaces, WorkerPlaces, PlaceTypes, Pop, Lock
  <2>3. Doing(w)'
    BY <1>6, <1>0, Names DEF Drain, At, Doing, Pushing, Popping, PlaceTypes, QueueTypes, queueVars, Pop, Lock
  <2>4. \A u \in Threads \ {w} : /\ pc'[u] = pc[u] /\ op'[u] = op[u]
                               /\ on'[u] = on[u] /\ item'[u] = item[u]
    BY <1>6, <1>0, Names DEF Drain, At, PlaceTypes, QueueTypes, queueVars, Pop, Lock
  <2> QED
    BY <1>0, <2>1, <2>2, <2>3, <2>4, OneMoves
<1>7. ASSUME DrainReturns(w) PROVE Locks'
  <2>1. QueueTypes' /\ Mutual'
    BY <1>7, <1>0, UnlockKeeps DEF DrainReturns
  <2>2. PlaceTypes'
    BY <1>7, <1>0, Names, Moves DEF DrainReturns, At, OwnerPlaces, WorkerPlaces, PlaceTypes, Unlock
  <2>3. Doing(w)'
    BY <1>7, <1>0, Names DEF DrainReturns, At, Doing, Pushing, Popping, PlaceTypes, QueueTypes, queueVars, Unlock
  <2>4. \A u \in Threads \ {w} : /\ pc'[u] = pc[u] /\ op'[u] = op[u]
                               /\ on'[u] = on[u] /\ item'[u] = item[u]
    BY <1>7, <1>0, Names DEF DrainReturns, At, PlaceTypes, QueueTypes, queueVars, Unlock
  <2> QED
    BY <1>0, <2>1, <2>2, <2>3, <2>4, OneMoves
<1> QED
  BY <1>1, <1>2, <1>3, <1>4, <1>5, <1>6, <1>7 DEF WorkerStep

LEMMA LocksQueueStep ==
  ASSUME Locks, NEW t \in Threads, QueueStep(t)
  PROVE  Locks'
<1> USE DEF Locks
<1>1. QueueTypes' /\ Mutual'
  BY InOperationKeeps DEF QueueStep
<1>2. PlaceTypes'
  BY DEF QueueStep, PlaceTypes
<1>3. Doing(t)'
  <2>1. Doing(t)
    BY DEF Control
  <2> QED
    BY <2>1, Names DEF QueueStep, InOperation, LoadToPush, StorePushed, FoundEmpty,
      LoadToPop, StorePopped, Doing, Pushing, Popping, QueueTypes
<1>4. \A u \in Threads \ {t} : /\ pc'[u] = pc[u] /\ op'[u] = op[u]
                             /\ on'[u] = on[u] /\ item'[u] = item[u]
  BY DEF QueueStep, InOperation, LoadToPush, StorePushed, FoundEmpty,
    LoadToPop, StorePopped, QueueTypes
<1> QED
  BY <1>1, <1>2, <1>3, <1>4, OneMoves

LEMMA LocksStutter == Locks /\ UNCHANGED vars => Locks'
  BY DEF Locks, QueueTypes, PlaceTypes, Mutual, Control, Doing, vars, queueVars

LEMMA LocksStep == Locks /\ [Next]_vars => Locks'
  BY LocksOwner, LocksWorker, LocksQueueStep, LocksStutter DEF Next, Terminated
-----------------------------------------------------------------------------
(* A step that moves no task. *)
LEMMA NobodyMoves ==
  ASSUME PlaceTypes, Unshared, Somewhere, NEW t \in Threads,
         queue_' = queue_, received' = received, added' = added,
         \A u \in Threads \ {t} :
           pc'[u] = pc[u] /\ op'[u] = op[u] /\ item'[u] = item[u],
         \A k \in Tasks : Held(t, k)' <=> Held(t, k)
  PROVE  Unshared' /\ Somewhere' /\ Movement
<1>1. \A u \in Threads, k \in Tasks : Held(u, k)' <=> Held(u, k)
  BY DEF Held, Holds
<1>2. \A q \in Queues, n \in Nat, k \in Tasks : Queued(q, n, k)' <=> Queued(q, n, k)
  BY DEF Queued
<1>3. Unshared'
  BY <1>1, <1>2 DEF Unshared, PlaceTypes
<1>4. Somewhere'
  BY <1>1, <1>2 DEF Somewhere
<1>5. Movement
  BY <1>1, <1>2 DEF Movement, StaysPut, SameQueues, InQueue
<1> QED
  BY <1>3, <1>4, <1>5

(* The four steps that move one: into the owner's hands, from its hands to
   received, from a thread's hands to the end of a queue, and from the head of a
   queue to the hands of a thread. *)
LEMMA AddTaskMoves ==
  ASSUME Locks, Unshared, Somewhere, NEW k \in Tasks, AddTask(k)
  PROVE  Unshared' /\ Somewhere' /\ Movement
<1>1. op[Owner] = "none" /\ item[Owner] = None /\ pc[Owner] = "idle" /\ Owner \in Threads
  BY Names DEF AddTask, At, Locks, Control, Doing, Pushing, Popping
<1>2. /\ k \notin received
      /\ \A t \in Threads : ~Held(t, k)
      /\ \A q \in Queues, n \in Nat : ~Queued(q, n, k)
  BY DEF AddTask, Somewhere
<1>3. \A t \in Threads, j \in Tasks :
        Held(t, j)' <=> Held(t, j) \/ (t = Owner /\ j = k)
  BY <1>1, Names DEF AddTask, At, Held, Holds, Locks, QueueTypes, PlaceTypes
<1>4. \A q \in Queues, n \in Nat, j \in Tasks : Queued(q, n, j)' <=> Queued(q, n, j)
  BY DEF AddTask, Queued
<1>5. \A j \in Tasks : ~Held(Owner, j)
  BY <1>1, Names DEF Held
<1>6. received' = received /\ added' = added \union {k} /\ received \subseteq Tasks
  BY DEF AddTask, Locks, PlaceTypes
<1>7. Unshared'
  BY <1>1, <1>2, <1>3, <1>4, <1>5, <1>6 DEF Unshared
<1>8. Somewhere'
  BY <1>1, <1>3, <1>4, <1>6 DEF Somewhere
<1>9. Enters(k)
  <2>1. pc'[Owner] = "add" /\ k \notin added
    BY <1>1 DEF AddTask, At, Locks, PlaceTypes
  <2> QED
    BY <1>3, <1>4, <1>6, <2>1 DEF Enters, SameQueues, InQueue
<1> QED
  BY <1>7, <1>8, <1>9 DEF Movement

LEMMA CollectReturnsMoves ==
  ASSUME Locks, Unshared, Somewhere, CollectReturns
  PROVE  Unshared' /\ Somewhere' /\ Movement
<1>1. op[Owner] = "unlock" /\ pc[Owner] = "collect" /\ Owner \in Threads
  BY Names DEF CollectReturns, At, Unlock
<1>2. \A t \in Threads, j \in Tasks : Held(t, j)' <=> Held(t, j) /\ t # Owner
  BY <1>1, Names DEF CollectReturns, Unlock, At, Held, Holds, Locks, QueueTypes, PlaceTypes
<1>3. \A q \in Queues, n \in Nat, j \in Tasks : Queued(q, n, j)' <=> Queued(q, n, j)
  BY DEF CollectReturns, Unlock, Queued
<1>4. \A j \in Tasks : j \in received' <=> j \in received \/ Held(Owner, j)
  BY <1>1, Names DEF CollectReturns, Held, Holds
<1>5. received' \subseteq Tasks /\ added' = added
  <2>1. item[Owner] \in Tasks \union {None}
    BY <1>1 DEF Locks, QueueTypes
  <2> QED
    BY <2>1 DEF CollectReturns, Locks, PlaceTypes
<1>6. Unshared'
  BY <1>1, <1>2, <1>3, <1>4, <1>5 DEF Unshared
<1>7. Somewhere'
  BY <1>1, <1>2, <1>3, <1>4, <1>5 DEF Somewhere
<1>8. Leaves
  BY <1>1, <1>2, <1>3, <1>4, <1>5 DEF Leaves, SameQueues, InQueue
<1> QED
  BY <1>6, <1>7, <1>8 DEF Movement

LEMMA StorePushedMoves ==
  ASSUME Locks, Unshared, Somewhere, NEW t \in Threads, StorePushed(t),
         UNCHANGED <<pc, added, received>>
  PROVE  Unshared' /\ Somewhere' /\ Movement
<1>a. op[t] = "pushing" /\ Doing(t)
  BY DEF StorePushed, Locks, Control
<1>b. PICK p \in Queues : p = on[t]
  BY <1>a DEF Locks, Mutual
<1>c. PICK x \in Tasks : x = item[t]
  BY <1>a DEF Locks, Mutual, QueueTypes
<1>d. queue_[p] \in Seq(Tasks) /\ seen[t] = queue_[p]
  BY <1>a, <1>b DEF Locks, Mutual, QueueTypes
<1>e. PICK last \in Nat : last = Len(queue_[p]) + 1
  BY <1>d, LenProperties
<1>1. /\ op[t] = "pushing" /\ pc[t] \in Pushing
      /\ queue_' = [queue_ EXCEPT ![p] = Append(queue_[p], x)]
  BY <1>a, <1>b, <1>c, <1>d DEF StorePushed, Doing, Pushing, Popping
<1>2. \A q \in Queues, n \in Nat, j \in Tasks :
        Queued(q, n, j)' <=> Queued(q, n, j) \/ (q = p /\ n = last /\ j = x)
  <2>1. /\ DOMAIN Append(queue_[p], x) = 1..last
        /\ DOMAIN queue_[p] = 1..(last - 1)
        /\ \A n \in 1..(last - 1) : Append(queue_[p], x)[n] = queue_[p][n]
        /\ Append(queue_[p], x)[last] = x
    BY <1>d, <1>e, AppendProperties, LenProperties
  <2> QED
    BY <1>1, <1>e, <2>1 DEF Queued, Locks, QueueTypes
<1>3. \A j \in Tasks : ~Queued(p, last, j)
  BY <1>d, <1>e, LenProperties DEF Queued
<1>4. \A u \in Threads, j \in Tasks : Held(u, j)' <=> Held(u, j) /\ u # t
  BY <1>1 DEF StorePushed, Held, Holds, Pushing, Locks, QueueTypes
<1>5. Held(t, x)
  BY <1>1, <1>c DEF Held, Holds
<1>6. \A j \in Tasks : Held(t, j) => j = x
  BY <1>c DEF Held
<1>7. Unshared'
  BY <1>1, <1>2, <1>3, <1>4, <1>5, <1>6 DEF Unshared, Locks, PlaceTypes
<1>8. Somewhere'
  BY <1>1, <1>2, <1>4, <1>5, <1>6 DEF Somewhere
<1>9. PutIn(t, p, x)
  BY <1>1, <1>b, <1>2, <1>4, <1>5 DEF PutIn, InQueue
<1> QED
  BY <1>7, <1>8, <1>9 DEF Movement

LEMMA StorePoppedMoves ==
  ASSUME Locks, Unshared, Somewhere, NEW t \in Threads, StorePopped(t),
         UNCHANGED <<pc, added, received>>
  PROVE  Unshared' /\ Somewhere' /\ Movement
<1>a. op[t] = "popping" /\ Doing(t)
  BY DEF StorePopped, Locks, Control
<1>b. PICK p \in Queues : p = on[t]
  BY <1>a DEF Locks, Mutual
<1>c. /\ queue_[p] \in Seq(Tasks) /\ queue_[p] # <<>>
      /\ seen[t] = queue_[p] /\ item[t] = Head(queue_[p])
  BY <1>a, <1>b DEF Locks, Mutual, QueueTypes
<1>d. PICK x \in Tasks : x = item[t]
  BY <1>c, HeadTailProperties
<1>1. /\ op[t] = "popping" /\ pc[t] \in Popping
      /\ queue_' = [queue_ EXCEPT ![p] = Tail(queue_[p])]
  BY <1>a, <1>b, <1>c DEF StorePopped, Doing, Pushing, Popping
<1>2. Queued(p, 1, x)
  BY <1>c, <1>d, HeadTailProperties, LenProperties DEF Queued
<1>3. \A q \in Queues, n \in Nat, j \in Tasks :
        Queued(q, n, j)' <=> IF q = p THEN n # 0 /\ Queued(p, n + 1, j)
                                      ELSE Queued(q, n, j)
  <2> DEFINE len == Len(queue_[p])
  <2>1. /\ len \in Nat /\ len # 0
        /\ DOMAIN Tail(queue_[p]) = 1..(len - 1)
        /\ DOMAIN queue_[p] = 1..len
        /\ \A n \in 1..(len - 1) : Tail(queue_[p])[n] = queue_[p][n + 1]
    BY <1>c, HeadTailProperties, LenProperties
  <2> HIDE DEF len
  <2> QED
    BY <1>1, <2>1 DEF Queued, Locks, QueueTypes
<1>4. \A u \in Threads, j \in Tasks : Held(u, j)' <=> Held(u, j) \/ (u = t /\ j = x)
  BY <1>1, <1>d DEF StorePopped, Held, Holds, Popping, Locks, QueueTypes
<1>5. \A n \in Nat, j \in Tasks : Queued(p, n, j) => n # 0
  BY <1>c, LenProperties DEF Queued
<1>6. \A n \in Nat, j \in Tasks : n # 0 /\ n # 1 /\ Queued(p, n, j) =>
        n - 1 \in Nat /\ n - 1 # 0 /\ n = (n - 1) + 1
  OBVIOUS
<1>7. \A j \in Tasks : ~Held(t, j)
  BY <1>1 DEF Held, Holds
<1>8. \A n \in Nat : n + 1 \in Nat /\ (n # 0 => n + 1 # 1)
  OBVIOUS
<1>9. \A q \in Queues, n \in Nat : ~Queued(q, n, x)'
  BY <1>1, <1>2, <1>3, <1>8 DEF Unshared
<1>10. \A r \in Queues, j \in Tasks :
         InQueue(r, j)' <=> InQueue(r, j) /\ ~(r = p /\ j = x)
  <2> SUFFICES ASSUME NEW r \in Queues, NEW j \in Tasks
               PROVE  InQueue(r, j)' <=> InQueue(r, j) /\ ~(r = p /\ j = x)
    OBVIOUS
  <2>1. CASE r # p
    BY <1>3, <2>1 DEF InQueue
  <2>2. CASE r = p /\ j = x
    BY <1>9, <2>2 DEF InQueue
  <2>3. CASE r = p /\ j # x
    <3>1. ASSUME NEW n \in Nat, Queued(p, n, j) PROVE InQueue(p, j)'
      <4>1. n # 0 /\ n # 1
        BY <1>2, <1>5, <2>3, <3>1 DEF Queued
      <4>2. Queued(p, n - 1, j)'
        BY <1>3, <1>6, <3>1, <4>1
      <4> QED
        BY <1>6, <3>1, <4>1, <4>2 DEF InQueue
    <3>2. InQueue(p, j)' => InQueue(p, j)
      BY <1>3, <1>8 DEF InQueue
    <3> QED
      BY <2>3, <3>1, <3>2 DEF InQueue
  <2> QED
    BY <2>1, <2>2, <2>3
<1>11. Unshared'
  <2>1. \A k \in Tasks, q, r \in Queues, m, n \in Nat :
          Queued(q, m, k)' /\ Queued(r, n, k)' => q = r /\ m = n
    <3> SUFFICES ASSUME NEW k \in Tasks, NEW q \in Queues, NEW r \in Queues,
                        NEW m \in Nat, NEW n \in Nat,
                        Queued(q, m, k)', Queued(r, n, k)'
                 PROVE  q = r /\ m = n
      OBVIOUS
    <3>1. Queued(q, IF q = p THEN m + 1 ELSE m, k)
      BY <1>3
    <3>2. Queued(r, IF r = p THEN n + 1 ELSE n, k)
      BY <1>3
    <3>3. q = r /\ (IF q = p THEN m + 1 ELSE m) = (IF r = p THEN n + 1 ELSE n)
      BY <3>1, <3>2 DEF Unshared
    <3> QED
      BY <3>3
  <2>2. \A j \in Tasks, q \in Queues, n \in Nat : Queued(q, n, j)' =>
          j # x /\ \E r \in Queues, m \in Nat : Queued(r, m, j)
    BY <1>9, <1>10 DEF InQueue
  <2>3. \A u \in Threads : ~Held(u, x)
    BY <1>1, <1>2 DEF Unshared
  <2>4. x \notin received
    BY <1>1, <1>2 DEF Unshared
  <2> QED
    BY <1>2, <1>4, <1>7, <1>9, <2>1, <2>2, <2>3, <2>4 DEF Unshared, Locks, PlaceTypes
<1>12. Somewhere'
  <2>1. \A j \in Tasks \ {x} :
          (\E u \in Threads : Held(u, j)') <=> \E u \in Threads : Held(u, j)
    BY <1>4
  <2>2. x \in added
    BY <1>1, <1>2 DEF Somewhere
  <2>3. Held(t, x)'
    BY <1>2, <1>4
  <2>4. \A j \in Tasks \ {x} :
          (\E q \in Queues : InQueue(q, j)') <=> \E q \in Queues : InQueue(q, j)
    BY <1>10
  <2>5. \A j \in Tasks \ {x} : (j \in added')
          <=> \/ j \in received'
              \/ \E u \in Threads : Held(u, j)'
              \/ \E q \in Queues : InQueue(q, j)'
    BY <2>1, <2>4 DEF Somewhere, InQueue
  <2> QED
    BY <2>2, <2>3, <2>5 DEF Somewhere, InQueue
<1>13. TakenOut(t, p, x)
  <2>1. InQueue(p, x)
    BY <1>2 DEF InQueue
  <2> QED
    BY <1>1, <1>b, <1>4, <1>10, <2>1 DEF TakenOut
<1> QED
  BY <1>11, <1>12, <1>13 DEF Movement

LEMMA OwnerMoves ==
  ASSUME Locks, Unshared, Somewhere,
         OwnerStep \/ Failure \/ Collect \/ Stop \/ \E k \in Tasks : AddTask(k)
  PROVE  Unshared' /\ Somewhere' /\ Movement
<1>0. QueueTypes /\ PlaceTypes /\ Owner \in Threads /\ Doing(Owner)
  BY Names DEF Locks, Control
<1>1. ASSUME NEW w \in Workers, CreateThread(w) PROVE Unshared' /\ Somewhere' /\ Movement
  <2>1. /\ w \in Threads
        /\ queue_' = queue_ /\ received' = received /\ added' = added
        /\ \A u \in Threads \ {w} :
             pc'[u] = pc[u] /\ op'[u] = op[u] /\ item'[u] = item[u]
    BY <1>1, <1>0, Names DEF CreateThread, At, PlaceTypes, queueVars
  <2>2. \A k \in Tasks : Held(w, k)' <=> Held(w, k)
    BY <1>1, <1>0, <2>1 DEF CreateThread, At, Held, Holds, PlaceTypes, queueVars
  <2> QED
    BY <1>0, <2>1, <2>2, NobodyMoves
<1>2. ASSUME Started PROVE Unshared' /\ Somewhere' /\ Movement
  <2>1. /\ queue_' = queue_ /\ received' = received /\ added' = added
        /\ \A u \in Threads \ {Owner} :
             pc'[u] = pc[u] /\ op'[u] = op[u] /\ item'[u] = item[u]
    BY <1>2, <1>0 DEF Started, At, PlaceTypes, QueueTypes, queueVars
  <2>2. \A k \in Tasks : Held(Owner, k)' <=> Held(Owner, k)
    BY <1>2, <1>0, Names DEF Started, At, Held, Holds, Doing, Pushing, Popping, PlaceTypes, QueueTypes, queueVars
  <2> QED
    BY <1>0, <2>1, <2>2, NobodyMoves
<1>3. ASSUME NEW w \in Workers, TryPush(w) PROVE Unshared' /\ Somewhere' /\ Movement
  <2>1. /\ queue_' = queue_ /\ received' = received /\ added' = added
        /\ \A u \in Threads \ {Owner} :
             pc'[u] = pc[u] /\ op'[u] = op[u] /\ item'[u] = item[u]
    BY <1>3, <1>0 DEF TryPush, At, PushNonBlocking, Push, Lock, PlaceTypes, QueueTypes, queueVars
  <2>2. \A k \in Tasks : Held(Owner, k)' <=> Held(Owner, k)
    BY <1>3, <1>0, Names DEF TryPush, At, Held, Holds, Doing, Pushing, Popping, PushNonBlocking, Push, Lock, PlaceTypes, QueueTypes, queueVars
  <2> QED
    BY <1>0, <2>1, <2>2, NobodyMoves
<1>4. ASSUME AddTaskReturns PROVE Unshared' /\ Somewhere' /\ Movement
  <2>1. /\ queue_' = queue_ /\ received' = received /\ added' = added
        /\ \A u \in Threads \ {Owner} :
             pc'[u] = pc[u] /\ op'[u] = op[u] /\ item'[u] = item[u]
    BY <1>4, <1>0 DEF AddTaskReturns, At, Unlock, PlaceTypes, QueueTypes
  <2>2. \A k \in Tasks : Held(Owner, k)' <=> Held(Owner, k)
    BY <1>4, <1>0, Names DEF AddTaskReturns, At, Held, Holds, Doing, Pushing, Popping, Unlock, PlaceTypes, QueueTypes
  <2> QED
    BY <1>0, <2>1, <2>2, NobodyMoves
<1>5. ASSUME Joined PROVE Unshared' /\ Somewhere' /\ Movement
  <2>1. /\ queue_' = queue_ /\ received' = received /\ added' = added
        /\ \A u \in Threads \ {Owner} :
             pc'[u] = pc[u] /\ op'[u] = op[u] /\ item'[u] = item[u]
    BY <1>5, <1>0 DEF Joined, At, PlaceTypes, QueueTypes, queueVars
  <2>2. \A k \in Tasks : Held(Owner, k)' <=> Held(Owner, k)
    BY <1>5, <1>0, Names DEF Joined, At, Held, Holds, Doing, Pushing, Popping, PlaceTypes, QueueTypes, queueVars
  <2> QED
    BY <1>0, <2>1, <2>2, NobodyMoves
<1>6. ASSUME Collect PROVE Unshared' /\ Somewhere' /\ Movement
  <2>1. /\ queue_' = queue_ /\ received' = received /\ added' = added
        /\ \A u \in Threads \ {Owner} :
             pc'[u] = pc[u] /\ op'[u] = op[u] /\ item'[u] = item[u]
    BY <1>6, <1>0 DEF Collect, At, Pop, Lock, PlaceTypes, QueueTypes
  <2>2. \A k \in Tasks : Held(Owner, k)' <=> Held(Owner, k)
    BY <1>6, <1>0, Names DEF Collect, At, Held, Holds, Doing, Pushing, Popping, Pop, Lock, PlaceTypes, QueueTypes
  <2> QED
    BY <1>0, <2>1, <2>2, NobodyMoves
<1>7. ASSUME Stop PROVE Unshared' /\ Somewhere' /\ Movement
  <2>1. /\ queue_' = queue_ /\ received' = received /\ added' = added
        /\ \A u \in Threads \ {Owner} :
             pc'[u] = pc[u] /\ op'[u] = op[u] /\ item'[u] = item[u]
    BY <1>7, <1>0 DEF Stop, At, PlaceTypes, QueueTypes, queueVars
  <2>2. \A k \in Tasks : Held(Owner, k)' <=> Held(Owner, k)
    BY <1>7, <1>0, Names DEF Stop, At, Held, Holds, Doing, Pushing, Popping, PlaceTypes, QueueTypes, queueVars
  <2> QED
    BY <1>0, <2>1, <2>2, NobodyMoves
<1>8. ASSUME NEW w \in Workers, CreateThreadFails(w) PROVE Unshared' /\ Somewhere' /\ Movement
  <2>1. /\ w \in Threads
        /\ queue_' = queue_ /\ received' = received /\ added' = added
        /\ \A u \in Threads \ {w} :
             pc'[u] = pc[u] /\ op'[u] = op[u] /\ item'[u] = item[u]
    BY <1>8, <1>0, Names DEF CreateThreadFails, At, PlaceTypes, queueVars
  <2>2. \A k \in Tasks : Held(w, k)' <=> Held(w, k)
    BY <1>8, <1>0, <2>1 DEF CreateThreadFails, At, Held, Holds, PlaceTypes, queueVars
  <2> QED
    BY <1>0, <2>1, <2>2, NobodyMoves
<1>9. ASSUME JoinUndefined PROVE Unshared' /\ Somewhere' /\ Movement
  <2>1. /\ queue_' = queue_ /\ received' = received /\ added' = added
        /\ \A u \in Threads \ {Owner} :
             pc'[u] = pc[u] /\ op'[u] = op[u] /\ item'[u] = item[u]
    BY <1>9, <1>0 DEF JoinUndefined, At, PlaceTypes, QueueTypes, queueVars
  <2>2. \A k \in Tasks : Held(Owner, k)' <=> Held(Owner, k)
    BY <1>9, <1>0, Names DEF JoinUndefined, At, Held, Holds, Doing, Pushing, Popping, PlaceTypes, QueueTypes, queueVars
  <2> QED
    BY <1>0, <2>1, <2>2, NobodyMoves
<1> QED
  BY <1>1, <1>2, <1>3, <1>4, <1>5, <1>6, <1>7, <1>8, <1>9, AddTaskMoves, CollectReturnsMoves
    DEF OwnerStep, Failure

LEMMA WorkerMoves ==
  ASSUME Locks, Unshared, Somewhere, NEW w \in Workers, WorkerStep(w)
  PROVE  Unshared' /\ Somewhere' /\ Movement
<1>0. QueueTypes /\ PlaceTypes /\ w \in Threads /\ Doing(w) /\ pc[w] \in WorkerPlaces
  BY Names DEF Locks, Control, PlaceTypes
<1>1. ASSUME Poll(w) PROVE Unshared' /\ Somewhere' /\ Movement
  <2>1. /\ queue_' = queue_ /\ received' = received /\ added' = added
        /\ \A u \in Threads \ {w} :
             pc'[u] = pc[u] /\ op'[u] = op[u] /\ item'[u] = item[u]
    BY <1>1, <1>0 DEF Poll, At, PopNonBlocking, Pop, Lock, PlaceTypes, QueueTypes, queueVars
  <2>2. \A k \in Tasks : Held(w, k)' <=> Held(w, k)
    BY <1>1, <1>0, Names DEF Poll, At, Held, Holds, Doing, Pushing, Popping, PopNonBlocking, Pop, Lock, PlaceTypes, QueueTypes, queueVars
  <2> QED
    BY <1>0, <2>1, <2>2, NobodyMoves
<1>2. ASSUME PollReturns(w) PROVE Unshared' /\ Somewhere' /\ Movement
  <2>1. /\ queue_' = queue_ /\ received' = received /\ added' = added
        /\ \A u \in Threads \ {w} :
             pc'[u] = pc[u] /\ op'[u] = op[u] /\ item'[u] = item[u]
    BY <1>2, <1>0 DEF PollReturns, At, Unlock, PlaceTypes, QueueTypes
  <2>2. \A k \in Tasks : Held(w, k)' <=> Held(w, k)
    BY <1>2, <1>0, Names DEF PollReturns, At, Held, Holds, Doing, Pushing, Popping, Unlock, PlaceTypes, QueueTypes
  <2> QED
    BY <1>0, <2>1, <2>2, NobodyMoves
<1>3. ASSUME RunTask(w) PROVE Unshared' /\ Somewhere' /\ Movement
  <2>1. /\ queue_' = queue_ /\ received' = received /\ added' = added
        /\ \A u \in Threads \ {w} :
             pc'[u] = pc[u] /\ op'[u] = op[u] /\ item'[u] = item[u]
    BY <1>3, <1>0 DEF RunTask, At, Push, Lock, PlaceTypes, QueueTypes
  <2>2. \A k \in Tasks : Held(w, k)' <=> Held(w, k)
    BY <1>3, <1>0, Names DEF RunTask, At, Held, Holds, Doing, Pushing, Popping, Push, Lock, PlaceTypes, QueueTypes
  <2> QED
    BY <1>0, <2>1, <2>2, NobodyMoves
<1>4. ASSUME FinishTask(w) PROVE Unshared' /\ Somewhere' /\ Movement
  <2>1. /\ queue_' = queue_ /\ received' = received /\ added' = added
        /\ \A u \in Threads \ {w} :
             pc'[u] = pc[u] /\ op'[u] = op[u] /\ item'[u] = item[u]
    BY <1>4, <1>0 DEF FinishTask, At, Unlock, PlaceTypes, QueueTypes
  <2>2. \A k \in Tasks : Held(w, k)' <=> Held(w, k)
    BY <1>4, <1>0, Names DEF FinishTask, At, Held, Holds, Doing, Pushing, Popping, Unlock, PlaceTypes, QueueTypes
  <2> QED
    BY <1>0, <2>1, <2>2, NobodyMoves
<1>5. ASSUME CheckStopped(w) PROVE Unshared' /\ Somewhere' /\ Movement
  <2>1. /\ queue_' = queue_ /\ received' = received /\ added' = added
        /\ \A u \in Threads \ {w} :
             pc'[u] = pc[u] /\ op'[u] = op[u] /\ item'[u] = item[u]
    BY <1>5, <1>0 DEF CheckStopped, At, PlaceTypes, QueueTypes, queueVars
  <2>2. \A k \in Tasks : Held(w, k)' <=> Held(w, k)
    BY <1>5, <1>0, Names DEF CheckStopped, At, Held, Holds, Doing, Pushing, Popping, PlaceTypes, QueueTypes, queueVars
  <2> QED
    BY <1>0, <2>1, <2>2, NobodyMoves
<1>6. ASSUME Drain(w) PROVE Unshared' /\ Somewhere' /\ Movement
  <2>1. /\ queue_' = queue_ /\ received' = received /\ added' = added
        /\ \A u \in Threads \ {w} :
             pc'[u] = pc[u] /\ op'[u] = op[u] /\ item'[u] = item[u]
    BY <1>6, <1>0 DEF Drain, At, Pop, Lock, PlaceTypes, QueueTypes
  <2>2. \A k \in Tasks : Held(w, k)' <=> Held(w, k)
    BY <1>6, <1>0, Names DEF Drain, At, Held, Holds, Doing, Pushing, Popping, Pop, Lock, PlaceTypes, QueueTypes
  <2> QED
    BY <1>0, <2>1, <2>2, NobodyMoves
<1>7. ASSUME DrainReturns(w) PROVE Unshared' /\ Somewhere' /\ Movement
  <2>1. /\ queue_' = queue_ /\ received' = received /\ added' = added
        /\ \A u \in Threads \ {w} :
             pc'[u] = pc[u] /\ op'[u] = op[u] /\ item'[u] = item[u]
    BY <1>7, <1>0 DEF DrainReturns, At, Unlock, PlaceTypes, QueueTypes
  <2>2. \A k \in Tasks : Held(w, k)' <=> Held(w, k)
    BY <1>7, <1>0, Names DEF DrainReturns, At, Held, Holds, Doing, Pushing, Popping, Unlock, PlaceTypes, QueueTypes
  <2> QED
    BY <1>0, <2>1, <2>2, NobodyMoves
<1> QED
  BY <1>1, <1>2, <1>3, <1>4, <1>5, <1>6, <1>7 DEF WorkerStep

LEMMA QueueStepMoves ==
  ASSUME Locks, Unshared, Somewhere, NEW t \in Threads, QueueStep(t)
  PROVE  Unshared' /\ Somewhere' /\ Movement
<1>0. QueueTypes /\ PlaceTypes /\ Doing(t)
  BY DEF Locks, Control
<1>1. UNCHANGED <<pc, added, received>>
  BY DEF QueueStep
<1>2. CASE LoadToPush(t)
  <2>1. /\ queue_' = queue_
        /\ \A u \in Threads \ {t} : op'[u] = op[u] /\ item'[u] = item[u]
    BY <1>0, <1>2 DEF LoadToPush, QueueTypes
  <2>2. \A k \in Tasks : Held(t, k)' <=> Held(t, k)
    BY <1>0, <1>1, <1>2, Names DEF LoadToPush, Held, Holds, Doing, Pushing, Popping, QueueTypes
  <2> QED
    BY <1>0, <1>1, <2>1, <2>2, NobodyMoves
<1>3. CASE FoundEmpty(t)
  <2>1. /\ queue_' = queue_
        /\ \A u \in Threads \ {t} : op'[u] = op[u] /\ item'[u] = item[u]
    BY <1>0, <1>3 DEF FoundEmpty, QueueTypes
  <2>2. \A k \in Tasks : Held(t, k)' <=> Held(t, k)
    BY <1>0, <1>1, <1>3, Names DEF FoundEmpty, Held, Holds, Doing, Pushing, Popping, QueueTypes
  <2> QED
    BY <1>0, <1>1, <2>1, <2>2, NobodyMoves
<1>4. CASE LoadToPop(t)
  <2>1. /\ queue_' = queue_
        /\ \A u \in Threads \ {t} : op'[u] = op[u] /\ item'[u] = item[u]
    BY <1>0, <1>4 DEF LoadToPop, QueueTypes
  <2>2. \A k \in Tasks : Held(t, k)' <=> Held(t, k)
    BY <1>0, <1>1, <1>4, Names DEF LoadToPop, Held, Holds, Doing, Pushing, Popping, QueueTypes
  <2> QED
    BY <1>0, <1>1, <2>1, <2>2, NobodyMoves
<1> QED
  BY <1>1, <1>2, <1>3, <1>4, StorePushedMoves, StorePoppedMoves
    DEF QueueStep, InOperation

-----------------------------------------------------------------------------
LEMMA IInvInit == Init => IInv
<1> SUFFICES ASSUME Init PROVE IInv
  OBVIOUS
<1>1. /\ \A t \in Threads, k \in Tasks : ~Held(t, k)
      /\ \A q \in Queues, n \in Nat, k \in Tasks : ~Queued(q, n, k)
      /\ received = {} /\ added = {}
  BY Names DEF Init, QueueInit, Held, Queued
<1> QED
  BY <1>1, LocksInit DEF IInv, Unshared, Somewhere

LEMMA IInvStep == IInv /\ [Next]_vars => IInv'
<1> SUFFICES ASSUME IInv, [Next]_vars PROVE IInv'
  OBVIOUS
<1>1. Locks'
  BY LocksStep DEF IInv
<1>2. CASE UNCHANGED vars
  <2>1. \A t \in Threads, k \in Tasks : Held(t, k)' <=> Held(t, k)
    BY <1>2 DEF Held, Holds, vars, queueVars
  <2>2. \A q \in Queues, n \in Nat, k \in Tasks : Queued(q, n, k)' <=> Queued(q, n, k)
    BY <1>2 DEF Queued, vars, queueVars
  <2>3. received' = received /\ added' = added /\ received \subseteq Tasks
    BY <1>2 DEF vars, IInv, Locks, PlaceTypes
  <2>4. Unshared'
    BY <2>1, <2>2, <2>3 DEF IInv, Unshared
  <2>5. Somewhere'
    BY <2>1, <2>2, <2>3 DEF IInv, Somewhere
  <2> QED
    BY <1>1, <2>4, <2>5 DEF IInv
<1> QED
  BY <1>1, <1>2, OwnerMoves, WorkerMoves, QueueStepMoves
    DEF IInv, Next, Terminated

LEMMA Invariance == Spec => []IInv
  BY IInvInit, IInvStep, PTL DEF Spec

(* Every variable keeps its type, for any number of threads and tasks: the owner
   never takes for a transaction what a Pop that returned false has left. *)
THEOREM TypeCorrect == Spec => []TypeOK
<1>1. IInv => TypeOK
  BY DEF IInv, Locks, QueueTypes, PlaceTypes, OwnerPlaces, WorkerPlaces, TypeOK
<1> QED
  BY <1>1, Invariance, PTL

(* static_thread_pool.h:31-37, 77-111 with atomic.h:171-237: a task that was
   added is in one place, once, for any number of threads and tasks. *)
THEOREM TaskInOnePlace == Spec => []OnePlace
<1>1. ASSUME IInv, NEW k \in Tasks
      PROVE  IF k \in added THEN \E place \in Places(k) : Places(k) = {place}
                             ELSE Places(k) = {}
  <2>1. \A place : place \in Places(k) <=>
          \/ \E q \in Queues, n \in Nat : place = <<q, n>> /\ Queued(q, n, k)
          \/ \E t \in Threads : place = <<t>> /\ Held(t, k)
          \/ place = <<>> /\ k \in received
    <3>1. \A q \in Queues : DOMAIN queue_[q] \subseteq Nat
      BY <1>1, LenProperties DEF IInv, Locks, QueueTypes
    <3>2. \A q \in Queues : \A place : place \in PlacesIn(q, k) <=>
            \E n \in Nat : place = <<q, n>> /\ Queued(q, n, k)
      BY <3>1 DEF PlacesIn, Queued
    <3> QED
      BY <3>2 DEF Places, Held
  <2>2. \A place, other \in Places(k) : place = other
    BY <1>1, <2>1 DEF IInv, Unshared
  <2>3. k \in added <=> \E place : place \in Places(k)
    BY <1>1, <2>1 DEF IInv, Somewhere
  <2> QED
    BY <2>2, <2>3
<1>2. IInv => OnePlace
  BY <1>1 DEF OnePlace
<1> QED
  BY <1>2, Invariance, PTL

-----------------------------------------------------------------------------
(* A task that has been run, and one a worker has pushed but not let go of yet
   is such a task. *)
Done(k) ==
  \/ k \in received
  \/ InQueue(Completed, k)
  \/ pc[Owner] = "collect" /\ Held(Owner, k)

Pushed ==
  \A w \in Workers : pc[w] = "finish" /\ op[w] = "unlock" => Done(item[w])

(* What stopped_ says of the threads: nobody adds a task any more, so that the
   queue a worker has found empty stays so. *)
Empty(w) == \A k \in Tasks : ~InQueue(w, k)

Shutdown ==
  /\ stopped_ <=> pc[Owner] \in {"join", "gone"}
  /\ \A w \in Workers :
       /\ pc[w] \in {"drain", "exited"} => stopped_
       /\ pc[w] = "drain" /\ op[w] = "unlock" /\ item[w] = None => Empty(w)
       /\ pc[w] = "exited" => Empty(w)

RInv == IInv /\ Pushed /\ Shutdown

-----------------------------------------------------------------------------
LEMMA RInvInit == Init => RInv
<1> SUFFICES ASSUME Init PROVE RInv
  OBVIOUS
<1>1. IInv
  BY IInvInit
<1>2. Pushed /\ Shutdown
  BY Names DEF Init, Pushed, Shutdown
<1> QED
  BY <1>1, <1>2 DEF RInv

(* The owner goes nowhere with a task in its hands. *)
LEMMA OwnerStays ==
  ASSUME IInv, [Next]_vars
  PROVE  pc'[Owner] = pc[Owner] \/ item[Owner] = None \/ item'[Owner] = None
<1>0. Locks /\ QueueTypes /\ PlaceTypes /\ Doing(Owner) /\ Owner \in Threads
  BY Names DEF IInv, Locks, Control
<1>1. CASE OwnerStep
  BY <1>0, <1>1, Names DEF OwnerStep, CreateThread, Started, TryPush, AddTaskReturns,
    CollectReturns, Joined, At, Doing, Pushing, Popping, QueueTypes, PlaceTypes
<1>2. CASE Failure \/ Collect \/ Stop \/ \E k \in Tasks : AddTask(k)
  BY <1>0, <1>2, Names DEF Failure, CreateThreadFails, JoinUndefined, Collect, Pop, Stop,
    AddTask, At, Doing, Pushing, Popping, QueueTypes, PlaceTypes
<1>3. ASSUME NEW w \in Workers, WorkerStep(w) PROVE pc'[Owner] = pc[Owner]
  BY <1>0, <1>3, Names DEF WorkerStep, Poll, PollReturns, RunTask, FinishTask,
    CheckStopped, Drain, DrainReturns, At, PlaceTypes
<1>4. CASE (\E t \in Threads : QueueStep(t)) \/ Terminated \/ UNCHANGED vars
  BY <1>4 DEF QueueStep, Terminated, vars
<1> QED
  BY <1>1, <1>2, <1>3, <1>4 DEF Next

LEMMA OwnerHolds ==
  ASSUME IInv, [Next]_vars, NEW k \in Tasks, Held(Owner, k), Held(Owner, k)'
  PROVE  pc'[Owner] = pc[Owner]
  BY OwnerStays, Names DEF Held

LEMMA Moving == IInv /\ [Next]_vars => Movement
<1> SUFFICES ASSUME IInv, [Next]_vars PROVE Movement
  OBVIOUS
<1>1. CASE UNCHANGED vars
  BY <1>1 DEF vars, queueVars, Movement, StaysPut, SameQueues, Held, Holds, InQueue, Queued
<1>2. CASE Next
  BY <1>2, <1>1, OwnerMoves, WorkerMoves, QueueStepMoves DEF IInv, Next, Terminated
<1> QED
  BY <1>1, <1>2

(* Whose push a push to a queue is, and whose pop. *)
LEMMA WhosePush ==
  ASSUME IInv, NEW t \in Threads, NEW q \in Queues, NEW k \in Tasks, PutIn(t, q, k)
  PROVE  \/ t = Owner /\ q \in Workers /\ pc[Owner] = "add"
         \/ t \in Workers /\ q = Completed
<1>1. Doing(t) /\ PlaceTypes
  BY DEF IInv, Locks, Control
<1> QED
  BY <1>1, Names DEF PutIn, Doing, Pushing, PlaceTypes, OwnerPlaces, WorkerPlaces

LEMMA WhosePop ==
  ASSUME IInv, NEW t \in Threads, NEW q \in Queues, NEW k \in Tasks, TakenOut(t, q, k)
  PROVE  \/ t = Owner /\ q = Completed /\ pc[Owner] = "collect"
         \/ t \in Workers /\ q = t
<1>1. Doing(t) /\ PlaceTypes
  BY DEF IInv, Locks, Control
<1> QED
  BY <1>1, Names DEF TakenOut, Doing, Popping, PlaceTypes, OwnerPlaces, WorkerPlaces

LEMMA DoneStays ==
  ASSUME IInv, [Next]_vars, NEW k \in Tasks, Done(k)
  PROVE  Done(k)'
<1>1. Owner \in Threads /\ Completed \in Queues
  BY Names
<1>2. Held(Owner, k) /\ Held(Owner, k)' => pc'[Owner] = pc[Owner]
  BY OwnerHolds
<1>3. CASE StaysPut
  BY <1>1, <1>2, <1>3 DEF StaysPut, SameQueues, Done
<1>4. ASSUME NEW j \in Tasks, Enters(j) PROVE Done(k)'
  BY <1>1, <1>2, <1>4 DEF Enters, SameQueues, Done
<1>5. CASE Leaves
  BY <1>1, <1>5 DEF Leaves, SameQueues, Done
<1>6. ASSUME NEW t \in Threads, NEW q \in Queues, NEW j \in Tasks, PutIn(t, q, j)
      PROVE  Done(k)'
  BY <1>1, <1>6, WhosePush, Names DEF PutIn, Pushing, Done
<1>7. ASSUME NEW t \in Threads, NEW q \in Queues, NEW j \in Tasks, TakenOut(t, q, j)
      PROVE  Done(k)'
  BY <1>1, <1>7, WhosePop, Names DEF TakenOut, Done
<1> QED
  BY <1>3, <1>4, <1>5, <1>6, <1>7, Moving DEF Movement

-----------------------------------------------------------------------------
(* What a worker has gone through when it has pushed, has found its queue empty,
   drains or has exited. *)
Past(w) ==
  /\ pc'[w] = "finish" /\ op'[w] = "unlock" =>
       /\ pc[w] = "finish" /\ item'[w] = item[w]
       /\ op[w] = "unlock" \/ (StorePushed(w) /\ received' = received)
  /\ pc'[w] = "drain" /\ op'[w] = "unlock" /\ item'[w] = None =>
       /\ pc[w] = "drain"
       /\ (op[w] = "unlock" /\ item[w] = None) \/ FoundEmpty(w)
  /\ pc'[w] = "exited" =>
       \/ pc[w] = "exited"
       \/ pc[w] = "drain" /\ op[w] = "unlock" /\ item[w] = None
  /\ pc'[w] \in {"drain", "exited"} => pc[w] \in {"drain", "exited"} \/ stopped_

LEMMA WorkerPast ==
  ASSUME IInv, [Next]_vars, NEW w \in Workers
  PROVE  Past(w)
<1>0. QueueTypes /\ PlaceTypes /\ Mutual /\ Doing(w) /\ w \in Threads /\ w # Owner
  BY Names DEF IInv, Locks, Control
<1>1. ASSUME pc'[w] = pc[w], op'[w] = op[w], item'[w] = item[w] PROVE Past(w)
  BY <1>1 DEF Past
<1>2. CASE OwnerStep
  <2>1. ASSUME NEW u \in Workers, CreateThread(u) PROVE Past(w)
    BY <1>0, <2>1 DEF CreateThread, At, Past, PlaceTypes, queueVars
  <2>2. CASE ~\E u \in Workers : CreateThread(u)
    <3>1. pc'[w] = pc[w] /\ op'[w] = op[w] /\ item'[w] = item[w]
      BY <1>0, <1>2, <2>2 DEF OwnerStep, Started, TryPush, PushNonBlocking, Push,
        AddTaskReturns, CollectReturns, Unlock, Joined, At, PlaceTypes, QueueTypes, queueVars
    <3> QED
      BY <1>1, <3>1
  <2> QED
    BY <2>1, <2>2
<1>3. CASE Collect \/ Stop \/ \E k \in Tasks : AddTask(k)
  <2>1. pc'[w] = pc[w] /\ op'[w] = op[w] /\ item'[w] = item[w]
    BY <1>0, <1>3 DEF Collect, Pop, Stop, AddTask, At, PlaceTypes, QueueTypes, queueVars
  <2> QED
    BY <1>1, <2>1
<1>4. ASSUME NEW u \in Workers, WorkerStep(u) PROVE Past(w)
  <2>1. CASE u # w
    <3>1. pc'[w] = pc[w] /\ op'[w] = op[w] /\ item'[w] = item[w]
      BY <1>0, <1>4, <2>1 DEF WorkerStep, Poll, PopNonBlocking, Pop, PollReturns, Unlock,
        RunTask, Push, FinishTask, CheckStopped, Drain, DrainReturns, At, PlaceTypes,
        QueueTypes, queueVars
    <3> QED
      BY <1>1, <3>1
  <2>2. CASE Poll(w) \/ PollReturns(w) \/ RunTask(w) \/ FinishTask(w)
    BY <1>0, <2>2 DEF Poll, PollReturns, RunTask, Push, FinishTask, At, Past, PlaceTypes,
      QueueTypes
  <2>3. CASE CheckStopped(w) \/ Drain(w) \/ DrainReturns(w)
    BY <1>0, <2>3 DEF CheckStopped, Drain, Pop, DrainReturns, Unlock, At, Past, PlaceTypes,
      QueueTypes, Doing, Pushing, Popping, queueVars
  <2> QED
    BY <1>4, <2>1, <2>2, <2>3 DEF WorkerStep
<1>5. ASSUME NEW t \in Threads, QueueStep(t) PROVE Past(w)
  <2>1. CASE t # w
    <3>1. pc'[w] = pc[w] /\ op'[w] = op[w] /\ item'[w] = item[w]
      BY <1>0, <1>5, <2>1 DEF QueueStep, InOperation, LoadToPush, StorePushed, FoundEmpty,
        LoadToPop, StorePopped, QueueTypes
    <3> QED
      BY <1>1, <3>1
  <2>2. pc' = pc /\ received' = received
    BY <1>5 DEF QueueStep
  <2>3. CASE LoadToPush(w) \/ StorePushed(w) \/ FoundEmpty(w)
    BY <1>0, <2>2, <2>3 DEF LoadToPush, StorePushed, FoundEmpty, Past, QueueTypes, Doing,
      Pushing, Popping
  <2>4. CASE LoadToPop(w)
    BY <1>0, <2>2, <2>4 DEF LoadToPop, Past, QueueTypes, Doing, Pushing, Popping
  <2>5. CASE StorePopped(w)
    <3>1. item[w] # None
      BY <1>0, <2>5, HeadTailProperties, Names DEF StorePopped, Mutual, QueueTypes
    <3> QED
      BY <1>0, <2>2, <2>5, <3>1 DEF StorePopped, Past, QueueTypes, Doing, Pushing, Popping
  <2> QED
    BY <1>5, <2>1, <2>3, <2>4, <2>5 DEF QueueStep, InOperation
<1>6. CASE Terminated \/ UNCHANGED vars
  BY <1>1, <1>6 DEF Terminated, vars, queueVars
<1>7. CASE Failure
  <2>1. ASSUME NEW u \in Workers, CreateThreadFails(u) PROVE Past(w)
    BY <1>0, <2>1 DEF CreateThreadFails, At, Past, PlaceTypes, queueVars
  <2>2. CASE JoinUndefined
    <3>1. pc'[w] = pc[w] /\ op'[w] = op[w] /\ item'[w] = item[w]
      BY <1>0, <2>2 DEF JoinUndefined, At, PlaceTypes, QueueTypes, queueVars
    <3> QED
      BY <1>1, <3>1
  <2> QED
    BY <1>7, <2>1, <2>2 DEF Failure
<1> QED
  BY <1>2, <1>3, <1>4, <1>5, <1>6, <1>7 DEF Next

LEMMA PushedStep ==
  ASSUME IInv, Pushed, [Next]_vars
  PROVE  Pushed'
<1> SUFFICES ASSUME NEW w \in Workers, pc'[w] = "finish", op'[w] = "unlock"
             PROVE  Done(item[w])' 
  BY DEF Pushed
<1>1. /\ pc[w] = "finish" /\ item'[w] = item[w] /\ item[w] \in Tasks
      /\ op[w] = "unlock" \/ StorePushed(w)
  BY WorkerPast, Names DEF Past, IInv, Locks, Control, Doing, Pushing, QueueTypes
<1>2. PICK k \in Tasks : k = item[w]
  BY <1>1
<1>3. CASE op[w] = "unlock"
  <2>1. Done(k)
    BY <1>1, <1>2, <1>3 DEF Pushed
  <2>2. Done(k)'
    BY <2>1, DoneStays
  <2> QED
    BY <1>1, <1>2, <2>2
<1>4. CASE StorePushed(w)
  <2>1. /\ w \in Threads /\ on[w] = Completed /\ seen[w] \in Seq(Tasks)
        /\ queue_ \in [Queues -> Seq(Tasks)] /\ Completed \in Queues
    BY <1>1, Names DEF IInv, Locks, Control, Doing, Pushing, QueueTypes
  <2>2. queue_'[Completed] = Append(seen[w], k)
    BY <1>2, <1>4, <2>1 DEF StorePushed
  <2>3. PICK n \in Nat : n = Len(seen[w]) + 1
    BY <2>1, LenProperties
  <2>4. Queued(Completed, n, k)'
    BY <2>1, <2>2, <2>3, AppendProperties DEF Queued
  <2>5. Done(k)'
    BY <2>4 DEF Done, InQueue
  <2> QED
    BY <1>1, <1>2, <2>5
<1> QED
  BY <1>1, <1>3, <1>4

(* A queue that is empty when the pool is stopped stays so. *)
LEMMA EmptyStays ==
  ASSUME IInv, Shutdown, [Next]_vars, NEW w \in Workers, Empty(w), stopped_
  PROVE  Empty(w)'
<1> SUFFICES ASSUME NEW k \in Tasks, InQueue(w, k)' PROVE FALSE
  BY DEF Empty
<1>1. ~InQueue(w, k) /\ w \in Queues /\ w # Completed /\ pc[Owner] # "add"
  BY Names DEF Empty, Shutdown
<1>2. ASSUME NEW t \in Threads, NEW q \in Queues, NEW j \in Tasks, PutIn(t, q, j)
      PROVE  FALSE
  BY <1>1, <1>2, WhosePush DEF PutIn
<1> QED
  BY <1>1, <1>2, Moving DEF Movement, StaysPut, Enters, Leaves, TakenOut, SameQueues

LEMMA StopStays ==
  ASSUME IInv, Shutdown, [Next]_vars
  PROVE  (stopped_ <=> pc[Owner] \in {"join", "gone"})' /\ (stopped_ => stopped_')
<1>0. PlaceTypes /\ Owner \in Threads
  BY Names DEF IInv, Locks
<1>1. CASE OwnerStep
  BY <1>0, <1>1, Names DEF OwnerStep, CreateThread, Started, TryPush, AddTaskReturns,
    CollectReturns, Joined, At, PlaceTypes, Shutdown
<1>2. CASE Failure \/ Collect \/ Stop \/ \E k \in Tasks : AddTask(k)
  BY <1>0, <1>2, Names DEF Failure, CreateThreadFails, JoinUndefined, Collect, Stop, AddTask,
    At, PlaceTypes, Shutdown
<1>3. ASSUME NEW w \in Workers, WorkerStep(w) PROVE pc'[Owner] = pc[Owner] /\ stopped_' = stopped_
  BY <1>0, <1>3, Names DEF WorkerStep, Poll, PollReturns, RunTask, FinishTask,
    CheckStopped, Drain, DrainReturns, At, PlaceTypes
<1>4. CASE (\E t \in Threads : QueueStep(t)) \/ Terminated \/ UNCHANGED vars
  BY <1>4 DEF QueueStep, Terminated, vars, Shutdown
<1> QED
  BY <1>1, <1>2, <1>3, <1>4 DEF Next, Shutdown

LEMMA ShutdownStep ==
  ASSUME IInv, Shutdown, [Next]_vars
  PROVE  Shutdown'
<1>1. ASSUME NEW w \in Workers
      PROVE  /\ pc'[w] \in {"drain", "exited"} => stopped_'
             /\ pc'[w] = "drain" /\ op'[w] = "unlock" /\ item'[w] = None => Empty(w)'
             /\ pc'[w] = "exited" => Empty(w)'
  <2>1. Past(w) /\ (stopped_ => stopped_')
    BY WorkerPast, StopStays
  <2>2. pc'[w] \in {"drain", "exited"} => stopped_'
    BY <2>1 DEF Past, Shutdown
  <2>3. ASSUME pc[w] = "drain", FoundEmpty(w) PROVE Empty(w)
    <3>1. on[w] = w /\ w \in Queues
      BY <2>3, Names DEF FoundEmpty, IInv, Locks, Control, Doing
    <3>2. queue_[w] = <<>>
      BY <2>3, <3>1 DEF FoundEmpty
    <3> QED
      BY <3>2 DEF Empty, InQueue, Queued
  <2>4. pc'[w] = "drain" /\ op'[w] = "unlock" /\ item'[w] = None => Empty(w)'
    BY <2>1, <2>3, EmptyStays DEF Past, Shutdown
  <2>5. pc'[w] = "exited" => Empty(w)'
    BY <2>1, EmptyStays DEF Past, Shutdown
  <2> QED
    BY <2>2, <2>4, <2>5
<1> QED
  BY <1>1, StopStays DEF Shutdown

LEMMA RInvariance == Spec => []RInv
<1>1. RInv /\ [Next]_vars => RInv'
  BY IInvStep, PushedStep, ShutdownStep DEF RInv
<1> QED
  BY <1>1, RInvInit, PTL DEF Spec

-----------------------------------------------------------------------------
(* What the status of a task means. *)
Waiting(k)  == \E w \in Workers : pc[w] # "failed" /\ InQueue(w, k)
Stranded(k) == \E w \in Workers : pc[w] = "failed" /\ InQueue(w, k)
Running(k)  == \E w \in Workers : Held(w, k)
Offered(k)  == Held(Owner, k) /\ pc[Owner] = "add"

Meaning(k) ==
  /\ Status(k) \in {"new", "offered", "waiting", "stranded", "running", "done"}
  /\ Status(k) = "done" <=> Done(k)
  /\ Status(k) = "waiting" <=> Waiting(k)
  /\ Status(k) = "stranded" <=> Stranded(k)
  /\ Status(k) = "running" <=> Running(k)
  /\ Status(k) = "offered" <=> Offered(k)
  /\ Status(k) = "new" <=> k \notin added

LEMMA StatusIs ==
  ASSUME RInv, NEW k \in Tasks
  PROVE  Meaning(k)
<1>0. /\ QueueTypes /\ PlaceTypes /\ Mutual /\ Control /\ Unshared /\ Somewhere
      /\ Owner \in Threads /\ Workers \subseteq Threads /\ Threads = Workers \union {Owner}
      /\ Workers \subseteq Queues /\ Completed \in Queues /\ Queues = Workers \union {Completed}
  BY Names DEF RInv, IInv, Locks, Queues
<1>1. \A q \in Queues : k \in ToSet(queue_[q]) <=> InQueue(q, k)
  <2> SUFFICES ASSUME NEW q \in Queues PROVE k \in ToSet(queue_[q]) <=> InQueue(q, k)
    OBVIOUS
  <2>1. queue_[q] \in Seq(Tasks) /\ DOMAIN queue_[q] \subseteq Nat
    BY <1>0, LenProperties DEF QueueTypes
  <2> QED
    BY <2>1 DEF ToSet, InQueue, Queued
<1>2. \A t \in Threads : item[t] = k /\ ~Holds(t) =>
        \/ \E q \in Queues : on[t] = q /\ op[t] = "popping" /\ InQueue(q, k)
        \/ op[t] = "unlock" /\ pc[t] \in {"add", "finish"}
  <2> SUFFICES ASSUME NEW t \in Threads, item[t] = k, op[t] = "popping"
               PROVE  on[t] \in Queues /\ InQueue(on[t], k)
    BY DEF Holds
  <2>1. PICK q \in Queues : q = on[t]
    BY <1>0 DEF Mutual
  <2>2. queue_[q] \in Seq(Tasks) /\ queue_[q] # <<>> /\ Head(queue_[q]) = k
    BY <1>0, <2>1 DEF Mutual, QueueTypes
  <2>3. Queued(q, 1, k)
    BY <2>2, HeadTailProperties, LenProperties DEF Queued
  <2> QED
    BY <2>1, <2>3 DEF InQueue
<1>3. (pc[Owner] = "collect" /\ item[Owner] = k) =>
         InQueue(Completed, k) \/ Held(Owner, k)
  BY <1>0, <1>2 DEF Control, Doing, Popping, Held
<1>4. \A w \in Workers : item[w] = k =>
         Done(k) \/ Held(w, k) \/ \E v \in Workers : InQueue(v, k)
  <2> SUFFICES ASSUME NEW w \in Workers, item[w] = k, ~Held(w, k)
               PROVE  Done(k) \/ \E v \in Workers : InQueue(v, k)
    OBVIOUS
  <2>1. CASE op[w] = "unlock" /\ pc[w] \in {"add", "finish"}
    BY <1>0, <2>1 DEF RInv, Pushed, PlaceTypes, WorkerPlaces
  <2>2. CASE \E q \in Queues : InQueue(q, k)
    BY <1>0, <2>2 DEF Done
  <2> QED
    BY <1>0, <1>2, <2>1, <2>2 DEF Held
<1>5. Held(Owner, k) => pc[Owner] \in {"add", "collect"} /\ item[Owner] = k
  BY <1>0, Names DEF Control, Doing, Pushing, Popping, PlaceTypes, OwnerPlaces, Held
<1>6. /\ k \in added <=> \/ Done(k)
                         \/ \E w \in Workers : InQueue(w, k)
                         \/ \E w \in Workers : Held(w, k)
                         \/ Held(Owner, k) /\ pc[Owner] = "add"
  BY <1>0, <1>5 DEF Somewhere, Done, InQueue
<1>7. /\ Done(k) => /\ ~\E w \in Workers : InQueue(w, k)
                    /\ ~\E w \in Workers : Held(w, k)
                    /\ ~(Held(Owner, k) /\ pc[Owner] = "add")
      /\ (\E w \in Workers : InQueue(w, k)) => /\ ~\E w \in Workers : Held(w, k)
                                               /\ ~Held(Owner, k)
      /\ (\E w \in Workers : Held(w, k)) => ~Held(Owner, k)
  BY <1>0, Names DEF Unshared, Done, InQueue
<1>8. /\ (\E w \in Workers : InQueue(w, k)) <=> Waiting(k) \/ Stranded(k)
      /\ ~(Waiting(k) /\ Stranded(k))
  BY <1>0, Names DEF Unshared, InQueue, Waiting, Stranded
<1>9. Status(k) = IF Done(k) THEN "done"
                  ELSE IF Waiting(k) THEN "waiting"
                  ELSE IF \E w \in Workers : InQueue(w, k) THEN "stranded"
                  ELSE IF \E w \in Workers : Held(w, k) THEN "running"
                  ELSE IF k \in added THEN "offered" ELSE "new"
  <2>1. Done(k) <=> \/ k \in received \union ToSet(queue_[Completed])
                    \/ pc[Owner] = "collect" /\ item[Owner] = k
    BY <1>0, <1>1, <1>3 DEF Done, Held
  <2>2. /\ (\E w \in Workers : k \in ToSet(queue_[w])) <=> \E w \in Workers : InQueue(w, k)
        /\ (\E w \in Workers : pc[w] # "failed" /\ k \in ToSet(queue_[w])) <=> Waiting(k)
    BY <1>0, <1>1 DEF Waiting
  <2>3. ~Done(k) /\ (~\E w \in Workers : InQueue(w, k)) =>
          ((\E w \in Workers : item[w] = k) <=> \E w \in Workers : Held(w, k))
    BY <1>4 DEF Held
  <2> QED
    BY <1>8, <2>1, <2>2, <2>3 DEF Status
<1> QED
  BY <1>6, <1>7, <1>8, <1>9 DEF Meaning, Running, Offered

LEMMA Meanings == RInv => \A k \in Tasks : Meaning(k)
  BY StatusIs

LEMMA MeaningsPrime == RInv' => \A k \in Tasks : Meaning(k)'
<1>1. RInv' => (\A k \in Tasks : Meaning(k))'
  BY Meanings, PTL
<1> QED
  BY <1>1

-----------------------------------------------------------------------------
(* While threads are created, no task has been added. *)
Fresh == pc[Owner] = "start" => added = {}

LEMMA FreshStep ==
  ASSUME IInv, Fresh, [Next]_vars
  PROVE  Fresh'
<1>0. PlaceTypes /\ Owner \in Threads /\ Owner \notin Workers
  BY Names DEF IInv, Locks
<1>1. CASE OwnerStep
  BY <1>0, <1>1 DEF OwnerStep, CreateThread, Started, TryPush, AddTaskReturns, CollectReturns,
    Joined, At, PlaceTypes, Fresh
<1>2. CASE Failure \/ Collect \/ Stop \/ \E k \in Tasks : AddTask(k)
  BY <1>0, <1>2 DEF Failure, CreateThreadFails, JoinUndefined, Collect, Stop, AddTask, At,
    PlaceTypes, Fresh
<1>3. ASSUME NEW w \in Workers, WorkerStep(w) PROVE Fresh'
  BY <1>0, <1>3 DEF WorkerStep, Poll, PollReturns, RunTask, FinishTask, CheckStopped, Drain,
    DrainReturns, At, PlaceTypes, Fresh
<1>4. CASE (\E t \in Threads : QueueStep(t)) \/ Terminated \/ UNCHANGED vars
  BY <1>4 DEF QueueStep, Terminated, vars, Fresh
<1> QED
  BY <1>1, <1>2, <1>3, <1>4 DEF Next

(* The threads that do not exist are those that could not be created. *)
SamePool == \A w \in Workers : pc'[w] = "failed" <=> pc[w] = "failed"

LEMMA PoolStays ==
  ASSUME IInv, [Next]_vars, ~\E w \in Workers : CreateThreadFails(w)
  PROVE  SamePool
<1>0. PlaceTypes /\ Workers \subseteq Threads /\ Owner \in Threads /\ Owner \notin Workers
  BY Names DEF IInv, Locks
<1>1. CASE OwnerStep \/ JoinUndefined
  BY <1>0, <1>1 DEF OwnerStep, CreateThread, Started, TryPush, AddTaskReturns, CollectReturns,
    Joined, JoinUndefined, At, PlaceTypes, SamePool
<1>2. CASE Collect \/ Stop \/ \E k \in Tasks : AddTask(k)
  BY <1>0, <1>2 DEF Collect, Stop, AddTask, At, PlaceTypes, SamePool
<1>3. ASSUME NEW w \in Workers, WorkerStep(w) PROVE SamePool
  BY <1>0, <1>3 DEF WorkerStep, Poll, PollReturns, RunTask, FinishTask, CheckStopped, Drain,
    DrainReturns, At, PlaceTypes, SamePool
<1>4. CASE (\E t \in Threads : QueueStep(t)) \/ Terminated \/ UNCHANGED vars
  BY <1>4 DEF QueueStep, Terminated, vars, SamePool
<1> QED
  BY <1>1, <1>2, <1>3, <1>4 DEF Next, Failure

(* What the abstract steps are made of. *)
Same(k)     == Status(k)' = Status(k)
Life        == IF pc[Owner] = "gone" THEN "closed"
               ELSE IF stopped_ THEN "closing" ELSE "open"
Lacking     == \E w \in Workers : pc[w] = "failed"
Turns(k, from, to) ==
  /\ Status(k) = from /\ Status(k)' = to
  /\ \A j \in Tasks \ {k} : Same(j)

LEMMA LifeSame ==
  ASSUME RInv, [Next]_vars, ~Stop, ~Joined, ~JoinUndefined
  PROVE  Life' = Life
<1>0. PlaceTypes /\ Owner \in Threads
  BY Names DEF RInv, IInv, Locks
<1>1. CASE OwnerStep
  BY <1>0, <1>1, Names DEF OwnerStep, CreateThread, Started, TryPush, AddTaskReturns,
    CollectReturns, At, PlaceTypes, Life
<1>2. CASE \/ (\E w \in Workers : CreateThreadFails(w)) \/ Collect
           \/ \E k \in Tasks : AddTask(k)
  BY <1>0, <1>2, Names DEF CreateThreadFails, Collect, AddTask, At, PlaceTypes, Life
<1>3. ASSUME NEW w \in Workers, WorkerStep(w)
      PROVE  pc'[Owner] = pc[Owner] /\ stopped_' = stopped_
  BY <1>0, <1>3, Names DEF WorkerStep, Poll, PollReturns, RunTask, FinishTask,
    CheckStopped, Drain, DrainReturns, At, PlaceTypes
<1>4. CASE (\E t \in Threads : QueueStep(t)) \/ Terminated \/ UNCHANGED vars
  BY <1>4 DEF QueueStep, Terminated, vars, Life
<1> QED
  BY <1>1, <1>2, <1>3, <1>4 DEF Next, Failure, Life

(* A task of which all that the statuses tell apart stays true keeps its status. *)
LEMMA StatusSame ==
  ASSUME RInv, RInv', NEW k \in Tasks,
         Done(k)' <=> Done(k), Waiting(k)' <=> Waiting(k),
         Stranded(k)' <=> Stranded(k), Running(k)' <=> Running(k),
         k \in added' <=> k \in added
  PROVE  Same(k)
  BY Meanings, MeaningsPrime DEF Meaning, Same

LEMMA OfferStep ==
  ASSUME RInv, RInv', [Next]_vars, SamePool, NEW k \in Tasks, Enters(k)
  PROVE  Turns(k, "new", "offered")
<1>0. Owner \in Threads /\ Workers \subseteq Threads /\ Owner \notin Workers
      /\ Workers \subseteq Queues /\ Completed \in Queues /\ IInv
  BY Names DEF RInv
<1>1. Status(k) = "new"
  BY Meanings DEF Meaning, Enters
<1>2. Offered(k)'
  BY <1>0 DEF Enters, Offered
<1>3. Status(k)' = "offered"
  BY <1>2, MeaningsPrime DEF Meaning
<1>4. ASSUME NEW j \in Tasks \ {k} PROVE Same(j)
  <2>1. Held(Owner, j) /\ Held(Owner, j)' => pc'[Owner] = pc[Owner]
    BY <1>0, OwnerHolds
  <2>2. Done(j)' <=> Done(j)
    BY <1>0, <1>4, <2>1 DEF Enters, SameQueues, Done
  <2>3. /\ Waiting(j)' <=> Waiting(j)
        /\ Stranded(j)' <=> Stranded(j)
        /\ Running(j)' <=> Running(j)
    BY <1>0, <1>4 DEF Enters, SamePool, SameQueues, Waiting, Stranded, Running
  <2>4. j \in added' <=> j \in added
    BY <1>4 DEF Enters
  <2> QED
    BY <2>2, <2>3, <2>4, StatusSame
<1> QED
  BY <1>1, <1>3, <1>4 DEF Turns

LEMMA PutInStep ==
  ASSUME RInv, RInv', [Next]_vars,
         NEW t \in Threads, NEW q \in Queues, NEW k \in Tasks, PutIn(t, q, k)
  PROVE  \/ pc[Owner] = "add" /\ Turns(k, "offered", "waiting")
         \/ pc[Owner] = "add" /\ Turns(k, "offered", "stranded") /\ Lacking
         \/ Turns(k, "running", "done")
<1>0. Owner \in Threads /\ Workers \subseteq Threads /\ Owner \notin Workers
      /\ Workers \subseteq Queues /\ Completed \in Queues /\ Completed \notin Workers /\ IInv
  BY Names DEF RInv
<1>1. ASSUME NEW j \in Tasks \ {k} PROVE Same(j)
  <2>0. \A u \in Threads : Held(u, j)' <=> Held(u, j)
    BY <1>1 DEF PutIn, Held
  <2>1. Done(j)' <=> Done(j)
    BY <1>0, <1>1, <2>0 DEF PutIn, Done
  <2>2. /\ Waiting(j)' <=> Waiting(j)
        /\ Stranded(j)' <=> Stranded(j)
        /\ Running(j)' <=> Running(j)
    BY <1>0, <1>1, <2>0 DEF PutIn, Waiting, Stranded, Running
  <2>3. j \in added' <=> j \in added
    BY DEF PutIn
  <2> QED
    BY <2>1, <2>2, <2>3, StatusSame
<1>2. CASE t = Owner /\ q \in Workers /\ pc[Owner] = "add"
  <2>1. Offered(k) /\ InQueue(q, k)' /\ pc' = pc
    BY <1>0, <1>2 DEF PutIn, Offered
  <2>2. CASE pc[q] # "failed"
    <3>1. Waiting(k)'
      BY <1>2, <2>1, <2>2 DEF Waiting
    <3> QED
      BY <1>1, <1>2, <2>1, <3>1, Meanings, MeaningsPrime DEF Meaning, Turns
  <2>3. CASE pc[q] = "failed"
    <3>1. Stranded(k)' /\ Lacking
      BY <1>2, <2>1, <2>3 DEF Stranded, Lacking
    <3> QED
      BY <1>1, <1>2, <2>1, <3>1, Meanings, MeaningsPrime DEF Meaning, Turns
  <2> QED
    BY <2>2, <2>3
<1>3. CASE t \in Workers /\ q = Completed
  <2>1. Running(k) /\ Done(k)'
    BY <1>0, <1>3 DEF PutIn, Running, Done
  <2> QED
    BY <1>1, <2>1, Meanings, MeaningsPrime DEF Meaning, Turns
<1> QED
  BY <1>0, <1>2, <1>3, WhosePush

LEMMA TakenOutStep ==
  ASSUME RInv, RInv', [Next]_vars,
         NEW t \in Threads, NEW q \in Queues, NEW k \in Tasks, TakenOut(t, q, k)
  PROVE  Turns(k, "waiting", "running") \/ \A j \in Tasks : Same(j)
<1>0. Owner \in Threads /\ Workers \subseteq Threads /\ Owner \notin Workers
      /\ Workers \subseteq Queues /\ Completed \in Queues /\ Completed \notin Workers /\ IInv
  BY Names DEF RInv
<1>1. ASSUME NEW j \in Tasks \ {k} PROVE Same(j)
  <2>1. Done(j)' <=> Done(j)
    BY <1>0, <1>1 DEF TakenOut, Done
  <2>2. /\ Waiting(j)' <=> Waiting(j)
        /\ Stranded(j)' <=> Stranded(j)
        /\ Running(j)' <=> Running(j)
    BY <1>0, <1>1 DEF TakenOut, Waiting, Stranded, Running
  <2>3. j \in added' <=> j \in added
    BY DEF TakenOut
  <2> QED
    BY <2>1, <2>2, <2>3, StatusSame
<1>2. CASE t = Owner /\ q = Completed /\ pc[Owner] = "collect"
  <2>1. Done(k) /\ Done(k)'
    BY <1>0, <1>2 DEF TakenOut, Done
  <2>2. Same(k)
    BY <2>1, Meanings, MeaningsPrime DEF Meaning, Same
  <2> QED
    BY <1>1, <2>2
<1>3. CASE t \in Workers /\ q = t
  <2>1. Waiting(k) /\ Running(k)'
    BY <1>0, <1>3 DEF TakenOut, Popping, Waiting, Running
  <2> QED
    BY <1>1, <2>1, Meanings, MeaningsPrime DEF Meaning, Turns
<1> QED
  BY <1>0, <1>2, <1>3, WhosePop

LEMMA QuietStep ==
  ASSUME RInv, RInv', [Next]_vars, SamePool, StaysPut \/ Leaves
  PROVE  \A k \in Tasks : Same(k)
<1>0. Owner \in Threads /\ Workers \subseteq Threads /\ Owner \notin Workers
      /\ Workers \subseteq Queues /\ Completed \in Queues /\ IInv
  BY Names DEF RInv
<1>1. ASSUME NEW k \in Tasks PROVE Same(k)
  <2>1. Held(Owner, k) /\ Held(Owner, k)' => pc'[Owner] = pc[Owner]
    BY <1>0, OwnerHolds
  <2>2. Done(k)' <=> Done(k)
    BY <1>0, <2>1 DEF StaysPut, Leaves, SameQueues, Done
  <2>3. /\ Waiting(k)' <=> Waiting(k)
        /\ Stranded(k)' <=> Stranded(k)
        /\ Running(k)' <=> Running(k)
    BY <1>0 DEF StaysPut, Leaves, SamePool, SameQueues, Waiting, Stranded, Running
  <2>4. k \in added' <=> k \in added
    BY DEF StaysPut, Leaves
  <2> QED
    BY <2>2, <2>3, <2>4, StatusSame
<1> QED
  BY <1>1

(* The steps of the destructor. *)
LEMMA StopStep ==
  ASSUME RInv, RInv', [Next]_vars, SamePool, Stop \/ Joined \/ JoinUndefined
  PROVE  \A k \in Tasks : Same(k)
<1>1. /\ pc[Owner] # "collect" /\ pc'[Owner] # "collect" /\ received' = received
      /\ \A t \in Threads, k \in Tasks : t # Owner => (Held(t, k)' <=> Held(t, k))
      /\ \A q \in Queues, k \in Tasks : InQueue(q, k)' <=> InQueue(q, k)
      /\ added' = added
  BY Names DEF Stop, Joined, JoinUndefined, At, Held, Holds, InQueue, Queued, queueVars, RInv, IInv, Locks,
    PlaceTypes
<1>2. ASSUME NEW k \in Tasks PROVE Same(k)
  BY <1>1, Names, StatusSame DEF SamePool, Done, Waiting, Stranded, Running
<1> QED
  BY <1>2

LEMMA ClosedWhenDone ==
  ASSUME RInv, Joined \/ JoinUndefined
  PROVE  \A k \in Tasks : Status(k) \in {"new", "done", "stranded"}
<1>1. \A w \in Workers : pc[w] \in {"exited", "failed"} /\ (pc[w] = "exited" => Empty(w))
  BY DEF Joined, JoinUndefined, RInv, Shutdown
<1>2. \A w \in Workers : item[w] = None
  BY <1>1, Names DEF RInv, IInv, Locks, Control, Doing, Pushing, Popping
<1>3. ASSUME NEW k \in Tasks PROVE ~Waiting(k) /\ ~Running(k) /\ ~Offered(k)
  BY <1>1, <1>2, Names DEF Waiting, Running, Offered, Empty, Held, Joined, JoinUndefined, At
<1> QED
  BY <1>3, Meanings DEF Meaning

LEMMA Changes ==
  ASSUME NEW k \in Tasks, NEW from, NEW to, Turns(k, from, to), Life' = Life, SamePool
  PROVE  Pool!Change(k, from, to)
<1>1. [j \in Tasks |-> Status(j)]' = [[j \in Tasks |-> Status(j)] EXCEPT ![k] = to]
  BY DEF Turns, Same
<1>2. Lacking' = Lacking
  BY DEF SamePool, Lacking
<1> QED
  BY <1>1, <1>2 DEF Pool!Change, Turns, Life, Lacking

LEMMA PoolInit == Init => Pool!Init
<1> SUFFICES ASSUME Init PROVE Pool!Init
  OBVIOUS
<1>1. \A k \in Tasks : Status(k) = "new"
  BY RInvInit, Meanings DEF Meaning, Init
<1>2. Life = "open"
  BY Names DEF Init, Life
<1>3. Lacking = FALSE
  BY Names DEF Init, Lacking
<1> QED
  BY <1>1, <1>2, <1>3 DEF Pool!Init, Life, Lacking

(* A thread that cannot be created is one the pool lacks from then on. *)
LEMMA LackStep ==
  ASSUME RInv, RInv', Fresh, [Next]_vars, NEW w \in Workers, CreateThreadFails(w)
  PROVE  Pool!Lack
<1>0. PlaceTypes /\ w \in Threads /\ Owner \in Threads /\ w # Owner
  BY Names DEF RInv, IInv, Locks
<1>1. added = {} /\ added' = {}
  BY DEF CreateThreadFails, Fresh
<1>2. \A k \in Tasks : Status(k) = "new" /\ Status(k)' = "new"
  BY <1>1, Meanings, MeaningsPrime DEF Meaning
<1>3. Life = "open" /\ Life' = "open"
  BY <1>0 DEF CreateThreadFails, At, PlaceTypes, Life, RInv, Shutdown
<1>4. Lacking' = TRUE
  BY <1>0 DEF CreateThreadFails, At, PlaceTypes, Lacking
<1> QED
  BY <1>2, <1>3, <1>4 DEF Pool!Lack, Life, Lacking

LEMMA PoolStep ==
  ASSUME RInv, RInv', Fresh, [Next]_vars
  PROVE  [Pool!Next]_(Pool!poolVars)
<1>0. CASE \E w \in Workers : CreateThreadFails(w)
  BY <1>0, LackStep DEF Pool!Next
<1> SUFFICES ASSUME ~\E w \in Workers : CreateThreadFails(w)
             PROVE  [Pool!Next]_(Pool!poolVars)
  BY <1>0
<1>b. IInv /\ Owner \in Threads /\ SamePool
  BY Names, PoolStays DEF RInv
<1>c. Lacking' = Lacking
  BY <1>b DEF SamePool, Lacking
<1>1. CASE Stop
  <2>1. /\ \A k \in Tasks : Same(k)
        /\ \A k \in Tasks : Status(k) # "offered"
    BY <1>b, <1>1, StopStep, Meanings DEF Meaning, Offered, Stop, At
  <2>2. Life = "open" /\ Life' = "closing"
    BY <1>b, <1>1 DEF Stop, At, Life, RInv, Shutdown, IInv, Locks, PlaceTypes
  <2>3. Pool!Close
    BY <1>c, <2>1, <2>2 DEF Pool!Close, Life, Lacking, Same
  <2> QED
    BY <2>3 DEF Pool!Next
<1>2. CASE Joined \/ JoinUndefined
  <2>1. /\ \A k \in Tasks : Same(k)
        /\ \A k \in Tasks : Status(k) \in {"new", "done", "stranded"}
    BY <1>b, <1>2, StopStep, ClosedWhenDone
  <2>2. Life = "closing" /\ Life' = "closed"
    BY <1>b, <1>2 DEF Joined, JoinUndefined, At, Life, RInv, Shutdown, IInv, Locks, PlaceTypes
  <2>3. Pool!Closed
    BY <1>c, <2>1, <2>2 DEF Pool!Closed, Life, Lacking, Same
  <2> QED
    BY <2>3 DEF Pool!Next
<1>3. CASE ~Stop /\ ~Joined /\ ~JoinUndefined
  <2>0. Life' = Life
    BY <1>3, LifeSame
  <2>1. (\A k \in Tasks : Same(k)) => UNCHANGED Pool!poolVars
    BY <1>c, <2>0 DEF Pool!poolVars, Same, Life, Lacking
  <2>2. CASE StaysPut \/ Leaves
    BY <1>b, <2>1, <2>2, QuietStep
  <2>3. ASSUME NEW k \in Tasks, Enters(k) PROVE Pool!Next
    <3>1. Life' = "open"
      BY <2>3 DEF Enters, Life, RInv, Shutdown
    <3> QED
      BY <1>b, <2>0, <2>3, <3>1, OfferStep, Changes DEF Pool!Offer, Pool!Next, Life
  <2>4. ASSUME NEW t \in Threads, NEW q \in Queues, NEW k \in Tasks, PutIn(t, q, k)
        PROVE  Pool!Next
    <3>1. CASE pc[Owner] = "add" /\ Turns(k, "offered", "waiting")
      <4>1. Life = "open"
        BY <3>1 DEF Life, RInv, Shutdown
      <4> QED
        BY <1>b, <2>0, <3>1, <4>1, Changes DEF Pool!Accept, Pool!Next, Life
    <3>2. CASE pc[Owner] = "add" /\ Turns(k, "offered", "stranded") /\ Lacking
      <4>1. Life = "open"
        BY <3>2 DEF Life, RInv, Shutdown
      <4> QED
        BY <1>b, <2>0, <3>2, <4>1, Changes DEF Pool!Strand, Pool!Next, Life, Lacking
    <3>3. CASE Turns(k, "running", "done")
      BY <1>b, <2>0, <3>3, Changes DEF Pool!Finish, Pool!Next
    <3> QED
      BY <2>4, <3>1, <3>2, <3>3, PutInStep
  <2>5. ASSUME NEW t \in Threads, NEW q \in Queues, NEW k \in Tasks, TakenOut(t, q, k)
        PROVE  Pool!Next \/ UNCHANGED Pool!poolVars
    <3>1. CASE Turns(k, "waiting", "running")
      BY <1>b, <2>0, <3>1, Changes DEF Pool!Start, Pool!Next
    <3> QED
      BY <2>1, <2>5, <3>1, TakenOutStep
  <2> QED
    BY <1>b, <2>2, <2>3, <2>4, <2>5, Moving DEF Movement
<1> QED
  BY <1>1, <1>2, <1>3

(* static_thread_pool.h:23-37, 69-73, 77-111: for any number of threads and
   tasks, whichever threads could be created, and without any assumption on
   scheduling, a task is accepted at most once, run at most once, and only after
   it was accepted; and the destructor does not return before every task has
   finished but those in the queue of a thread that does not exist. *)
THEOREM RefinesTaskPoolSafety ==
  Spec => Pool!Init /\ [][Pool!Next]_(Pool!poolVars)
<1>1. Init => Fresh
  BY DEF Init, Fresh
<1>2. RInv /\ Fresh /\ [Next]_vars => Fresh'
  BY FreshStep DEF RInv
<1>3. RInv /\ RInv' /\ Fresh /\ [Next]_vars => [Pool!Next]_(Pool!poolVars)
  BY PoolStep
<1> QED
  BY <1>1, <1>2, <1>3, PoolInit, RInvariance, PTL DEF Spec
=============================================================================
