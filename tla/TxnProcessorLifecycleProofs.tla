--------------------- MODULE TxnProcessorLifecycleProofs ---------------------
(***************************************************************************)
(* The life of a TxnProcessor with any number of transactions and threads: *)
(* an owner that has all its results may delete it.                        *)
(***************************************************************************)
EXTENDS TxnProcessorLifecycle, CommonFacts

OwnerPlaces == {"create", "clear", "use", "join", "storage", "members", "pool", "joinpool", "gone"}

Types ==
  /\ opc \in OwnerPlaces
  /\ stopped_ \in BOOLEAN /\ pool_stopped_ \in BOOLEAN
  /\ alive \subseteq {"storage", "queues"}
  /\ spc \in {"none", "stopped", "request", "drain", "dispatch", "exited"}
  /\ requested \subseteq Txns /\ received \subseteq Txns
  /\ wpc \in [Workers -> {"poll", "read", "push", "check", "drain", "exited"}]

QueueTypes ==
  /\ txn_requests_ \in Seq(Txns)
  /\ ready_txns_ \in Seq(Txns)
  /\ completed_txns_ \in Seq(Txns)
  /\ txn_results_ \in Seq(Txns)
  /\ queues_ \in [Workers -> Seq(Txns)]
  /\ task \in [Workers -> Txns \union {None}]

(* A thread has a transaction while it executes it. *)
Executing == \A w \in Workers : wpc[w] \in {"read", "push"} <=> task[w] # None

-----------------------------------------------------------------------------
(* Where transactions are, and that each is in one place at most. *)
Asking    == <<"requests", None>>
Ready     == <<"ready", None>>
Completed == <<"completed", None>>
Results   == <<"results", None>>
Received  == <<"received", None>>
Nowhere   == <<"nowhere", None>>
Queue(w)  == <<"queue", w>>
Task(w)   == <<"task", w>>

Places == {Asking, Ready, Completed, Results, Received}
            \union {Queue(w) : w \in Workers} \union {Task(w) : w \in Workers}

Contents(p) ==
  CASE p[1] = "requests"  -> ToSet(txn_requests_)
    [] p[1] = "ready"     -> ToSet(ready_txns_)
    [] p[1] = "queue"     -> ToSet(queues_[p[2]])
    [] p[1] = "task"      -> {task[p[2]]} \ {None}
    [] p[1] = "completed" -> ToSet(completed_txns_)
    [] p[1] = "results"   -> ToSet(txn_results_)
    [] p[1] = "received"  -> received

At(t, p) == t \in Contents(p)

Distinct ==
  /\ IsInjective(txn_requests_) /\ IsInjective(ready_txns_)
  /\ IsInjective(completed_txns_) /\ IsInjective(txn_results_)
  /\ \A w \in Workers : IsInjective(queues_[w])

Unshared ==
  \A t \in Txns : \A p, q \in Places : At(t, p) /\ At(t, q) => p = q

Requested == \A t \in Txns : \A p \in Places : At(t, p) => t \in requested

(* What the owner is doing says which threads and objects there are. *)
InUse == {"create", "clear", "use"}

Control ==
  /\ opc \notin InUse \union {"join"} => spc \in {"exited", "none"}
  /\ opc \in InUse \union {"join", "storage"} => alive = {"storage", "queues"}

(* Nothing is under way when an owner that has all its results deletes. *)
Quiet ==
  CollectAll /\ opc \notin InUse =>
    \A t \in Txns : \A p \in Places : At(t, p) => p = Received

IInv ==
  /\ Types /\ QueueTypes /\ Executing /\ Distinct /\ Unshared /\ Requested
  /\ Control /\ Quiet

-----------------------------------------------------------------------------
LEMMA PlacesAre ==
  /\ \A p \in Places :
       \/ p \in {Asking, Ready, Completed, Results, Received}
       \/ \E w \in Workers : p = Queue(w)
       \/ \E w \in Workers : p = Task(w)
  /\ {Asking, Ready, Completed, Results, Received} \subseteq Places
  /\ \A w \in Workers : Queue(w) \in Places /\ Task(w) \in Places
  /\ Nowhere \notin Places
  BY DEF Places, Asking, Ready, Completed, Results, Received, Nowhere, Queue, Task

LEMMA PlacesDiffer ==
  /\ Asking # Ready /\ Asking # Completed /\ Asking # Results /\ Asking # Received
  /\ Ready # Completed /\ Ready # Results /\ Ready # Received
  /\ Completed # Results /\ Completed # Received /\ Results # Received
  /\ \A w \in Workers :
       /\ Queue(w) \notin {Asking, Ready, Completed, Results, Received, Nowhere}
       /\ Task(w) \notin {Asking, Ready, Completed, Results, Received, Nowhere}
  /\ \A v, w \in Workers :
       /\ Queue(v) # Task(w)
       /\ Queue(v) = Queue(w) => v = w
       /\ Task(v) = Task(w) => v = w
  BY DEF Asking, Ready, Completed, Results, Received, Nowhere, Queue, Task

LEMMA ContentsAre ==
  /\ \A t : At(t, Asking) <=> t \in ToSet(txn_requests_)
  /\ \A t : At(t, Ready) <=> t \in ToSet(ready_txns_)
  /\ \A t : At(t, Completed) <=> t \in ToSet(completed_txns_)
  /\ \A t : At(t, Results) <=> t \in ToSet(txn_results_)
  /\ \A t : At(t, Received) <=> t \in received
  /\ \A w \in Workers : \A t : At(t, Queue(w)) <=> t \in ToSet(queues_[w])
  /\ \A w \in Workers : \A t \in Txns : At(t, Task(w)) <=> t = task[w]
  BY NamesAssumption
  DEF At, Contents, Asking, Ready, Completed, Results, Received, Queue, Task

LEMMA ContentsNext ==
  /\ \A t : At(t, Asking)' <=> t \in ToSet(txn_requests_')
  /\ \A t : At(t, Ready)' <=> t \in ToSet(ready_txns_')
  /\ \A t : At(t, Completed)' <=> t \in ToSet(completed_txns_')
  /\ \A t : At(t, Results)' <=> t \in ToSet(txn_results_')
  /\ \A t : At(t, Received)' <=> t \in received'
  /\ \A w \in Workers : \A t : At(t, Queue(w))' <=> t \in ToSet(queues_'[w])
  /\ \A w \in Workers : \A t \in Txns : At(t, Task(w))' <=> t = task'[w]
  BY NamesAssumption
  DEF At, Contents, Asking, Ready, Completed, Results, Received, Queue, Task

(* What a step does to the places: t goes from p to q. *)
Moves(t, p, q) ==
  \A r \in Places : \A u \in Txns :
    At(u, r)' <=> (At(u, r) /\ ~(r = p /\ u = t)) \/ (r = q /\ u = t)

LEMMA MovesByName ==
  ASSUME NEW t, NEW p, NEW q,
         \A r \in {Asking, Ready, Completed, Results, Received} : \A u \in Txns :
           At(u, r)' <=> (At(u, r) /\ ~(r = p /\ u = t)) \/ (r = q /\ u = t),
         \A w \in Workers, u \in Txns :
           At(u, Queue(w))' <=> \/ At(u, Queue(w)) /\ ~(Queue(w) = p /\ u = t)
                                \/ Queue(w) = q /\ u = t,
         \A w \in Workers, u \in Txns :
           At(u, Task(w))' <=> \/ At(u, Task(w)) /\ ~(Task(w) = p /\ u = t)
                               \/ Task(w) = q /\ u = t
  PROVE  Moves(t, p, q)
  BY PlacesAre DEF Moves

(* A step that moves one transaction that has been requested, and leaves the
   owner where it is, keeps what is said of the places. *)
LEMMA MoveKeeps ==
  ASSUME Unshared, Requested, Quiet, NEW t \in Txns, NEW p, NEW q, Moves(t, p, q),
         IF p \in Places THEN At(t, p) ELSE \A r \in Places : ~At(t, r),
         requested \subseteq requested', t \in requested', opc' = opc,
         opc \notin InUse => p \in Places \ {Received}
  PROVE  Unshared' /\ Requested' /\ Quiet'
<1>1. ASSUME NEW u \in Txns, NEW a \in Places, NEW b \in Places, At(u, a)', At(u, b)'
      PROVE  a = b
  <2>1. CASE u # t
    BY <1>1, <2>1 DEF Moves, Unshared
  <2>2. CASE u = t
    <3>1. ASSUME NEW r \in Places, At(t, r) PROVE r = p
      BY <3>1 DEF Unshared
    <3> QED
      BY <1>1, <2>2, <3>1 DEF Moves
  <2> QED
    BY <2>1, <2>2
<1>2. Unshared'
  BY <1>1 DEF Unshared, Places
<1>3. ASSUME NEW u \in Txns, NEW a \in Places, At(u, a)' PROVE u \in requested'
  BY <1>3 DEF Moves, Requested
<1>4. Requested'
  BY <1>3 DEF Requested, Places
<1>5. ASSUME CollectAll, opc \notin InUse, NEW u \in Txns, NEW a \in Places, At(u, a)'
      PROVE  a = Received
  <2>1. p = Received
    BY <1>5 DEF Quiet
  <2> QED
    BY <1>5, <2>1
<1>6. Quiet'
  BY <1>5 DEF Quiet, Places
<1> QED
  BY <1>2, <1>4, <1>6

(* The steps that move nothing. *)
LEMMA StayKeeps ==
  ASSUME Unshared, Requested, Distinct, UNCHANGED <<txnQueues, queues_, task, received, requested>>
  PROVE  /\ Unshared' /\ Requested' /\ Distinct'
         /\ Quiet /\ (opc' \in InUse \/ opc \notin InUse) => Quiet'
<1>1. \A t, p : At(t, p)' <=> At(t, p)
  BY DEF At, Contents, txnQueues
<1>2. Unshared' /\ Requested'
  BY <1>1 DEF Unshared, Requested, Places
<1>3. Distinct'
  BY DEF Distinct, txnQueues
<1>4. Quiet /\ (opc' \in InUse \/ opc \notin InUse) => Quiet'
  BY <1>1 DEF Quiet, Places
<1> QED
  BY <1>2, <1>3, <1>4

-----------------------------------------------------------------------------
(* What is said of the queues and of the places, in every step. *)
Kept == QueueTypes /\ Distinct /\ Unshared /\ Requested /\ Quiet

LEMMA RequestKeeps ==
  ASSUME IInv, NEW t \in Txns, NewTxnRequest(t)
  PROVE  Kept'
<1>0. /\ QueueTypes /\ Distinct /\ Unshared /\ Requested /\ Quiet /\ opc = "use" /\ opc' = opc
      /\ t \notin requested /\ requested' = requested \union {t}
      /\ txn_requests_ \in Seq(Txns) /\ txn_requests_' = Append(txn_requests_, t)
      /\ UNCHANGED <<received, ready_txns_, completed_txns_, txn_results_, queues_, task>>
  BY DEF IInv, QueueTypes, NewTxnRequest, workerVars
<1>1. \A r \in Places : ~At(t, r)
  BY <1>0 DEF Requested
<1>2. t \notin ToSet(txn_requests_)
  BY <1>1, PlacesAre, ContentsAre
<1>3. /\ txn_requests_' \in Seq(Txns) /\ ToSet(txn_requests_') = ToSet(txn_requests_) \union {t}
      /\ IsInjective(txn_requests_')
  BY <1>0, <1>2, AppendToQueue DEF Distinct
<1>4. Moves(t, Nowhere, Asking)
  BY <1>0, <1>3, ContentsAre, ContentsNext, PlacesAre, PlacesDiffer, MovesByName
<1>5. Unshared' /\ Requested' /\ Quiet'
  BY <1>0, <1>1, <1>4, PlacesAre, MoveKeeps DEF InUse
<1> QED
  BY <1>0, <1>3, <1>5 DEF Kept, QueueTypes, Distinct

LEMMA ResultKeeps ==
  ASSUME IInv, GetTxnResult
  PROVE  Kept'
<1>0. /\ QueueTypes /\ Distinct /\ Unshared /\ Requested /\ Quiet /\ opc = "use" /\ opc' = opc
      /\ txn_results_ \in Seq(Txns) /\ txn_results_ # <<>> /\ txn_results_' = Tail(txn_results_)
      /\ UNCHANGED <<requested, txn_requests_, ready_txns_, completed_txns_, queues_, task>>
  BY DEF IInv, QueueTypes, GetTxnResult, workerVars
<1>1. PICK h \in Txns : /\ h = Head(txn_results_) /\ At(h, Results)
                        /\ received' = received \union {h}
  BY <1>0, TakeFromQueue, ContentsAre DEF GetTxnResult
<1>2. /\ txn_results_' \in Seq(Txns) /\ IsInjective(txn_results_')
      /\ ToSet(txn_results_') = ToSet(txn_results_) \ {h}
  BY <1>0, <1>1, TakeFromQueue DEF Distinct
<1>3. Moves(h, Results, Received)
  BY <1>0, <1>1, <1>2, ContentsAre, ContentsNext, PlacesDiffer, MovesByName
<1>4. h \in requested
  BY <1>0, <1>1, PlacesAre DEF Requested
<1>5. Unshared' /\ Requested' /\ Quiet'
  BY <1>0, <1>1, <1>3, <1>4, PlacesAre, MoveKeeps DEF InUse
<1> QED
  BY <1>0, <1>2, <1>5 DEF Kept, QueueTypes, Distinct

LEMMA PopKeeps ==
  ASSUME IInv, PopRequest
  PROVE  Kept'
<1>0. /\ QueueTypes /\ Distinct /\ Unshared /\ Requested /\ Quiet /\ opc' = opc
      /\ txn_requests_ \in Seq(Txns) /\ ready_txns_ \in Seq(Txns)
      /\ UNCHANGED <<requested, received, completed_txns_, txn_results_, queues_, task>>
  BY DEF IInv, QueueTypes, PopRequest, ownerVars, workerVars
<1>1. CASE txn_requests_ # <<>>
  <2>0. txn_requests_' = Tail(txn_requests_)
    BY <1>1 DEF PopRequest
  <2>1. PICK h \in Txns : /\ h = Head(txn_requests_) /\ At(h, Asking)
                          /\ ready_txns_' = Append(ready_txns_, h)
    BY <1>0, <1>1, TakeFromQueue, ContentsAre DEF PopRequest
  <2>2. /\ txn_requests_' \in Seq(Txns) /\ IsInjective(txn_requests_')
        /\ ToSet(txn_requests_') = ToSet(txn_requests_) \ {h}
    BY <1>0, <1>1, <2>0, <2>1, TakeFromQueue DEF Distinct
  <2>3. h \notin ToSet(ready_txns_)
    BY <1>0, <2>1, PlacesAre, PlacesDiffer, ContentsAre DEF Unshared
  <2>4. /\ ready_txns_' \in Seq(Txns) /\ IsInjective(ready_txns_')
        /\ ToSet(ready_txns_') = ToSet(ready_txns_) \union {h}
    BY <1>0, <2>1, <2>3, AppendToQueue DEF Distinct
  <2>5. Moves(h, Asking, Ready)
    BY <1>0, <2>1, <2>2, <2>4, ContentsAre, ContentsNext, PlacesDiffer, MovesByName
  <2>6. h \in requested
    BY <1>0, <2>1, PlacesAre DEF Requested
  <2>7. Unshared' /\ Requested' /\ Quiet'
    BY <1>0, <2>1, <2>5, <2>6, PlacesAre, PlacesDiffer, MoveKeeps
  <2> QED
    BY <1>0, <2>2, <2>4, <2>7 DEF Kept, QueueTypes, Distinct
<1>2. CASE txn_requests_ = <<>>
  <2>1. UNCHANGED <<txn_requests_, ready_txns_>>
    BY <1>2 DEF PopRequest
  <2> QED
    BY <1>0, <2>1, StayKeeps DEF Kept, QueueTypes, txnQueues
<1> QED
  BY <1>1, <1>2

LEMMA CompletedKeeps ==
  ASSUME IInv, PopCompleted
  PROVE  Kept'
<1>0. /\ QueueTypes /\ Distinct /\ Unshared /\ Requested /\ Quiet /\ opc' = opc
      /\ completed_txns_ \in Seq(Txns) /\ completed_txns_ # <<>>
      /\ completed_txns_' = Tail(completed_txns_) /\ txn_results_ \in Seq(Txns)
      /\ UNCHANGED <<requested, received, txn_requests_, ready_txns_, queues_, task>>
  BY DEF IInv, QueueTypes, PopCompleted, ownerVars, workerVars
<1>1. PICK h \in Txns : /\ h = Head(completed_txns_) /\ At(h, Completed)
                        /\ txn_results_' = Append(txn_results_, h)
  BY <1>0, TakeFromQueue, ContentsAre DEF PopCompleted
<1>2. /\ completed_txns_' \in Seq(Txns) /\ IsInjective(completed_txns_')
      /\ ToSet(completed_txns_') = ToSet(completed_txns_) \ {h}
  BY <1>0, <1>1, TakeFromQueue DEF Distinct
<1>3. h \notin ToSet(txn_results_)
  BY <1>0, <1>1, PlacesAre, PlacesDiffer, ContentsAre DEF Unshared
<1>4. /\ txn_results_' \in Seq(Txns) /\ IsInjective(txn_results_')
      /\ ToSet(txn_results_') = ToSet(txn_results_) \union {h}
  BY <1>0, <1>1, <1>3, AppendToQueue DEF Distinct
<1>5. Moves(h, Completed, Results)
  <2>1. \A r \in {Asking, Ready, Completed, Results, Received} : \A u \in Txns :
          At(u, r)' <=> (At(u, r) /\ ~(r = Completed /\ u = h)) \/ (r = Results /\ u = h)
    BY <1>0, <1>1, <1>2, <1>4, ContentsAre, ContentsNext, PlacesDiffer
  <2>2. \A v \in Workers, u \in Txns :
          At(u, Queue(v))' <=> \/ At(u, Queue(v)) /\ ~(Queue(v) = Completed /\ u = h)
                               \/ Queue(v) = Results /\ u = h
    BY <1>0, <1>1, <1>2, <1>4, ContentsAre, ContentsNext, PlacesDiffer
  <2>3. \A v \in Workers, u \in Txns :
          At(u, Task(v))' <=> \/ At(u, Task(v)) /\ ~(Task(v) = Completed /\ u = h)
                              \/ Task(v) = Results /\ u = h
    BY <1>0, <1>1, <1>2, <1>4, ContentsAre, ContentsNext, PlacesDiffer
  <2> QED
    BY <2>1, <2>2, <2>3, MovesByName
<1>6. h \in requested
  BY <1>0, <1>1, PlacesAre DEF Requested
<1>7. Unshared' /\ Requested' /\ Quiet'
  BY <1>0, <1>1, <1>5, <1>6, PlacesAre, PlacesDiffer, MoveKeeps
<1> QED
  BY <1>0, <1>2, <1>4, <1>7 DEF Kept, QueueTypes, Distinct

LEMMA DispatchKeeps ==
  ASSUME IInv, NEW w \in Workers, Dispatch(w)
  PROVE  Kept'
<1>0. /\ QueueTypes /\ Distinct /\ Unshared /\ Requested /\ Quiet /\ opc' = opc
      /\ ready_txns_ \in Seq(Txns) /\ ready_txns_ # <<>> /\ ready_txns_' = Tail(ready_txns_)
      /\ queues_ \in [Workers -> Seq(Txns)]
      /\ UNCHANGED <<requested, received, txn_requests_, completed_txns_, txn_results_, task>>
  BY DEF IInv, QueueTypes, Dispatch, ownerVars, workerVars
<1>1. PICK h \in Txns : /\ h = Head(ready_txns_) /\ At(h, Ready)
                        /\ queues_' = [queues_ EXCEPT ![w] = Append(queues_[w], h)]
  BY <1>0, TakeFromQueue, ContentsAre DEF Dispatch
<1>2. /\ ready_txns_' \in Seq(Txns) /\ IsInjective(ready_txns_')
      /\ ToSet(ready_txns_') = ToSet(ready_txns_) \ {h}
  BY <1>0, <1>1, TakeFromQueue DEF Distinct
<1>3. h \notin ToSet(queues_[w])
  BY <1>0, <1>1, PlacesAre, PlacesDiffer, ContentsAre DEF Unshared
<1>4. /\ queues_'[w] = Append(queues_[w], h) /\ queues_[w] \in Seq(Txns)
      /\ \A v \in Workers \ {w} : queues_'[v] = queues_[v]
  BY <1>0, <1>1
<1>5. /\ queues_'[w] \in Seq(Txns) /\ IsInjective(queues_'[w])
      /\ ToSet(queues_'[w]) = ToSet(queues_[w]) \union {h}
  BY <1>0, <1>3, <1>4, AppendToQueue DEF Distinct
<1>6. Moves(h, Ready, Queue(w))
  <2>1. \A r \in {Asking, Ready, Completed, Results, Received} : \A u \in Txns :
          At(u, r)' <=> (At(u, r) /\ ~(r = Ready /\ u = h)) \/ (r = Queue(w) /\ u = h)
    BY <1>0, <1>1, <1>2, <1>4, <1>5, ContentsAre, ContentsNext, PlacesDiffer
  <2>2. \A v \in Workers, u \in Txns :
          At(u, Queue(v))' <=> \/ At(u, Queue(v)) /\ ~(Queue(v) = Ready /\ u = h)
                               \/ Queue(v) = Queue(w) /\ u = h
    BY <1>0, <1>1, <1>2, <1>4, <1>5, ContentsAre, ContentsNext, PlacesDiffer
  <2>3. \A v \in Workers, u \in Txns :
          At(u, Task(v))' <=> \/ At(u, Task(v)) /\ ~(Task(v) = Ready /\ u = h)
                              \/ Task(v) = Queue(w) /\ u = h
    BY <1>0, <1>1, <1>2, <1>4, <1>5, ContentsAre, ContentsNext, PlacesDiffer
  <2> QED
    BY <2>1, <2>2, <2>3, MovesByName
<1>7. h \in requested
  BY <1>0, <1>1, PlacesAre DEF Requested
<1>8. Unshared' /\ Requested' /\ Quiet'
  BY <1>0, <1>1, <1>6, <1>7, PlacesAre, PlacesDiffer, MoveKeeps
<1>9. queues_' \in [Workers -> Seq(Txns)] /\ \A v \in Workers : IsInjective(queues_'[v])
  BY <1>0, <1>1, <1>4, <1>5 DEF Distinct
<1> QED
  BY <1>0, <1>2, <1>8, <1>9 DEF Kept, QueueTypes, Distinct

LEMMA TaskKeeps ==
  ASSUME IInv, NEW w \in Workers, TakeTask(w)
  PROVE  Kept'
<1>0. /\ QueueTypes /\ Distinct /\ Unshared /\ Requested /\ Quiet /\ Executing /\ opc' = opc
      /\ wpc[w] \in {"poll", "drain"} /\ queues_[w] # <<>> /\ queues_[w] \in Seq(Txns)
      /\ queues_ \in [Workers -> Seq(Txns)] /\ queues_' = [queues_ EXCEPT ![w] = Tail(queues_[w])]
      /\ task \in [Workers -> Txns \union {None}]
      /\ UNCHANGED <<requested, received, txn_requests_, ready_txns_, completed_txns_,
                     txn_results_>>
  BY DEF IInv, QueueTypes, TakeTask, ownerVars, txnQueues
<1>1. PICK h \in Txns : /\ h = Head(queues_[w]) /\ At(h, Queue(w))
                        /\ task' = [task EXCEPT ![w] = h]
  BY <1>0, TakeFromQueue, ContentsAre DEF TakeTask
<1>2. /\ queues_'[w] = Tail(queues_[w])
      /\ \A v \in Workers \ {w} : queues_'[v] = queues_[v]
      /\ task'[w] = h /\ \A v \in Workers \ {w} : task'[v] = task[v]
  BY <1>0, <1>1
<1>3. /\ queues_'[w] \in Seq(Txns) /\ IsInjective(queues_'[w])
      /\ ToSet(queues_'[w]) = ToSet(queues_[w]) \ {h}
  BY <1>0, <1>1, <1>2, TakeFromQueue DEF Distinct
<1>4. task[w] = None /\ None \notin Txns
  BY <1>0, NamesAssumption DEF Executing
<1>5. Moves(h, Queue(w), Task(w))
  <2>1. \A r \in {Asking, Ready, Completed, Results, Received} : \A u \in Txns :
          At(u, r)' <=> (At(u, r) /\ ~(r = Queue(w) /\ u = h)) \/ (r = Task(w) /\ u = h)
    BY <1>0, <1>1, <1>2, <1>3, <1>4, ContentsAre, ContentsNext, PlacesDiffer
  <2>2. \A v \in Workers, u \in Txns :
          At(u, Queue(v))' <=> \/ At(u, Queue(v)) /\ ~(Queue(v) = Queue(w) /\ u = h)
                               \/ Queue(v) = Task(w) /\ u = h
    BY <1>0, <1>1, <1>2, <1>3, <1>4, ContentsAre, ContentsNext, PlacesDiffer
  <2>3. \A v \in Workers, u \in Txns :
          At(u, Task(v))' <=> \/ At(u, Task(v)) /\ ~(Task(v) = Queue(w) /\ u = h)
                              \/ Task(v) = Task(w) /\ u = h
    BY <1>0, <1>1, <1>2, <1>3, <1>4, ContentsAre, ContentsNext, PlacesDiffer
  <2> QED
    BY <2>1, <2>2, <2>3, MovesByName
<1>6. h \in requested
  BY <1>0, <1>1, PlacesAre DEF Requested
<1>7. Unshared' /\ Requested' /\ Quiet'
  BY <1>0, <1>1, <1>5, <1>6, PlacesAre, PlacesDiffer, MoveKeeps
<1>8. /\ queues_' \in [Workers -> Seq(Txns)] /\ \A v \in Workers : IsInjective(queues_'[v])
      /\ task' \in [Workers -> Txns \union {None}]
  BY <1>0, <1>1, <1>2, <1>3 DEF Distinct
<1> QED
  BY <1>0, <1>7, <1>8 DEF Kept, QueueTypes, Distinct

LEMMA HandBackKeeps ==
  ASSUME IInv, NEW w \in Workers, HandBack(w)
  PROVE  Kept'
<1>0. /\ QueueTypes /\ Distinct /\ Unshared /\ Requested /\ Quiet /\ Executing /\ opc' = opc
      /\ wpc[w] = "push" /\ completed_txns_ \in Seq(Txns)
      /\ task \in [Workers -> Txns \union {None}] /\ task' = [task EXCEPT ![w] = None]
      /\ UNCHANGED <<requested, received, txn_requests_, ready_txns_, txn_results_, queues_>>
  BY DEF IInv, QueueTypes, HandBack, ownerVars
<1>1. PICK h \in Txns : /\ h = task[w] /\ At(h, Task(w))
                        /\ completed_txns_' = Append(completed_txns_, h)
  BY <1>0, ContentsAre DEF Executing, HandBack
<1>2. task'[w] = None /\ \A v \in Workers \ {w} : task'[v] = task[v]
  BY <1>0
<1>3. h \notin ToSet(completed_txns_)
  BY <1>0, <1>1, PlacesAre, PlacesDiffer, ContentsAre DEF Unshared
<1>4. /\ completed_txns_' \in Seq(Txns) /\ IsInjective(completed_txns_')
      /\ ToSet(completed_txns_') = ToSet(completed_txns_) \union {h}
  BY <1>0, <1>1, <1>3, AppendToQueue DEF Distinct
<1>5. Moves(h, Task(w), Completed)
  BY <1>0, <1>1, <1>2, <1>4, NamesAssumption, ContentsAre, ContentsNext, PlacesDiffer,
    MovesByName
<1>6. h \in requested
  BY <1>0, <1>1, PlacesAre DEF Requested
<1>7. Unshared' /\ Requested' /\ Quiet'
  BY <1>0, <1>1, <1>5, <1>6, PlacesAre, PlacesDiffer, MoveKeeps
<1> QED
  BY <1>0, <1>2, <1>4, <1>7 DEF Kept, QueueTypes, Distinct

(* An owner that has all its results finds every transaction received. *)
LEMMA DeleteKeeps ==
  ASSUME IInv, Delete
  PROVE  Kept'
<1>0. /\ QueueTypes /\ Distinct /\ Unshared /\ Requested
      /\ CollectAll => received = requested
      /\ UNCHANGED <<txnQueues, queues_, task, received, requested>>
  BY DEF IInv, Delete, workerVars
<1>1. \A t, p : At(t, p)' <=> At(t, p)
  BY <1>0 DEF At, Contents, txnQueues
<1>2. ASSUME CollectAll, NEW t \in Txns, NEW p \in Places, At(t, p) PROVE p = Received
  <2>1. t \in received
    BY <1>0, <1>2 DEF Requested
  <2> QED
    BY <1>0, <1>2, <2>1, PlacesAre, ContentsAre DEF Unshared
<1>3. Quiet'
  BY <1>1, <1>2 DEF Quiet, Places
<1> QED
  BY <1>0, <1>3, StayKeeps DEF Kept, QueueTypes, txnQueues

(* The steps that leave every transaction where it is, and are not the
   beginning of the destructor. *)
LEMMA OtherKeeps ==
  ASSUME IInv, UNCHANGED <<txnQueues, queues_, task, received, requested>>,
         opc' \in InUse \/ opc \notin InUse
  PROVE  Kept'
<1>1. QueueTypes /\ Distinct /\ Unshared /\ Requested /\ Quiet
  BY DEF IInv
<1> QED
  BY <1>1, StayKeeps DEF Kept, QueueTypes, txnQueues

LEMMA PlacesStep ==
  ASSUME IInv, [Next]_vars
  PROVE  Kept'
<1>1. CASE CreateScheduler \/ CreateSchedulerFails
  BY <1>1, OtherKeeps DEF CreateScheduler, CreateSchedulerFails, workerVars, InUse
<1>2. CASE ClearStopped
  BY <1>2, OtherKeeps DEF ClearStopped, workerVars, InUse
<1>3. CASE GetTxnResult
  BY <1>3, ResultKeeps
<1>4. CASE JoinScheduler \/ JoinUndefined
  BY <1>4, OtherKeeps DEF JoinScheduler, JoinUndefined, workerVars, InUse
<1>5. CASE DeleteStorage \/ DestroyQueues
  BY <1>5, OtherKeeps DEF DeleteStorage, DestroyQueues, Destroy, workerVars, InUse
<1>6. CASE StopPool \/ JoinPool
  BY <1>6, OtherKeeps DEF StopPool, JoinPool, workerVars, InUse
<1>7. CASE \E t \in Txns : NewTxnRequest(t)
  BY <1>7, RequestKeeps
<1>8. CASE Delete
  BY <1>8, DeleteKeeps
<1>9. CASE CheckStopped \/ NoneCompleted \/ NoneReady
  BY <1>9, OtherKeeps DEF CheckStopped, NoneCompleted, NoneReady, ownerVars, workerVars, InUse
<1>10. CASE PopRequest
  BY <1>10, PopKeeps
<1>11. CASE PopCompleted
  BY <1>11, CompletedKeeps
<1>12. CASE \E w \in Workers : Dispatch(w)
  BY <1>12, DispatchKeeps
<1>13. CASE \E w \in Workers : TakeTask(w)
  BY <1>13, TaskKeeps
<1>14. CASE \E w \in Workers : HandBack(w)
  BY <1>14, HandBackKeeps
<1>15. CASE \E w \in Workers : NoTask(w) \/ ReadStorage(w)
  BY <1>15, OtherKeeps DEF NoTask, ReadStorage, ownerVars, InUse
<1>16. CASE \E w \in Workers : CheckPoolStopped(w) \/ LeaveThread(w)
  BY <1>16, OtherKeeps DEF CheckPoolStopped, LeaveThread, ownerVars, InUse
<1>17. CASE Terminated \/ UNCHANGED vars
  BY <1>17, OtherKeeps DEF Terminated, vars, ownerVars, workerVars, InUse
<1> QED
  BY <1>1, <1>2, <1>3, <1>4, <1>5, <1>6, <1>7, <1>8, <1>9, <1>10, <1>11, <1>12, <1>13,
    <1>14, <1>15, <1>16, <1>17 DEF Next, OwnerStep, Failure, SchedulerStep, WorkerStep

-----------------------------------------------------------------------------
(* The program counters and the objects, in every step. *)
LEMMA OwnerControl ==
  ASSUME IInv,
         \/ OwnerStep \/ Failure \/ Delete \/ \E t \in Txns : NewTxnRequest(t)
  PROVE  Types' /\ Executing' /\ Control'
<1>0. Types /\ QueueTypes /\ Executing /\ Control
  BY DEF IInv
<1> USE <1>0
<1>1. CASE CreateScheduler \/ CreateSchedulerFails
  BY <1>1 DEF CreateScheduler, CreateSchedulerFails, workerVars, Types, Executing, Control,
    InUse, OwnerPlaces
<1>2. CASE ClearStopped
  BY <1>2 DEF ClearStopped, workerVars, Types, Executing, Control, InUse, OwnerPlaces
<1>3. CASE GetTxnResult
  <2>1. Head(txn_results_) \in Txns
    BY <1>3 DEF GetTxnResult, QueueTypes
  <2> QED
    BY <1>3, <2>1 DEF GetTxnResult, workerVars, Types, Executing, Control, InUse, OwnerPlaces
<1>4. CASE JoinScheduler \/ JoinUndefined
  BY <1>4 DEF JoinScheduler, JoinUndefined, workerVars, Types, Executing, Control, InUse,
    OwnerPlaces
<1>5. CASE DeleteStorage \/ DestroyQueues
  BY <1>5 DEF DeleteStorage, DestroyQueues, Destroy, workerVars, Types, Executing, Control,
    InUse, OwnerPlaces
<1>6. CASE StopPool \/ JoinPool
  BY <1>6 DEF StopPool, JoinPool, workerVars, Types, Executing, Control, InUse, OwnerPlaces
<1>7. CASE \E t \in Txns : NewTxnRequest(t)
  BY <1>7 DEF NewTxnRequest, workerVars, Types, Executing, Control, InUse, OwnerPlaces
<1>8. CASE Delete
  BY <1>8 DEF Delete, workerVars, Types, Executing, Control, InUse, OwnerPlaces
<1> QED
  BY <1>1, <1>2, <1>3, <1>4, <1>5, <1>6, <1>7, <1>8 DEF OwnerStep, Failure

LEMMA SchedulerControl ==
  ASSUME IInv, SchedulerStep
  PROVE  Types' /\ Executing' /\ Control'
<1>0. /\ Types /\ Executing /\ Control
      /\ spc' \in {"stopped", "request", "drain", "dispatch", "exited"}
      /\ spc \notin {"exited", "none"} /\ UNCHANGED <<ownerVars, workerVars>>
  BY DEF IInv, SchedulerStep, CheckStopped, PopRequest, PopCompleted, NoneCompleted, Dispatch,
    NoneReady
<1> QED
  BY <1>0 DEF Types, Executing, Control, ownerVars, workerVars

LEMMA WorkerControl ==
  ASSUME IInv, NEW w \in Workers, WorkerStep(w)
  PROVE  Types' /\ Executing' /\ Control'
<1>0. /\ Types /\ QueueTypes /\ Executing /\ Control
      /\ UNCHANGED <<ownerVars, spc>>
  BY DEF IInv, WorkerStep, TakeTask, NoTask, ReadStorage, HandBack, CheckPoolStopped, LeaveThread
<1>1. PICK c : /\ wpc' = [wpc EXCEPT ![w] = c]
               /\ c \in {"poll", "read", "push", "check", "drain", "exited"}
               /\ task'[w] # None <=> c \in {"read", "push"}
               /\ \A v \in Workers \ {w} : task'[v] = task[v]
  <2>1. CASE TakeTask(w)
    <3>1. Head(queues_[w]) \in Txns
      BY <1>0, <2>1 DEF TakeTask, QueueTypes
    <3> QED
      BY <1>0, <2>1, <3>1, NamesAssumption DEF TakeTask, QueueTypes
  <2>2. CASE HandBack(w)
    BY <1>0, <2>2 DEF HandBack, QueueTypes
  <2>3. CASE NoTask(w)
    BY <1>0, <2>3 DEF NoTask, Executing
  <2>4. CASE ReadStorage(w)
    BY <1>0, <2>4 DEF ReadStorage, Executing
  <2>5. CASE CheckPoolStopped(w)
    <3>1. CASE pool_stopped_
      BY <1>0, <2>5, <3>1 DEF CheckPoolStopped, Executing
    <3>2. CASE ~pool_stopped_
      BY <1>0, <2>5, <3>2 DEF CheckPoolStopped, Executing
    <3> QED
      BY <3>1, <3>2
  <2>6. CASE LeaveThread(w)
    BY <1>0, <2>6 DEF LeaveThread, Executing
  <2> QED
    BY <2>1, <2>2, <2>3, <2>4, <2>5, <2>6 DEF WorkerStep
<1>2. wpc'[w] = c /\ \A v \in Workers \ {w} : wpc'[v] = wpc[v]
  BY <1>0, <1>1 DEF Types
<1>3. Executing'
  BY <1>0, <1>1, <1>2 DEF Executing
<1> QED
  BY <1>0, <1>1, <1>3 DEF Types, Control, ownerVars

LEMMA ControlStep ==
  ASSUME IInv, [Next]_vars
  PROVE  Types' /\ Executing' /\ Control'
<1>1. CASE Terminated \/ UNCHANGED vars
  BY <1>1 DEF Terminated, IInv, vars, ownerVars, workerVars, Types, Executing, Control
<1> QED
  BY <1>1, OwnerControl, SchedulerControl, WorkerControl DEF Next

-----------------------------------------------------------------------------
LEMMA IInvInit ==
  Init => IInv
<1> SUFFICES ASSUME Init PROVE IInv
  OBVIOUS
<1>1. Types /\ Executing /\ Control
  BY LifecycleAssumption DEF Init, Types, Executing, Control, OwnerPlaces, InUse
<1>2. QueueTypes /\ Distinct
  BY EmptyQueue DEF Init, QueueTypes, Distinct
<1>3. \A t \in Txns, p \in Places : ~At(t, p)
  BY PlacesAre, ContentsAre, EmptyQueue, NamesAssumption DEF Init
<1> QED
  BY <1>1, <1>2, <1>3 DEF IInv, Unshared, Requested, Quiet

LEMMA IInvStep ==
  IInv /\ [Next]_vars => IInv'
  BY PlacesStep, ControlStep DEF IInv, Kept

(* The types, and that a result was requested. *)
LEMMA IInvTypes ==
  IInv => TypeOK
<1> SUFFICES ASSUME IInv PROVE TypeOK
  OBVIOUS
<1>1. Types /\ QueueTypes /\ Requested
  BY DEF IInv
<1>2. received \subseteq requested
  BY <1>1, PlacesAre, ContentsAre DEF Types, Requested
<1> QED
  BY <1>1, <1>2 DEF TypeOK, Types, QueueTypes, OwnerPlaces

(* The scheduler is at work only while the destructor still waits for it. *)
LEMMA SchedulerAlive ==
  IInv => (spc \in {"request", "drain", "dispatch"} => alive = {"storage", "queues"})
  BY DEF IInv, Types, Control, OwnerPlaces, InUse

(* A thread that executes a transaction has it; so the owner does not. *)
LEMMA WorkersAlive ==
  ASSUME CollectAll, IInv, NEW w \in Workers, wpc[w] \in {"read", "push"}
  PROVE  alive = {"storage", "queues"}
<1>1. task[w] \in Txns
  BY DEF IInv, QueueTypes, Executing
<1>2. At(task[w], Task(w)) /\ Task(w) \in Places /\ Task(w) # Received
  BY <1>1, ContentsAre, PlacesAre, PlacesDiffer
<1>3. opc \in InUse
  BY <1>1, <1>2 DEF IInv, Quiet
<1> QED
  BY <1>3 DEF IInv, Control

LEMMA IInvUse ==
  CollectAll /\ IInv => NoUseAfterDestroy
  BY SchedulerAlive, WorkersAlive DEF NoUseAfterDestroy

-----------------------------------------------------------------------------
(* The inductive invariant, with any number of transactions and of threads,
   whatever stopped_ holds at first. *)
THEOREM Invariant == Spec => []IInv
<1> QED
  BY IInvInit, IInvStep, PTL DEF Spec

(* Every variable has its type, and no result is of a transaction that was not
   requested. *)
THEOREM TypeCorrect == Spec => []TypeOK
<1> QED
  BY Invariant, IInvTypes, PTL

(* txn_processor.cc:60: with an owner that has collected its results, as the
   benchmark does, no thread of the pool and not the scheduler is about to use
   what the destructor has freed. *)
THEOREM FreesNothingInUse ==
  ASSUME CollectAll
  PROVE  Spec => []NoUseAfterDestroy
<1>1. IInv => NoUseAfterDestroy
  BY IInvUse
<1> QED
  BY <1>1, Invariant, PTL

(* txn_processor.cc:60-70: even with an owner that has not, the scheduler is
   joined before anything it uses is freed. *)
SchedulerUsesTheLiving ==
  spc \in {"request", "drain", "dispatch"} => alive = {"storage", "queues"}

THEOREM JoinsBeforeItFrees == Spec => []SchedulerUsesTheLiving
<1>1. IInv => SchedulerUsesTheLiving
  BY SchedulerAlive DEF SchedulerUsesTheLiving
<1> QED
  BY <1>1, Invariant, PTL
===============================================================================
