-------------------------- MODULE LockingScheduler --------------------------
(***************************************************************************)
(* A TxnProcessor in mode LOCKING or LOCKING_EXCLUSIVE_ONLY: the clients   *)
(* that call NewTxnRequest and GetTxnResult, the scheduler thread in       *)
(* RunLockingScheduler, and the threads of the pool, which run ExecuteTxn. *)
(*                                                                         *)
(* The scheduler asks for all the locks of a transaction before it looks   *)
(* at anything else, so it alone touches the lock manager, ready_txns_ and *)
(* the writes to storage; it shares with the workers their queues,         *)
(* completed_txns_, the size of committed_txns_, and data_ without a lock. *)
(* A worker reads data_ record by record, the scheduler writes it record   *)
(* by record, and nothing but the lock manager keeps the two apart.        *)
(*                                                                         *)
(* Each queue operation is one action, as its mutex makes it; each loop    *)
(* over a read or write set is one action for every call in its body.      *)
(***************************************************************************)
EXTENDS TxnTypes, LockManager

CONSTANTS
  Txns,          \* BOUND: the transactions the clients request, each once
  Keys,          \* BOUND: the keys they use; numbers, for a set iterates in order
  Values,        \* BOUND: the values a record takes in these programs
  Programs,      \* BOUND: the programs the clients may give their transactions
  InitialStore,  \* the records InitStorage creates
  Workers,       \* the threads of the pool (THREAD_COUNT)
  Linked         \* the lock managers the processor may be linked with

ASSUME LockingSchedulerAssumption ==
  /\ Keys \subseteq Nat
  /\ InitialStore \in UNION {[S -> Values] : S \in SUBSET Keys}
  /\ \A p \in Programs : \A t \in Txns : KeySet(p[t]) \subseteq Keys
  /\ Workers # {}
  /\ Linked \subseteq LockManagers

(* A write never creates a record: inserting into the unordered_map of a
   Storage while a worker reads it has no defined outcome to model. *)
ASSUME NoInsertAssumption ==
  \A p \in Programs : \A t \in Txns : WriteSet(p[t]) \subseteq DOMAIN InitialStore

(* A transaction asks for no key twice, once to read and once to write, which
   lock_manager.h:37, 45 rules out: a key it reads and writes is in its write
   set only (what Txn::CheckReadWriteSets is there to test). *)
ASSUME DisjointSetsAssumption ==
  \A p \in Programs : \A t \in Txns : ReadSet(p[t]) \cap WriteSet(p[t]) = {}

None == "none"   \* a worker without a task; the scheduler without a transaction

ASSUME NamesAssumption == None \notin Txns

VARIABLES
  lm,              \* the lock manager it is linked with
  program,         \* what each transaction does
  pc,              \* where the scheduler thread is in its loop
  txn,             \* its local variables: the transaction it popped last,
  blocked,         \*   whether a lock of it was not granted at once,
  todo,            \*   and what is left of the loop over its keys
  txn_requests_, ready_txns_, completed_txns_, committed_txns_, txn_results_,
  next_unique_id_,
  unique_id_,      \* of every transaction; 0 before it is requested
  occ_start_idx_,
  txns,            \* status_, reads_ and writes_ of every transaction
  data_,           \* the records of storage_
  lock_table_,
  queues_,         \* the task queue of every worker
  task,            \* the transaction each worker executes
  scan,            \* what is left of the worker's loops over its keys
  received         \* transactions GetTxnResult has returned

fixed         == <<lm, program>>
clientVars    == <<next_unique_id_, unique_id_, received>>
schedulerVars == <<pc, txn, blocked, todo>>
workerVars    == <<task, scan, occ_start_idx_>>
vars == <<fixed, clientVars, schedulerVars, workerVars, txn_requests_,
          ready_txns_, completed_txns_, committed_txns_, txn_results_, txns, data_,
          lock_table_, queues_>>

(* Two loops, over a read set and then over a write set. *)
NoLoop     == [read |-> {}, write |-> {}]
LoopsOf(p) == [read |-> ReadSet(p), write |-> WriteSet(p)]
ModeOf(l)  == IF l.read # {} THEN "SHARED" ELSE "EXCLUSIVE"
KeyOf(l)   == Min(IF l.read # {} THEN l.read ELSE l.write)
Rest(l)    == IF l.read # {} THEN [l EXCEPT !.read = @ \ {KeyOf(l)}]
                             ELSE [l EXCEPT !.write = @ \ {KeyOf(l)}]

Running == pc # "dead"   \* DIE ends the whole process

Init ==
  /\ lm \in Linked
  /\ program \in Programs
  /\ pc = "pop"
  /\ txn = None
  /\ blocked = FALSE
  /\ todo = NoLoop
  /\ txn_requests_ = <<>>
  /\ ready_txns_ = <<>>
  /\ completed_txns_ = <<>>
  /\ committed_txns_ = <<>>
  /\ txn_results_ = <<>>
  /\ next_unique_id_ = 1
  /\ unique_id_ = [t \in Txns |-> 0]
  /\ occ_start_idx_ = [t \in Txns |-> 0]
  /\ txns = [t \in Txns |-> NewTxn]
  /\ data_ = InitialStore
  /\ lock_table_ = [k \in Keys |-> <<>>]
  /\ queues_ = [w \in Workers |-> <<>>]
  /\ task = [w \in Workers |-> None]
  /\ scan = [w \in Workers |-> NoLoop]
  /\ received = {}

-----------------------------------------------------------------------------
(* Mutants: the mistakes the properties below are there to catch.  Each takes
   the place of the definition named in its comment; none is part of Spec. *)

(* NewTxnRequest that is served before the requests already waiting. *)
RequestPushedFirst(t) ==
  /\ Running
  /\ unique_id_[t] = 0
  /\ unique_id_' = [unique_id_ EXCEPT ![t] = next_unique_id_]
  /\ next_unique_id_' = next_unique_id_ + 1
  /\ txn_requests_' = <<t>> \o txn_requests_
  /\ UNCHANGED <<fixed, received, schedulerVars, workerVars, ready_txns_,
                 completed_txns_, committed_txns_, txn_results_, txns, data_,
                 lock_table_, queues_>>

(* RequestLock whose last call alone decides whether the txn is blocked. *)
LastLockDecides ==
  /\ pc = "lock"
  /\ todo # NoLoop
  /\ lock_table_' = Requested(lm, lock_table_, txn, KeyOf(todo), ModeOf(todo))
  /\ blocked' = ~RequestGranted(lm, lock_table_, txn, KeyOf(todo), ModeOf(todo))
  /\ todo' = Rest(todo)
  /\ UNCHANGED <<fixed, clientVars, workerVars, pc, txn, txn_requests_,
                 ready_txns_, completed_txns_, committed_txns_, txn_results_,
                 txns, data_, queues_>>

(* QueueUnlessBlocked without its test. *)
QueueAlways ==
  /\ pc = "lock"
  /\ todo = NoLoop
  /\ ready_txns_' = Append(ready_txns_, txn)
  /\ pc' = "drain"
  /\ UNCHANGED <<fixed, clientVars, workerVars, txn, blocked, todo,
                 txn_requests_, completed_txns_, committed_txns_, txn_results_,
                 txns, data_, lock_table_, queues_>>

(* ReleaseLock that leaves the transactions it made ready where they are. *)
ReleaseQuietly ==
  /\ pc = "release"
  /\ todo # NoLoop
  /\ lock_table_' = Released(lock_table_, txn, KeyOf(todo))
  /\ todo' = Rest(todo)
  /\ UNCHANGED <<fixed, clientVars, workerVars, pc, txn, blocked, txn_requests_,
                 ready_txns_, completed_txns_, committed_txns_, txn_results_,
                 txns, data_, queues_>>

(* ReturnResult of what the client already had: the result is pushed twice. *)
ReturnTwice ==
  /\ pc = "release"
  /\ todo = NoLoop
  /\ txn_results_' = txn_results_ \o <<txn, txn>>
  /\ pc' = "drain"
  /\ UNCHANGED <<fixed, clientVars, workerVars, txn, blocked, todo,
                 txn_requests_, ready_txns_, completed_txns_, committed_txns_,
                 txns, data_, lock_table_, queues_>>

(* ReturnResult of committed transactions only. *)
ReturnCommitted ==
  /\ pc = "release"
  /\ todo = NoLoop
  /\ txn_results_' = IF txns[txn].status_ = "COMMITTED"
                       THEN Append(txn_results_, txn) ELSE txn_results_
  /\ pc' = "drain"
  /\ UNCHANGED <<fixed, clientVars, workerVars, txn, blocked, todo,
                 txn_requests_, ready_txns_, completed_txns_, committed_txns_,
                 txns, data_, lock_table_, queues_>>

(* StartTask whose transaction will not read what it is going to overwrite. *)
ScanReadSetOnly(w) ==
  /\ Running
  /\ task[w] = None
  /\ queues_[w] # <<>>
  /\ task' = [task EXCEPT ![w] = Head(queues_[w])]
  /\ queues_' = [queues_ EXCEPT ![w] = Tail(@)]
  /\ occ_start_idx_' =
       [occ_start_idx_ EXCEPT ![Head(queues_[w])] = Len(committed_txns_)]
  /\ scan' = [scan EXCEPT ![w] =
       [NoLoop EXCEPT !.read = ReadSet(program[Head(queues_[w])])]]
  /\ UNCHANGED <<fixed, clientVars, schedulerVars, txn_requests_, ready_txns_,
                 completed_txns_, committed_txns_, txn_results_, txns, data_,
                 lock_table_>>

-----------------------------------------------------------------------------
(* The clients. *)
NewTxnRequest(t) ==
  /\ Running
  /\ unique_id_[t] = 0
  /\ unique_id_' = [unique_id_ EXCEPT ![t] = next_unique_id_]
  /\ next_unique_id_' = next_unique_id_ + 1
  /\ txn_requests_' = Append(txn_requests_, t)
  /\ UNCHANGED <<fixed, received, schedulerVars, workerVars, ready_txns_,
                 completed_txns_, committed_txns_, txn_results_, txns, data_,
                 lock_table_, queues_>>

GetTxnResult ==
  /\ Running
  /\ txn_results_ # <<>>
  /\ received' = received \union {Head(txn_results_)}
  /\ txn_results_' = Tail(txn_results_)
  /\ UNCHANGED <<fixed, next_unique_id_, unique_id_, schedulerVars, workerVars,
                 txn_requests_, ready_txns_, completed_txns_, committed_txns_,
                 txns, data_, lock_table_, queues_>>

-----------------------------------------------------------------------------
(* The scheduler thread: RunLockingScheduler. *)
PopRequest ==
  /\ pc = "pop"
  /\ txn_requests_ # <<>>
  /\ txn' = Head(txn_requests_)
  /\ txn_requests_' = Tail(txn_requests_)
  /\ blocked' = FALSE
  /\ todo' = LoopsOf(program[txn'])
  /\ pc' = "lock"
  /\ UNCHANGED <<fixed, clientVars, workerVars, ready_txns_, completed_txns_,
                 committed_txns_, txn_results_, txns, data_, lock_table_,
                 queues_>>

NoRequest ==
  /\ pc = "pop"
  /\ txn_requests_ = <<>>
  /\ pc' = "drain"
  /\ UNCHANGED <<fixed, clientVars, workerVars, txn, blocked, todo,
                 txn_requests_, ready_txns_, completed_txns_, committed_txns_,
                 txn_results_, txns, data_, lock_table_, queues_>>

(* The next ReadLock or WriteLock of the two loops. *)
RequestLock ==
  /\ pc = "lock"
  /\ todo # NoLoop
  /\ lock_table_' = Requested(lm, lock_table_, txn, KeyOf(todo), ModeOf(todo))
  /\ blocked' = (blocked \/ ~RequestGranted(lm, lock_table_, txn,
                                            KeyOf(todo), ModeOf(todo)))
  /\ todo' = Rest(todo)
  /\ UNCHANGED <<fixed, clientVars, workerVars, pc, txn, txn_requests_,
                 ready_txns_, completed_txns_, committed_txns_, txn_results_,
                 txns, data_, queues_>>

QueueUnlessBlocked ==
  /\ pc = "lock"
  /\ todo = NoLoop
  /\ ready_txns_' = IF blocked THEN ready_txns_ ELSE Append(ready_txns_, txn)
  /\ pc' = "drain"
  /\ UNCHANGED <<fixed, clientVars, workerVars, txn, blocked, todo,
                 txn_requests_, completed_txns_, committed_txns_, txn_results_,
                 txns, data_, lock_table_, queues_>>

(* The next completed transaction goes by the verdict of its program: to
   ApplyWrites, to the release of its locks, or to DIE. *)
PopCompleted ==
  LET t       == Head(completed_txns_)
      verdict == txns[t].status_
  IN  /\ pc = "drain"
      /\ completed_txns_ # <<>>
      /\ txn' = t
      /\ completed_txns_' = Tail(completed_txns_)
      /\ pc' = CASE verdict = "COMPLETED_C" -> "apply"
                 [] verdict = "COMPLETED_A" -> "release"
                 [] OTHER -> "dead"
      /\ todo' = IF verdict = "COMPLETED_C"
                   THEN [NoLoop EXCEPT !.write = DOMAIN txns[t].writes_]
                   ELSE LoopsOf(program[t])
      /\ txns' = IF verdict = "COMPLETED_A"
                   THEN [txns EXCEPT ![t].status_ = "ABORTED"]
                   ELSE txns
      /\ UNCHANGED <<fixed, clientVars, workerVars, blocked, txn_requests_,
                     ready_txns_, committed_txns_, txn_results_, data_,
                     lock_table_, queues_>>

NoneCompleted ==
  /\ pc = "drain"
  /\ completed_txns_ = <<>>
  /\ pc' = "dispatch"
  /\ UNCHANGED <<fixed, clientVars, workerVars, txn, blocked, todo,
                 txn_requests_, ready_txns_, completed_txns_, committed_txns_,
                 txn_results_, txns, data_, lock_table_, queues_>>

(* One storage_->Write of ApplyWrites. *)
ApplyWrite ==
  /\ pc = "apply"
  /\ todo # NoLoop
  /\ data_' = [data_ EXCEPT ![KeyOf(todo)] = txns[txn].writes_[KeyOf(todo)]]
  /\ todo' = Rest(todo)
  /\ UNCHANGED <<fixed, clientVars, workerVars, pc, txn, blocked, txn_requests_,
                 ready_txns_, completed_txns_, committed_txns_, txn_results_,
                 txns, lock_table_, queues_>>

Commit ==
  /\ pc = "apply"
  /\ todo = NoLoop
  /\ committed_txns_' = Append(committed_txns_, txn)
  /\ txns' = [txns EXCEPT ![txn].status_ = "COMMITTED"]
  /\ todo' = LoopsOf(program[txn])
  /\ pc' = "release"
  /\ UNCHANGED <<fixed, clientVars, workerVars, txn, blocked, txn_requests_,
                 ready_txns_, completed_txns_, txn_results_, data_, lock_table_,
                 queues_>>

(* One lm_->Release, which may append to ready_txns_. *)
ReleaseLock ==
  /\ pc = "release"
  /\ todo # NoLoop
  /\ lock_table_' = Released(lock_table_, txn, KeyOf(todo))
  /\ ready_txns_' = ready_txns_ \o MadeReady(lock_table_, txn, KeyOf(todo))
  /\ todo' = Rest(todo)
  /\ UNCHANGED <<fixed, clientVars, workerVars, pc, txn, blocked, txn_requests_,
                 completed_txns_, committed_txns_, txn_results_, txns, data_,
                 queues_>>

ReturnResult ==
  /\ pc = "release"
  /\ todo = NoLoop
  /\ txn_results_' = Append(txn_results_, txn)
  /\ pc' = "drain"
  /\ UNCHANGED <<fixed, clientVars, workerVars, txn, blocked, todo,
                 txn_requests_, ready_txns_, completed_txns_, committed_txns_,
                 txns, data_, lock_table_, queues_>>

(* AddTask: any worker's queue, whichever rand() and TryLock come to. *)
Dispatch(w) ==
  /\ pc = "dispatch"
  /\ ready_txns_ # <<>>
  /\ txn' = Head(ready_txns_)
  /\ ready_txns_' = Tail(ready_txns_)
  /\ queues_' = [queues_ EXCEPT ![w] = Append(@, txn')]
  /\ UNCHANGED <<fixed, clientVars, workerVars, pc, blocked, todo,
                 txn_requests_, completed_txns_, committed_txns_, txn_results_,
                 txns, data_, lock_table_>>

NoneReady ==
  /\ pc = "dispatch"
  /\ ready_txns_ = <<>>
  /\ pc' = "pop"
  /\ UNCHANGED <<fixed, clientVars, workerVars, txn, blocked, todo,
                 txn_requests_, ready_txns_, completed_txns_, committed_txns_,
                 txn_results_, txns, data_, lock_table_, queues_>>

SchedulerStep ==
  \/ PopRequest \/ NoRequest
  \/ RequestLock \/ QueueUnlessBlocked
  \/ PopCompleted \/ NoneCompleted
  \/ ApplyWrite \/ Commit
  \/ ReleaseLock \/ ReturnResult
  \/ \E w \in Workers : Dispatch(w)
  \/ NoneReady

-----------------------------------------------------------------------------
(* The threads of the pool: ExecuteTxn. *)
StartTask(w) ==
  /\ Running
  /\ task[w] = None
  /\ queues_[w] # <<>>
  /\ task' = [task EXCEPT ![w] = Head(queues_[w])]
  /\ queues_' = [queues_ EXCEPT ![w] = Tail(@)]
  /\ occ_start_idx_' =
       [occ_start_idx_ EXCEPT ![Head(queues_[w])] = Len(committed_txns_)]
  /\ scan' = [scan EXCEPT ![w] = LoopsOf(program[Head(queues_[w])])]
  /\ UNCHANGED <<fixed, clientVars, schedulerVars, txn_requests_, ready_txns_,
                 completed_txns_, committed_txns_, txn_results_, txns, data_,
                 lock_table_>>

ReadRecord(w) ==
  /\ Running
  /\ scan[w] # NoLoop
  /\ txns' = [txns EXCEPT ![task[w]] = SaveRead(@, data_, KeyOf(scan[w]))]
  /\ scan' = [scan EXCEPT ![w] = Rest(@)]
  /\ UNCHANGED <<fixed, clientVars, schedulerVars, task, occ_start_idx_,
                 txn_requests_, ready_txns_, completed_txns_, committed_txns_,
                 txn_results_, data_, lock_table_, queues_>>

RunAndHandBack(w) ==
  /\ Running
  /\ task[w] # None
  /\ scan[w] = NoLoop
  /\ txns' = [txns EXCEPT ![task[w]] = Run(program[task[w]], @)]
  /\ completed_txns_' = Append(completed_txns_, task[w])
  /\ task' = [task EXCEPT ![w] = None]
  /\ UNCHANGED <<fixed, clientVars, schedulerVars, scan, occ_start_idx_,
                 txn_requests_, ready_txns_, committed_txns_, txn_results_,
                 data_, lock_table_, queues_>>

WorkerStep(w) == StartTask(w) \/ ReadRecord(w) \/ RunAndHandBack(w)

Next ==
  \/ \E t \in Txns : NewTxnRequest(t)
  \/ GetTxnResult
  \/ SchedulerStep
  \/ \E w \in Workers : WorkerStep(w)

(* The scheduler thread and the workers are pthreads that never block, and
   the clients collect their results; nobody has to request anything. *)
Fairness ==
  /\ WF_vars(SchedulerStep)
  /\ WF_vars(GetTxnResult)
  /\ \A w \in Workers : WF_vars(WorkerStep(w))

Spec == Init /\ [][Next]_vars /\ Fairness

-----------------------------------------------------------------------------
TxnOrNone == Txns \union {None}
Loops     == [read : SUBSET Keys, write : SUBSET Keys]

(* Every variable has its type: the queues hold transactions, the loops run
   over keys, and DIE has not ended the process (txn_processor.cc:202). *)
TypeOK ==
  /\ lm \in Linked
  /\ program \in Programs
  /\ pc \in {"pop", "lock", "drain", "apply", "release", "dispatch"}
  /\ txn \in TxnOrNone
  /\ blocked \in BOOLEAN
  /\ todo \in Loops
  /\ txn_requests_ \in Seq(Txns)
  /\ ready_txns_ \in Seq(Txns)
  /\ completed_txns_ \in Seq(Txns)
  /\ committed_txns_ \in Seq(Txns)
  /\ txn_results_ \in Seq(Txns)
  /\ next_unique_id_ \in Nat \ {0}
  /\ unique_id_ \in [Txns -> Nat]
  /\ occ_start_idx_ \in [Txns -> Nat]
  /\ txns \in [Txns -> TxnRecords(Keys, Values)]
  /\ data_ \in [DOMAIN InitialStore -> Values]
  /\ lock_table_ \in [Keys -> Seq([txn_ : Txns, mode_ : {"SHARED", "EXCLUSIVE"}])]
  /\ queues_ \in [Workers -> Seq(Txns)]
  /\ task \in [Workers -> TxnOrNone]
  /\ scan \in [Workers -> Loops]
  /\ received \in SUBSET Txns

(* Transactions that were told all their locks are theirs, and still rely on
   them: from the ready queue until the last write is applied. *)
Active ==
  ToSet(ready_txns_) \union ToSet(completed_txns_)
    \union (UNION {ToSet(queues_[w]) : w \in Workers})
    \union ({task[w] : w \in Workers} \ {None})
    \union (IF pc = "apply" THEN {txn} ELSE {})

(* lock_manager.h:33-35, 41-43 with txn_processor.cc:177-181: two transactions
   one of which writes what the other uses are never ready, executing or being
   applied at the same time. *)
ConflictsExcluded ==
  \A t, u \in Active : t # u => ~Conflict(program[t], program[u])

(* lock_manager.h:70-76: an active transaction owns, in the lock table, every
   key it was constructed with, and alone the keys it may write. *)
LocksHeldWhileActive ==
  \A t \in Active :
    /\ \A k \in ReadSet(program[t]) : t \in ToSet(Owners(lock_table_[k]))
    /\ \A k \in WriteSet(program[t]) : Owners(lock_table_[k]) = <<t>>

(* A lock queue is in the order of unique_id_ (txn.h:102): a transaction waits
   for older ones only, which is why the scheduler needs no deadlock detection
   although it takes locks one by one (txn_processor.cc:160-175). *)
WaitsForOlder ==
  \A k \in Keys : \A i, j \in DOMAIN lock_table_[k] :
    i < j => unique_id_[lock_table_[k][i].txn_] < unique_id_[lock_table_[k][j].txn_]

(* Conflicting transactions commit in the order of their unique_id_, however
   the pool schedules them (txn_processor.cc:73-76, 190-193). *)
ConflictOrder ==
  \A i, j \in DOMAIN committed_txns_ :
    LET t == committed_txns_[i]
        u == committed_txns_[j]
    IN  i < j /\ Conflict(program[t], program[u]) => unique_id_[t] < unique_id_[u]

(* The places a pointer to t is at, from its request to its return to a client:
   positions of queues, and threads that have it in hand. *)
Positions(q, t) == {i \in DOMAIN q : q[i] = t}

Pointers(t) ==
  ({"txn_requests_"} \X Positions(txn_requests_, t))
    \union ({"ready_txns_"} \X Positions(ready_txns_, t))
    \union ({"completed_txns_"} \X Positions(completed_txns_, t))
    \union ({"txn_results_"} \X Positions(txn_results_, t))
    \union ({"queues_"} \X (UNION {{w} \X Positions(queues_[w], t) : w \in Workers}))
    \union ({"task"} \X {w \in Workers : task[w] = t})
    \union ({"txn"} \X {u \in {txn} : u = t /\ pc \in {"lock", "apply", "release"}})
    \union ({"received"} \X (received \cap {t}))

(* The scheduler owns what it is given (txn_processor.h:48-53): a requested
   transaction is in one queue, or in the hands of one thread, or waits for a
   lock, or was returned; none is lost and none is executed or returned twice. *)
InOnePlace ==
  \A t \in Txns : unique_id_[t] # 0 =>
    IF Waiting(lock_table_, t) /\ ~(pc = "lock" /\ txn = t)
      THEN Pointers(t) = {}
      ELSE \E p \in Pointers(t) : Pointers(t) = {p}

(* GetTxnResult returns every transaction that was requested. *)
EveryRequestAnswered ==
  \A t \in Txns : unique_id_[t] # 0 ~> t \in received

Final(t) == txns[t].status_ \in {"COMMITTED", "ABORTED"}

(* A transaction takes effect, all at once, when the scheduler goes by its
   verdict: until its writes are applied they count as if they were. *)
Outcome(t) ==
  CASE Final(t)                 -> txns[t]
    [] pc = "apply" /\ txn = t -> Verdict(txns[t])
    [] OTHER                    -> NewTxn

Records == IF pc = "apply" THEN Applied(txns[txn], data_) ELSE data_

Database == INSTANCE SerialDatabase WITH
  db        <- Records,
  requested <- {t \in Txns : unique_id_[t] # 0},
  outcome   <- [t \in Txns |-> Outcome(t)],
  delivered <- received

(* The processor is a serial database: every transaction reads, and returns to
   its client, what it would have if it had run alone when the scheduler
   committed or aborted it (txn_processor.h:48-53, 86-88). *)
RefinesSerialDatabase == Database!Spec
=============================================================================
