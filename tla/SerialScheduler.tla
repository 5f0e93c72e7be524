--------------------------- MODULE SerialScheduler ---------------------------
(***************************************************************************)
(* A TxnProcessor in a mode that runs RunSerialScheduler: SERIAL itself,   *)
(* and OCC and P_OCC, whose schedulers call it for now.  (So does MVCC's,  *)
(* over a storage whose Read and Write are still to be written.)           *)
(*                                                                         *)
(* The scheduler thread runs every transaction itself and alone touches    *)
(* the storage, so the reads and the program of a transaction are one      *)
(* action, and so are its writes and its verdict; the clients interleave   *)
(* with them through txn_requests_ and txn_results_.                       *)
(***************************************************************************)
EXTENDS TxnTypes, Sequences, SequencesExt

CONSTANTS
  Txns,          \* BOUND: the transactions the clients request, each once
  Keys,          \* BOUND: the keys they use
  Values,        \* BOUND: the values a record takes in these programs
  Program,       \* what each transaction does
  InitialStore   \* the records InitStorage creates

ASSUME SerialSchedulerAssumption ==
  /\ DOMAIN InitialStore \subseteq Keys
  /\ \A t \in Txns : KeySet(Program[t]) \subseteq Keys

None == "none"

VARIABLES
  pc,              \* where the scheduler thread is
  txn,             \* the transaction it popped last
  txn_requests_, completed_txns_, committed_txns_, txn_results_,
  next_unique_id_,
  unique_id_,      \* of every transaction; 0 before it is requested
  txns,            \* status_, reads_ and writes_ of every transaction
  data_,           \* the records of storage_
  received         \* transactions GetTxnResult has returned

clientVars == <<next_unique_id_, unique_id_, received>>
vars == <<clientVars, pc, txn, txn_requests_, completed_txns_, committed_txns_,
          txn_results_, txns, data_>>

Running == pc # "dead"   \* DIE ends the whole process

Init ==
  /\ pc = "pop"
  /\ txn = None
  /\ txn_requests_ = <<>>
  /\ completed_txns_ = <<>>
  /\ committed_txns_ = <<>>
  /\ txn_results_ = <<>>
  /\ next_unique_id_ = 1
  /\ unique_id_ = [t \in Txns |-> 0]
  /\ txns = [t \in Txns |-> NewTxn]
  /\ data_ = InitialStore
  /\ received = {}

-----------------------------------------------------------------------------
(* Mutants of NewTxnRequest and of Decide; none is part of Spec. *)

(* The newest request is served first. *)
RequestPushedFirst(t) ==
  /\ Running
  /\ unique_id_[t] = 0
  /\ unique_id_' = [unique_id_ EXCEPT ![t] = next_unique_id_]
  /\ next_unique_id_' = next_unique_id_ + 1
  /\ txn_requests_' = <<t>> \o txn_requests_
  /\ UNCHANGED <<received, pc, txn, completed_txns_, committed_txns_,
                 txn_results_, txns, data_>>

(* A transaction commits and its writes stay where they are buffered. *)
DecideUnapplied ==
  /\ pc = "decide"
  /\ txns' = [txns EXCEPT ![txn] = Verdict(@)]
  /\ committed_txns_' = IF txns[txn].status_ = "COMPLETED_C"
                          THEN Append(committed_txns_, txn) ELSE committed_txns_
  /\ pc' = "return"
  /\ UNCHANGED <<clientVars, txn, txn_requests_, completed_txns_, txn_results_,
                 data_>>

(* The test for COMPLETED_A is missing. *)
DecideOrDie ==
  /\ pc = "decide"
  /\ IF txns[txn].status_ = "COMPLETED_C"
       THEN /\ data_' = Applied(txns[txn], data_)
            /\ committed_txns_' = Append(committed_txns_, txn)
            /\ txns' = [txns EXCEPT ![txn].status_ = "COMMITTED"]
            /\ pc' = "return"
       ELSE pc' = "dead" /\ UNCHANGED <<data_, committed_txns_, txns>>
  /\ UNCHANGED <<clientVars, txn, txn_requests_, completed_txns_, txn_results_>>

(* An aborted transaction is dropped without a verdict. *)
DecideCommitsOnly ==
  /\ pc = "decide"
  /\ IF txns[txn].status_ = "COMPLETED_C"
       THEN /\ data_' = Applied(txns[txn], data_)
            /\ committed_txns_' = Append(committed_txns_, txn)
            /\ txns' = [txns EXCEPT ![txn].status_ = "COMMITTED"]
            /\ pc' = "return"
       ELSE pc' = "pop" /\ UNCHANGED <<data_, committed_txns_, txns>>
  /\ UNCHANGED <<clientVars, txn, txn_requests_, completed_txns_, txn_results_>>

-----------------------------------------------------------------------------
NewTxnRequest(t) ==
  /\ Running
  /\ unique_id_[t] = 0
  /\ unique_id_' = [unique_id_ EXCEPT ![t] = next_unique_id_]
  /\ next_unique_id_' = next_unique_id_ + 1
  /\ txn_requests_' = Append(txn_requests_, t)
  /\ UNCHANGED <<received, pc, txn, completed_txns_, committed_txns_,
                 txn_results_, txns, data_>>

GetTxnResult ==
  /\ Running
  /\ txn_results_ # <<>>
  /\ received' = received \union {Head(txn_results_)}
  /\ txn_results_' = Tail(txn_results_)
  /\ UNCHANGED <<next_unique_id_, unique_id_, pc, txn, txn_requests_,
                 completed_txns_, committed_txns_, txns, data_>>

(* The next request is popped, and ExecuteTxn runs it. *)
ExecuteNext ==
  /\ pc = "pop"
  /\ txn_requests_ # <<>>
  /\ txn' = Head(txn_requests_)
  /\ txn_requests_' = Tail(txn_requests_)
  /\ txns' = [txns EXCEPT ![txn'] = RunOn(Program[txn'], @, data_)]
  /\ completed_txns_' = Append(completed_txns_, txn')
  /\ pc' = "decide"
  /\ UNCHANGED <<clientVars, committed_txns_, txn_results_, data_>>

(* By the verdict of the program: ApplyWrites and commit, abort, or DIE. *)
Decide ==
  LET verdict == txns[txn].status_ IN
  /\ pc = "decide"
  /\ data_' = IF verdict = "COMPLETED_C"
                THEN Applied(txns[txn], data_) ELSE data_
  /\ committed_txns_' = IF verdict = "COMPLETED_C"
                          THEN Append(committed_txns_, txn) ELSE committed_txns_
  /\ txns' = IF verdict \in {"COMPLETED_C", "COMPLETED_A"}
               THEN [txns EXCEPT ![txn] = Verdict(@)] ELSE txns
  /\ pc' = IF verdict \in {"COMPLETED_C", "COMPLETED_A"} THEN "return"
                                                        ELSE "dead"
  /\ UNCHANGED <<clientVars, txn, txn_requests_, completed_txns_, txn_results_>>

ReturnResult ==
  /\ pc = "return"
  /\ txn_results_' = Append(txn_results_, txn)
  /\ pc' = "pop"
  /\ UNCHANGED <<clientVars, txn, txn_requests_, completed_txns_,
                 committed_txns_, txns, data_>>

SchedulerStep == ExecuteNext \/ Decide \/ ReturnResult

Next ==
  \/ \E t \in Txns : NewTxnRequest(t)
  \/ GetTxnResult
  \/ SchedulerStep

(* The scheduler polls and never blocks; the clients collect their results. *)
Spec == Init /\ [][Next]_vars /\ WF_vars(SchedulerStep) /\ WF_vars(GetTxnResult)

-----------------------------------------------------------------------------
(* Every variable has its type; DIE has not ended the process. *)
TypeOK ==
  /\ pc \in {"pop", "decide", "return"}
  /\ txn \in Txns \union {None}
  /\ \A q \in {txn_requests_, completed_txns_, committed_txns_, txn_results_} :
       q \in Seq(Txns)
  /\ next_unique_id_ \in Nat \ {0}
  /\ unique_id_ \in [Txns -> Nat]
  /\ txns \in [Txns -> TxnRecords(Keys, Values)]
  /\ DOMAIN data_ \subseteq Keys
  /\ \A k \in DOMAIN data_ : data_[k] \in Values
  /\ received \in SUBSET Txns

Final(t) == txns[t].status_ \in {"COMMITTED", "ABORTED"}

(* No transaction has its verdict before one with a smaller unique_id_, and
   none is returned before it has a verdict (txn_processor.cc:73-76, 118-146). *)
ServedInOrder ==
  /\ \A t, u \in Txns :
       unique_id_[t] \in 1..(unique_id_[u] - 1) /\ Final(u) => Final(t)
  /\ \A t \in received \union ToSet(txn_results_) : Final(t)

(* txn_processor.h:40-41, 52: the background scheduler turns every request into
   a result. *)
EveryRequestAnswered ==
  \A t \in Txns : unique_id_[t] # 0 ~> t \in received

Database == INSTANCE SerialDatabase WITH
  program   <- Program,
  db        <- data_,
  requested <- {t \in Txns : unique_id_[t] # 0},
  outcome   <- [t \in Txns |-> IF Final(t) THEN txns[t] ELSE NewTxn],
  delivered <- received

(* The processor is a serial database, which the modes that have no scheduler
   of their own yet fall back to (txn_processor.cc:276-278, 303-305). *)
RefinesSerialDatabase == Database!Spec
=============================================================================
