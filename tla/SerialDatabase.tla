--------------------------- MODULE SerialDatabase ---------------------------
(***************************************************************************)
(* What a client may expect of a TxnProcessor, whatever its mode: every    *)
(* requested transaction is run once, at one instant, against the effects  *)
(* of exactly the transactions that committed before it; it gets one       *)
(* verdict, and is handed back once.  Nothing is said of the order in      *)
(* which transactions that were requested together are run.                *)
(***************************************************************************)
EXTENDS TxnTypes

CONSTANTS
  Txns,          \* the transactions the clients have
  InitialStore   \* the records InitStorage creates

VARIABLES
  program,    \* what each transaction does; the clients' choice
  db,         \* the records after the transactions committed so far
  requested,  \* transactions passed to NewTxnRequest
  outcome,    \* every transaction as it is when it has its verdict
  delivered   \* transactions GetTxnResult has returned

dbVars == <<program, db, requested, outcome, delivered>>

Init ==
  /\ db = InitialStore
  /\ requested = {}
  /\ outcome = [t \in Txns |-> NewTxn]
  /\ delivered = {}

Request(t) ==
  /\ t \notin requested
  /\ requested' = requested \union {t}
  /\ UNCHANGED <<program, db, outcome, delivered>>

Execute(t) ==
  LET ran == RunOn(program[t], NewTxn, db)
  IN  /\ t \in requested
      /\ outcome[t] = NewTxn
      /\ outcome' = [outcome EXCEPT ![t] = Verdict(ran)]
      /\ db' = IF ran.status_ = "COMPLETED_C" THEN Applied(ran, db) ELSE db
      /\ UNCHANGED <<program, requested, delivered>>

Deliver(t) ==
  /\ outcome[t] # NewTxn
  /\ t \notin delivered
  /\ delivered' = delivered \union {t}
  /\ UNCHANGED <<program, db, requested, outcome>>

Next == \E t \in Txns : Request(t) \/ Execute(t) \/ Deliver(t)

Spec ==
  /\ Init
  /\ [][Next]_dbVars
  /\ \A t \in Txns : WF_dbVars(Execute(t)) /\ WF_dbVars(Deliver(t))
=============================================================================
