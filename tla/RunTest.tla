------------------------------ MODULE RunTest ------------------------------
(***************************************************************************)
(* run_test of assignment 1 (--test): two databases with the same contents *)
(* are made and requests generated, which a launcher executes against      *)
(* db_test, and then main, one by one, against db_simple; and the two      *)
(* databases are compared.                                                 *)
(*                                                                         *)
(* The launcher is any that keeps the promise of BoundedLauncher, each of  *)
(* whose steps is a step here; MaxRunning is max_outstanding + 1 for the   *)
(* thread launcher, and the number of requests for the process launcher.   *)
(* An executor runs Request::Execute, whose Lock and Unlock are empty, so  *)
(* that nothing keeps it from the records another one is updating.         *)
(*                                                                         *)
(* A record is one of its RECORD_SIZE / FIELD_SIZE fields: DoWrite updates *)
(* each of them on its own, with the same race.  `*rec_ptr += updates[i]`  *)
(* is a load and a store, between which others may store.                  *)
(***************************************************************************)
EXTENDS Integers, Sequences, FiniteSets, SequencesExt, FiniteSetsExt

CONSTANTS
  Records,      \* BOUND: the records of a database (test_db_sz)
  NumRequests,  \* BOUND: the requests of the test (num_requests)
  TxnSize,      \* TXN_SZ
  Draws,        \* BOUND: the keys rand() may give for every request,
  updates_,     \*   what it gives for its updates,
  Random,       \*   and for the records of each database
  Modulus,      \* 2^64 in the code: a field is an unsigned integer
  MaxRunning    \* requests the launcher lets be in execution at once

Requests  == 1..NumRequests
Databases == {"db_test", "db_simple"}
Fields    == 0..(Modulus - 1)

(* With fewer keys than TXN_SZ gen_unique would look for one for ever. *)
ASSUME RunTestAssumption ==
  /\ Modulus \in Nat \ {0}
  /\ NumRequests \in Nat \ {0} /\ TxnSize \in Nat \ {0}
  /\ \A r \in Requests :
       Draws[r] \subseteq Records /\ Cardinality(Draws[r]) >= TxnSize
  /\ updates_ \in [Requests -> Fields]
  /\ Random \in [Databases -> [Records -> Fields]]
  /\ MaxRunning \in Nat \ {0}

VARIABLES
  issued, running, executed, phase,  \* the launcher, as it promises to behave
  pc,         \* where main is in run_test
  i,          \* the index of main's loops over reqs
  writeset_,  \* the write set of every request
  db_,        \*   and the database it points to
  epc,        \* where the executor of every request is in Request::Txn
  next,       \* the index of its loop over the write set
  rec,        \* the database of the record it has looked up
  register,   \* the field it has loaded
  records_,   \* the contents of the databases
  overlap     \* requests that ran at the same time as one they conflict with

launcherVars == <<issued, running, executed, phase>>
mainVars     == <<pc, i, writeset_, db_>>
executorVars == <<epc, next, rec, register>>
vars == <<launcherVars, mainVars, executorVars, records_, overlap>>

Launcher == INSTANCE BoundedLauncher

Plus(a, b)       == (a + b) % Modulus
InitRecord(d, k) == Random[d][k]

Writers(k) == {r \in Requests : k \in ToSet(writeset_[r])}
Meet(r, s) == ToSet(writeset_[r]) \cap ToSet(writeset_[s]) # {}
Sum(k, S)  == Plus(InitRecord("db_test", k),
                   MapThenSumSet(LAMBDA r : updates_[r], S))

(* The memory of a database is a mapping the system has filled with zeros. *)
Init ==
  /\ Launcher!Init
  /\ pc = "create"
  /\ i = 1
  /\ writeset_ = [r \in Requests |-> <<>>]
  /\ db_ = [r \in Requests |-> "none"]
  /\ epc = [r \in Requests |-> "none"]
  /\ next = [r \in Requests |-> 1]
  /\ rec = [r \in Requests |-> "none"]
  /\ register = [r \in Requests |-> 0]
  /\ records_ = [d \in Databases |-> [k \in Records |-> 0]]
  /\ overlap = {}

At(from, to) == pc = from /\ pc' = to

(* One round of a loop over the requests, which goes on at `to` after the last. *)
Loop(at, to) ==
  /\ pc = at
  /\ i' = IF i = NumRequests THEN 1 ELSE i + 1
  /\ pc' = IF i = NumRequests THEN to ELSE at

-----------------------------------------------------------------------------
(* Mutants of Copy, WaitOutstanding, StoreField, CountRequest and SetDatabase;
   none is part of Spec. *)

(* Database::Copy(db_simple, db_simple) *)
CopyToItself ==
  /\ At("copy", "generate")
  /\ UNCHANGED <<launcherVars, i, writeset_, db_, executorVars, records_, overlap>>

(* WaitOutstanding returns when the last request has been issued. *)
WaitForIssue ==
  /\ At("wait", "switch")
  /\ phase' = "timed"
  /\ i' = 1
  /\ UNCHANGED <<issued, running, executed, writeset_, db_, executorVars,
                 records_, overlap>>

(* `=` for `+=`. *)
StoreUpdate(r) ==
  /\ epc[r] = "store"
  /\ records_' = [records_ EXCEPT ![rec[r]][writeset_[r][next[r]]] = updates_[r]]
  /\ epc' = [epc EXCEPT ![r] = "load"]
  /\ next' = [next EXCEPT ![r] = @ + 1]
  /\ UNCHANGED <<launcherVars, mainVars, rec, register, overlap>>

(* The counter is in memory that is not shared with the executor. *)
CountPrivately ==
  /\ executed + Cardinality(running) < issued
  /\ UNCHANGED vars

(* The loop over reqs runs to <= num_requests. *)
SetOneMore ==
  /\ pc = "switch"
  /\ db_' = [db_ EXCEPT ![i] = "db_simple"]
  /\ i' = IF i > NumRequests THEN 1 ELSE i + 1
  /\ pc' = IF i > NumRequests THEN "sequential" ELSE "switch"
  /\ UNCHANGED <<launcherVars, writeset_, executorVars, records_, overlap>>

-----------------------------------------------------------------------------
(* main, setting up. *)
Create(d) ==
  /\ \/ d = "db_test" /\ At("create", "create_simple")
     \/ d = "db_simple" /\ At("create_simple", "copy")
  /\ records_' = [records_ EXCEPT ![d] = [k \in Records |-> InitRecord(d, k)]]
  /\ UNCHANGED <<launcherVars, i, writeset_, db_, executorVars, overlap>>

Copy ==
  /\ At("copy", "generate")
  /\ records_' = [records_ EXCEPT !["db_simple"] = records_["db_test"]]
  /\ UNCHANGED <<launcherVars, i, writeset_, db_, executorVars, overlap>>

(* A key drawn before is in seen and changes nothing: rand() is asked again. *)
GenUnique(k) ==
  /\ pc = "generate"
  /\ Len(writeset_[i]) < TxnSize
  /\ k \in Draws[i]
  /\ k \notin ToSet(writeset_[i])
  /\ writeset_' = [writeset_ EXCEPT ![i] = Append(@, k)]
  /\ UNCHANGED <<launcherVars, pc, i, db_, executorVars, records_, overlap>>

(* The request is made, with its updates. *)
GenerateRequest ==
  /\ Len(writeset_[i]) = TxnSize
  /\ Loop("generate", "issue")
  /\ db_' = [db_ EXCEPT ![i] = "db_test"]
  /\ UNCHANGED <<launcherVars, writeset_, executorVars, records_, overlap>>

(* main, testing. *)
ExecuteRequest ==
  /\ pc = "issue"
  /\ issued < NumRequests
  /\ Launcher!Issue
  /\ epc' = [epc EXCEPT ![issued'] = "load"]
  /\ overlap' = IF \E r \in running : Meet(r, issued')
                  THEN overlap \union {issued'} ELSE overlap
  /\ UNCHANGED <<mainVars, next, rec, register, records_>>

AllIssued ==
  /\ issued = NumRequests
  /\ At("issue", "wait")
  /\ UNCHANGED <<launcherVars, i, writeset_, db_, executorVars, records_, overlap>>

WaitOutstanding ==
  /\ At("wait", "switch")
  /\ Launcher!WaitOutstanding
  /\ i' = 1
  /\ UNCHANGED <<writeset_, db_, executorVars, records_, overlap>>

SetDatabase ==
  /\ Loop("switch", "sequential")
  /\ db_' = [db_ EXCEPT ![i] = "db_simple"]
  /\ UNCHANGED <<launcherVars, writeset_, executorVars, records_, overlap>>

(* main executes request i itself, on the database it points to now. *)
SequentialExecute ==
  LET Write(contents, k) == [contents EXCEPT ![k] = Plus(@, updates_[i])]
  IN  /\ Loop("sequential", "compare")
      /\ records_' = [records_ EXCEPT ![db_[i]] =
                        FoldLeft(Write, @, writeset_[i])]
      /\ UNCHANGED <<launcherVars, writeset_, db_, executorVars, overlap>>

(* Database::Compare exits at the first record that differs. *)
Compare ==
  /\ At("compare", IF records_["db_test"] = records_["db_simple"]
                     THEN "passed" ELSE "mismatch")
  /\ UNCHANGED <<launcherVars, i, writeset_, db_, executorVars, records_, overlap>>

MainStep ==
  \/ (\E d \in Databases : Create(d)) \/ Copy
  \/ (\E k \in Records : GenUnique(k)) \/ GenerateRequest
  \/ ExecuteRequest \/ AllIssued \/ WaitOutstanding
  \/ SetDatabase \/ SequentialExecute \/ Compare

-----------------------------------------------------------------------------
(* The executor of request r.  The record is looked up in the database the
   request points to, once for its update. *)
LoadField(r) ==
  /\ epc[r] = "load"
  /\ next[r] <= TxnSize
  /\ rec' = [rec EXCEPT ![r] = db_[r]]
  /\ register' = [register EXCEPT ![r] = records_[db_[r]][writeset_[r][next[r]]]]
  /\ epc' = [epc EXCEPT ![r] = "store"]
  /\ UNCHANGED <<launcherVars, mainVars, next, records_, overlap>>

StoreField(r) ==
  /\ epc[r] = "store"
  /\ records_' = [records_ EXCEPT ![rec[r]][writeset_[r][next[r]]] =
                    Plus(register[r], updates_[r])]
  /\ epc' = [epc EXCEPT ![r] = "load"]
  /\ next' = [next EXCEPT ![r] = @ + 1]
  /\ UNCHANGED <<launcherVars, mainVars, rec, register, overlap>>

FinishRequest(r) ==
  /\ epc[r] = "load"
  /\ next[r] > TxnSize
  /\ epc' = [epc EXCEPT ![r] = "returned"]
  /\ Launcher!Finish /\ running' = running \ {r}
  /\ UNCHANGED <<mainVars, next, rec, register, records_, overlap>>

CountRequest ==
  /\ Launcher!Count
  /\ UNCHANGED <<mainVars, executorVars, records_, overlap>>

ExecutorStep(r) == LoadField(r) \/ StoreField(r) \/ FinishRequest(r)

Terminated == pc \in {"passed", "mismatch"} /\ UNCHANGED vars

Next ==
  \/ MainStep
  \/ \E r \in Requests : ExecutorStep(r)
  \/ CountRequest
  \/ Terminated

(* Threads run on; the launcher's own progress is what it promises. *)
Spec ==
  /\ Init
  /\ [][Next]_vars
  /\ WF_vars(MainStep)
  /\ \A r \in Requests : WF_vars(ExecutorStep(r))
  /\ WF_vars(CountRequest)

-----------------------------------------------------------------------------
(* Every variable has its type. *)
TypeOK ==
  /\ running \subseteq 1..issued /\ executed \in 0..issued
  /\ issued \in 0..NumRequests
  /\ phase \in {"dry", "timed"}
  /\ pc \in {"create", "create_simple", "copy", "generate", "issue", "wait",
             "switch", "sequential", "compare", "passed", "mismatch"}
  /\ i \in Requests
  /\ writeset_ \in [Requests -> Seq(Records)]
  /\ db_ \in [Requests -> Databases \union {"none"}]
  /\ epc \in [Requests -> {"none", "load", "store", "returned"}]
  /\ next \in [Requests -> 1..(TxnSize + 1)]
  /\ rec \in [Requests -> Databases \union {"none"}]
  /\ register \in [Requests -> Fields]
  /\ records_ \in [Databases -> [Records -> Fields]]
  /\ overlap \subseteq Requests

(* db_start.cc:155-158: the requests are pointed at db_simple, and db_simple is
   written, only when no executor is left that could use them. *)
SwitchAfterDrain ==
  /\ pc \in {"issue", "wait"} =>
       \A k \in Records : records_["db_simple"][k] = InitRecord("db_test", k)
  /\ pc \in {"switch", "sequential", "compare", "passed", "mismatch"} =>
       \A r \in Requests : epc[r] = "returned"

(* request.cc:62-73: races lose whole updates and nothing else.  When the
   executors are done, a record holds its initial value plus the updates of some
   of its writers, at least one, and of all of them if there is only one. *)
OnlyUpdatesLost ==
  (\A r \in Requests : epc[r] = "returned") =>
    \A k \in Records :
      IF Writers(k) = {} THEN records_["db_test"][k] = InitRecord("db_test", k)
      ELSE \E S \in SUBSET Writers(k) : S # {} /\ records_["db_test"][k] = Sum(k, S)

(* db_start.cc:163-165: the test fails only if two requests with a common record
   were in execution at once, and passes only if no update was lost; the order
   in which the launcher ran them never matters. *)
VerdictSound ==
  /\ pc = "mismatch" => overlap # {}
  /\ pc = "passed" => \A k \in Records : records_["db_test"][k] = Sum(k, Writers(k))

(* run_test ends with a verdict. *)
TestEnds == <>(pc \in {"passed", "mismatch"})
=============================================================================
