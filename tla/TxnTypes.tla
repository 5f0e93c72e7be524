------------------------------ MODULE TxnTypes ------------------------------
(***************************************************************************)
(* Transactions of assignment 2: the programs of txn_types.h, and the      *)
(* state a Txn carries while the TxnProcessor runs it.                     *)
(*                                                                         *)
(* A program is a record: a kind, and the map m (Expect, Put) or the read  *)
(* and write sets (RMW) it was constructed with.  A store is a function    *)
(* from the keys that have a record to their values.                       *)
(***************************************************************************)
EXTENDS Integers, FiniteSets

Status == {"INCOMPLETE", "COMPLETED_C", "COMPLETED_A", "COMMITTED", "ABORTED"}

NoRecords == [k \in {} |-> 0]

(* The map g after every pair of the map f was stored in it. *)
Over(f, g) ==
  [k \in DOMAIN f \union DOMAIN g |-> IF k \in DOMAIN f THEN f[k] ELSE g[k]]

Noop              == [kind |-> "Noop"]
Expect(m)         == [kind |-> "Expect", m |-> m]
Put(m)            == [kind |-> "Put", m |-> m]
RMW(reads, write) == [kind |-> "RMW", readset |-> reads, writeset |-> write]

ReadSet(p) ==
  CASE p.kind = "Expect" -> DOMAIN p.m
    [] p.kind = "RMW"    -> p.readset
    [] OTHER             -> {}

WriteSet(p) ==
  CASE p.kind = "Put" -> DOMAIN p.m
    [] p.kind = "RMW" -> p.writeset
    [] OTHER          -> {}

KeySet(p) == ReadSet(p) \union WriteSet(p)

(* One of the two may change what the other sees. *)
Conflict(p, q) ==
  \/ WriteSet(p) \cap KeySet(q) # {}
  \/ WriteSet(q) \cap KeySet(p) # {}

-----------------------------------------------------------------------------
(* What the processor keeps in a Txn. *)
TxnRecords(Keys, Values) ==
  LET stores == UNION {[S -> Values] : S \in SUBSET Keys}
  IN  [status_ : Status, reads_ : stores, writes_ : stores]

NewTxn == [status_ |-> "INCOMPLETE", reads_ |-> NoRecords, writes_ |-> NoRecords]

(* The processor's step that fills reads_ with one record, if there is one. *)
SaveRead(txn, store, k) ==
  IF k \in DOMAIN store
    THEN [txn EXCEPT !.reads_ = Over([i \in {k} |-> store[i]], @)]
    ELSE txn

(* Txn::Write of every pair of m: ignored once the txn has a verdict. *)
WriteAll(txn, m) ==
  IF txn.status_ = "INCOMPLETE"
    THEN [txn EXCEPT !.writes_ = Over(m, @), !.reads_ = Over(m, @)]
    ELSE txn

(* Txn::Read, which finds nothing once the txn has a verdict. *)
CanRead(txn, k) == txn.status_ = "INCOMPLETE" /\ k \in DOMAIN txn.reads_

Incremented(txn, keys) ==
  [k \in keys |-> (IF CanRead(txn, k) THEN txn.reads_[k] ELSE 0) + 1]

Commits(p, txn) ==
  p.kind = "Expect" =>
    \A k \in DOMAIN p.m : CanRead(txn, k) /\ txn.reads_[k] = p.m[k]

Writes(p, txn) ==
  CASE p.kind = "Put" -> p.m
    [] p.kind = "RMW" -> Incremented(txn, p.writeset)
    [] OTHER          -> NoRecords

(* The program's Run(), which ends in COMMIT or in ABORT. *)
Run(p, txn) ==
  [WriteAll(txn, Writes(p, txn)) EXCEPT
     !.status_ = IF Commits(p, txn) THEN "COMPLETED_C" ELSE "COMPLETED_A"]

-----------------------------------------------------------------------------
(* Reading the whole read and write set of p from one store, then Run. *)
ReadAll(p, txn, store) ==
  [txn EXCEPT !.reads_ =
     Over([k \in KeySet(p) \cap DOMAIN store |-> store[k]], @)]

RunOn(p, txn, store) == Run(p, ReadAll(p, txn, store))

(* The last assignment to status_: what the client finds in a result. *)
Verdict(txn) ==
  [txn EXCEPT !.status_ =
     IF @ = "COMPLETED_C" THEN "COMMITTED" ELSE "ABORTED"]

(* The store after the writes of txn. *)
Applied(txn, store) == Over(txn.writes_, store)
=============================================================================
