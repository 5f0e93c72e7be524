----------------------------- MODULE LockManager -----------------------------
(***************************************************************************)
(* The lock managers a TxnProcessor may be linked with.                    *)
(*                                                                         *)
(* "shipped" is the code of lock_manager.cc: both of its classes grant     *)
(* every request and keep no table.  "A" and "B" are the lock managers     *)
(* that code is the placeholder of, exclusive locks only and shared locks  *)
(* too.  Their implementation is not in the repository: they are modelled  *)
(* as the environment of the scheduler, from the interface it is compiled  *)
(* against and from what lock_manager_test.cc expects of every call.       *)
(*                                                                         *)
(* A lock table is a function from keys to queues of requests.  txn_waits_ *)
(* is not kept: a transaction waits when one of its requests does.         *)
(***************************************************************************)
EXTENDS Integers, Sequences, FiniteSets, SequencesExt

LockManagers == {"shipped", "A", "B"}

LockRequest(txn, mode) == [txn_ |-> txn, mode_ |-> mode]

(* The request at position i of queue q holds the lock. *)
Granted(q, i) == i = 1 \/ \A j \in 1..i : q[j].mode_ = "SHARED"

(* The transactions that hold the lock of queue q, in the order they asked. *)
Owners(q) ==
  LET held == {i \in DOMAIN q : Granted(q, i)}
  IN  [i \in 1..Cardinality(held) |-> q[i].txn_]

Waiting(table, t) ==
  \E k \in DOMAIN table : \E i \in DOMAIN table[k] :
    table[k][i].txn_ = t /\ ~Granted(table[k], i)

(* ReadLock and WriteLock: the table afterwards, and the value returned. *)
Requested(lm, table, t, k, mode) ==
  CASE lm = "shipped" -> table
    [] lm = "A" -> [table EXCEPT ![k] = Append(@, LockRequest(t, "EXCLUSIVE"))]
    [] lm = "B" -> [table EXCEPT ![k] = Append(@, LockRequest(t, mode))]

RequestGranted(lm, table, t, k, mode) ==
  LET q == Requested(lm, table, t, k, mode)[k]
  IN  lm = "shipped" \/ Granted(q, Len(q))

(* Release: the table without the first request of t on k; with "shipped", which
   keeps no table, what it was. *)
Released(table, t, k) ==
  [table EXCEPT ![k] = RemoveFirstMatch(@, LAMBDA request : request.txn_ = t)]

(* The numbers of the finite set R, from the least to the greatest. *)
InOrder(R) ==
  CHOOSE s \in [1..Cardinality(R) -> R] : \A i, j \in DOMAIN s : i < j => s[i] < s[j]

(* Transactions that Release(t, k) appends to ready_txns_, in queue order: the
   owners of k now that waited for something before, and wait for nothing. *)
MadeReady(table, t, k) ==
  LET new   == Released(table, t, k)
      owner == Owners(new[k])
      ready == {i \in DOMAIN owner :
                  Waiting(table, owner[i]) /\ ~Waiting(new, owner[i])}
  IN  [i \in 1..Cardinality(ready) |-> owner[InOrder(ready)[i]]]

(* Status: with "shipped", whose queues are empty, always "UNLOCKED". *)
LockStatus(table, k) ==
  IF table[k] = <<>> THEN "UNLOCKED" ELSE Head(table[k]).mode_
=============================================================================
