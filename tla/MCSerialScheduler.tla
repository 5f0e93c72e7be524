-------------------------- MODULE MCSerialScheduler --------------------------
(* Small instances of SerialScheduler. *)
EXTENDS SerialScheduler

MCTxns         == {"t1", "t2", "t3", "t4"}
MCKeys         == {1, 2, 3}
MCInitialStore == [k \in {1, 2} |-> 0]

(* txn_types_test.cc: a Put, an Expect that holds after it and one that does
   not, and an RMW whose set includes a key without a record. *)
MCProgram == "t1" :> Put(1 :> 2) @@ "t2" :> Expect(1 :> 2)
               @@ "t3" :> Expect(2 :> 1) @@ "t4" :> RMW({1}, {2, 3})
=============================================================================
