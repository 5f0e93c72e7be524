------------------------- MODULE MCLockingScheduler -------------------------
(***************************************************************************)
(* Small instances of LockingScheduler, and the scenarios of               *)
(* lock_manager_test.cc replayed on the lock managers it is checked with.  *)
(***************************************************************************)
EXTENDS LockingScheduler

MCTxns         == {"t1", "t2", "t3"}
MCKeys         == {1, 2, 3}
MCInitialStore == [k \in {1, 2} |-> 0]

(* Two updates that read what the other writes, and a reader that commits or
   aborts by what it sees of both: their six serial orders differ. *)
MCSkew == "t1" :> RMW({1}, {2}) @@ "t2" :> RMW({2}, {1})
            @@ "t3" :> Expect(1 :> 1 @@ 2 :> 1)

(* A blind write between two increments of the same record, one of which also
   reads a key no record exists for. *)
MCPut == "t1" :> RMW({3}, {1, 2}) @@ "t2" :> Put(1 :> 2) @@ "t3" :> RMW({1}, {2})

(* Readers that share their locks around one writer. *)
MCShared == "t1" :> Expect(1 :> 0) @@ "t2" :> RMW({}, {1})
              @@ "t3" :> RMW({1, 2}, {})

MCPrograms     == {MCSkew, MCPut, MCShared}
MCSkewOnly     == {MCSkew}

-----------------------------------------------------------------------------
(* lock_manager_test.cc: t1 has been granted its lock and put in the ready
   queue; what do the calls that follow leave in the table of key 101? *)
Call(m, s, c) ==
  IF c[1] = "release"
    THEN [table |-> Released(s.table, c[2], 101),
          ready |-> s.ready \o MadeReady(s.table, c[2], 101)]
    ELSE [s EXCEPT !.table = Requested(m, @, c[2], 101,
            IF c[1] = "read" THEN "SHARED" ELSE "EXCLUSIVE")]

After(m, calls) ==
  LET Step(s, c) == Call(m, s, c)
  IN  FoldLeft(Step, [table |-> 101 :> <<>>, ready |-> <<"t1">>],
               <<<<"read", "t1">>>> \o calls)

Leaves(m, calls, mode, owners, ready) ==
  LET s == After(m, calls)
  IN  /\ LockStatus(s.table, 101) = mode
      /\ Owners(s.table[101]) = owners
      /\ s.ready = ready

W2 == <<"write", "t2">>
R3 == <<"read", "t3">>
R4 == <<"read", "t4">>
Free(t) == <<"release", t>>

(* LockManagerA_SimpleLocking, lines 20-57. *)
ASSUME SimpleLockingA ==
  /\ Leaves("A", <<>>, "EXCLUSIVE", <<"t1">>, <<"t1">>)
  /\ Leaves("A", <<W2>>, "EXCLUSIVE", <<"t1">>, <<"t1">>)
  /\ Leaves("A", <<W2, R3>>, "EXCLUSIVE", <<"t1">>, <<"t1">>)
  /\ Leaves("A", <<W2, R3, Free("t1")>>, "EXCLUSIVE", <<"t2">>, <<"t1", "t2">>)
  /\ Leaves("A", <<W2, R3, Free("t1"), Free("t2")>>,
            "EXCLUSIVE", <<"t3">>, <<"t1", "t2", "t3">>)

(* LockManagerA_LocksReleasedOutOfOrder, lines 73-100. *)
ASSUME OutOfOrderA ==
  /\ Leaves("A", <<W2, R3, R4, Free("t2")>>, "EXCLUSIVE", <<"t1">>, <<"t1">>)
  /\ Leaves("A", <<W2, R3, R4, Free("t2"), Free("t1")>>,
            "EXCLUSIVE", <<"t3">>, <<"t1", "t3">>)
  /\ Leaves("A", <<W2, R3, R4, Free("t2"), Free("t1"), Free("t3")>>,
            "EXCLUSIVE", <<"t4">>, <<"t1", "t3", "t4">>)

(* LockManagerB_SimpleLocking, lines 115-152. *)
ASSUME SimpleLockingB ==
  /\ Leaves("B", <<>>, "SHARED", <<"t1">>, <<"t1">>)
  /\ Leaves("B", <<W2>>, "SHARED", <<"t1">>, <<"t1">>)
  /\ Leaves("B", <<W2, R3>>, "SHARED", <<"t1">>, <<"t1">>)
  /\ Leaves("B", <<W2, R3, Free("t1")>>, "EXCLUSIVE", <<"t2">>, <<"t1", "t2">>)
  /\ Leaves("B", <<W2, R3, Free("t1"), Free("t2")>>,
            "SHARED", <<"t3">>, <<"t1", "t2", "t3">>)

(* LockManagerB_LocksReleasedOutOfOrder, lines 168-185. *)
ASSUME OutOfOrderB ==
  Leaves("B", <<W2, R3, R4, Free("t2")>>,
         "SHARED", <<"t1", "t3", "t4">>, <<"t1", "t3", "t4">>)
=============================================================================
