------------------------------ MODULE MCRunTest ------------------------------
(* A small instance of RunTest: three requests for two of three records, in
   either order, so that two of them may meet in opposite orders.  Different sets of
   updates have different sums, and a sum may wrap around. *)
EXTENDS RunTest

MCRecords == {0, 1, 2}
MCDraws   == <<{0, 1}, {0, 1}, {1, 2}>>
MCupdates == <<1, 2, 4>>
MCRandom  == [db_test |-> [k \in MCRecords |-> 7 - 3 * k],
              db_simple |-> [k \in MCRecords |-> k]]
=============================================================================
