----------------------------- MODULE PerfMonitor -----------------------------
(***************************************************************************)
(* The monitor thread of an experiment: it samples txns_executed_ about    *)
(* once a second, keeps what was executed in every interval, and sets done *)
(* after ExptLen samples.  The launcher counts while it sleeps.            *)
(*                                                                         *)
(* A result is kept as the interval and the count it is the quotient of.   *)
(* The clock is read, not modelled: a reading is at least the second of    *)
(* sleep(1) after the one before, for nobody sets CLOCK_REALTIME back.     *)
(* high_priority_txns_executed_ is left out: these launchers never         *)
(* increment it.                                                           *)
(***************************************************************************)
EXTENDS LauncherCounter, Sequences

CONSTANTS
  ExptLen,         \* samples (EXPT_LEN)
  NanosPerSecond,  \* 1000000000 in the code
  MaxDelay         \* BOUND: nanoseconds a sample may come after its second

ASSUME PerfMonitorAssumption ==
  /\ ExptLen \in Nat \ {0}
  /\ NanosPerSecond \in Nat \ {0}
  /\ MaxDelay \in Nat

VARIABLES
  mpc,                \* where the monitor thread is
  prev_txns_elapsed_,
  prev_time_elapsed_,
  results_,           \* one entry for every sample taken
  done                \* what done_ points to

Timespec == [tv_sec : Int, tv_nsec : 0..(NanosPerSecond - 1)]

Nanos(t) == t.tv_sec * NanosPerSecond + t.tv_nsec

(* The time n nanoseconds after t. *)
After(t, n) ==
  [tv_sec  |-> t.tv_sec + (t.tv_nsec + n) \div NanosPerSecond,
   tv_nsec |-> (t.tv_nsec + n) % NanosPerSecond]

(* Mutant of DiffTime: the second that is borrowed is not given back. *)
DiffUnborrowed(end, start) ==
  IF end.tv_nsec - start.tv_nsec < 0
    THEN [tv_sec  |-> end.tv_sec - start.tv_sec,
          tv_nsec |-> NanosPerSecond + end.tv_nsec - start.tv_nsec]
    ELSE [tv_sec  |-> end.tv_sec - start.tv_sec,
          tv_nsec |-> end.tv_nsec - start.tv_nsec]

DiffTime(end, start) ==
  IF end.tv_nsec - start.tv_nsec < 0
    THEN [tv_sec  |-> end.tv_sec - start.tv_sec - 1,
          tv_nsec |-> NanosPerSecond + end.tv_nsec - start.tv_nsec]
    ELSE [tv_sec  |-> end.tv_sec - start.tv_sec,
          tv_nsec |-> end.tv_nsec - start.tv_nsec]

MonitorInit ==
  /\ mpc = "none"
  /\ prev_txns_elapsed_ = 0
  /\ prev_time_elapsed_ = [tv_sec |-> 0, tv_nsec |-> 0]
  /\ results_ = <<>>
  /\ done = FALSE

-----------------------------------------------------------------------------
(* The thread has been created: the first reading of the counter and clock. *)
Start ==
  /\ mpc = "created"
  /\ mpc' = "sleep"
  /\ prev_txns_elapsed_' = txns_executed_
  /\ \E d \in 0..MaxDelay :
       prev_time_elapsed_' = After(prev_time_elapsed_, d)
  /\ UNCHANGED <<results_, done>>

(* Mutant of Sample: the counter is read a second time for the next interval,
   after the launcher has had time to count. *)
SampleAfresh ==
  /\ mpc = "sleep"
  /\ Len(results_) < ExptLen
  /\ \E d \in 0..MaxDelay, counted \in 0..txns_executed_ :
       LET now == After(prev_time_elapsed_, NanosPerSecond + d)
       IN  /\ counted >= prev_txns_elapsed_
           /\ results_' = Append(results_,
                [executed |-> counted - prev_txns_elapsed_,
                 interval |-> DiffTime(now, prev_time_elapsed_)])
           /\ prev_time_elapsed_' = now
  /\ prev_txns_elapsed_' = txns_executed_
  /\ UNCHANGED <<mpc, done>>

Sample ==
  /\ mpc = "sleep"
  /\ Len(results_) < ExptLen
  /\ \E d \in 0..MaxDelay :
       LET now == After(prev_time_elapsed_, NanosPerSecond + d)
       IN  /\ results_' = Append(results_,
                [executed |-> txns_executed_ - prev_txns_elapsed_,
                 interval |-> DiffTime(now, prev_time_elapsed_)])
           /\ prev_time_elapsed_' = now
  /\ prev_txns_elapsed_' = txns_executed_
  /\ UNCHANGED <<mpc, done>>

SetDone ==
  /\ mpc = "sleep"
  /\ Len(results_) = ExptLen
  /\ done' = TRUE
  /\ mpc' = "ended"
  /\ UNCHANGED <<prev_txns_elapsed_, prev_time_elapsed_, results_>>

MonitorStep == (Start \/ Sample \/ SetDone) /\ UNCHANGED txns_executed_
=============================================================================
