-------------------------- MODULE BoundedLauncher --------------------------
(***************************************************************************)
(* What a Launcher of assignment 1 promises run_experiment, whichever      *)
(* execution model is behind it: ExecuteRequest returns control when the   *)
(* system may issue another request without exceeding its bound; each      *)
(* request issued is executed once and counted once in txns_executed_; and *)
(* WaitOutstanding returns when every request issued has been executed.    *)
(***************************************************************************)
EXTENDS Naturals, FiniteSets

CONSTANT MaxRunning     \* requests that may be in execution at once

VARIABLES
  issued,    \* requests given to ExecuteRequest
  running,   \* those whose execution has not finished
  executed,  \* *txns_executed_: those finished and counted
  phase      \* "dry" until the driver's WaitOutstanding has returned, then "timed"

absVars == <<issued, running, executed, phase>>

Init ==
  /\ issued = 0
  /\ running = {}
  /\ executed = 0
  /\ phase = "dry"

Issue ==
  /\ Cardinality(running) < MaxRunning
  /\ issued' = issued + 1
  /\ running' = running \union {issued + 1}
  /\ UNCHANGED <<executed, phase>>

Finish ==
  /\ \E r \in running : running' = running \ {r}
  /\ UNCHANGED <<issued, executed, phase>>

Count ==
  /\ executed + Cardinality(running) < issued
  /\ executed' = executed + 1
  /\ UNCHANGED <<issued, running, phase>>

WaitOutstanding ==
  /\ executed = issued
  /\ phase' = "timed"
  /\ UNCHANGED <<issued, running, executed>>

Next == Issue \/ Finish \/ Count \/ WaitOutstanding

(* Executors make progress: what runs finishes, what finished is counted. *)
Spec == Init /\ [][Next]_absVars /\ WF_absVars(Finish) /\ WF_absVars(Count)
=============================================================================
