--------------------------- MODULE ProcessLauncher ---------------------------
(***************************************************************************)
(* The process-per-request execution model of assignment 1: main, running  *)
(* run_experiment, and one child process for every request.                *)
(*                                                                         *)
(* fork() copies the memory of its caller: num_requests_ and the phase of  *)
(* the driver are private to every process, which is why they are          *)
(* functions of the process.  Only txns_executed_ is in memory that all    *)
(* share.  max_outstanding_ and its mutex are initialised and never used:  *)
(* ExecuteRequest does not wait for a slot.  SIGCHLD is ignored, so that a *)
(* child that exits leaves nothing behind.                                 *)
(*                                                                         *)
(* A child runs in the driver's code as main does, were it not for exit(0) *)
(* at the end of its branch; the actions of the driver are therefore those *)
(* of any process that is in it.                                           *)
(***************************************************************************)
EXTENDS LauncherCounter, FiniteSets

CONSTANTS
  DryRun,       \* requests issued before WaitOutstanding (DRY_RUN_SZ)
  NumRequests,  \* BOUND: requests the model ever issues
  ForkCanFail   \* whether fork() may report an error

ASSUME ProcessLauncherAssumption ==
  /\ NumRequests \in Nat
  /\ DryRun \in 1..NumRequests
  /\ ForkCanFail \in BOOLEAN

Main      == 0
Children  == 1..NumRequests    \* BOUND: at most as many forks as requests
Processes == {Main} \union Children
Requests  == 1..NumRequests

VARIABLES
  ppc,             \* where each process is
  num_requests_,   \* every process's copy
  phase,           \* every process's: "dry", or "timed" after WaitOutstanding
  executions,      \* how often each request has been executed
  lost             \* requests whose fork() failed

launcherVars == <<ppc, num_requests_, phase, txns_executed_, executions, lost>>

Init ==
  /\ ppc = [p \in Processes |-> IF p = Main THEN "driver" ELSE "none"]
  /\ num_requests_ = [p \in Processes |-> 0]
  /\ phase = [p \in Processes |-> "dry"]
  /\ CounterInit
  /\ executions = [r \in Requests |-> 0]
  /\ lost = {}

-----------------------------------------------------------------------------
(* Mutants of Exit, Count and WaitOutstanding. *)

(* The child does not exit: it returns from ExecuteRequest to the driver. *)
ReturnToDriver(c) ==
  /\ ppc[c] = "exit"
  /\ ppc' = [ppc EXCEPT ![c] = "driver"]
  /\ UNCHANGED <<num_requests_, phase, txns_executed_, executions, lost>>

(* The counter is in memory that fork() copies. *)
CountPrivately(c) ==
  /\ ppc[c] = "count"
  /\ ppc' = [ppc EXCEPT ![c] = "exit"]
  /\ UNCHANGED <<num_requests_, phase, txns_executed_, executions, lost>>

(* The request is counted by its own Execute and by the launcher. *)
CountTwice(c) ==
  /\ ppc[c] = "count"
  /\ txns_executed_' = txns_executed_ + 2
  /\ ppc' = [ppc EXCEPT ![c] = "exit"]
  /\ UNCHANGED <<num_requests_, phase, executions, lost>>

(* WaitOutstanding that lets one request still run. *)
WaitForAllButOne(p) ==
  /\ ppc[p] = "driver"
  /\ phase[p] = "dry"
  /\ num_requests_[p] = DryRun
  /\ txns_executed_ + 1 >= num_requests_[p]
  /\ phase' = [phase EXCEPT ![p] = "timed"]
  /\ UNCHANGED <<ppc, num_requests_, txns_executed_, executions, lost>>

-----------------------------------------------------------------------------
(* ExecuteRequest: num_requests_++, then fork(). *)
CallExecuteRequest(p) ==
  /\ ppc[p] = "driver"
  /\ num_requests_[p] < (IF phase[p] = "dry" THEN DryRun ELSE NumRequests)
  /\ num_requests_' = [num_requests_ EXCEPT ![p] = @ + 1]
  /\ ppc' = [ppc EXCEPT ![p] = "fork"]
  /\ UNCHANGED <<phase, txns_executed_, executions, lost>>

(* The child starts with what the parent has in memory; the parent returns. *)
Fork(p) ==
  /\ ppc[p] = "fork"
  /\ \E c \in Children :
       /\ ppc[c] = "none"
       /\ \A d \in Children : d < c => ppc[d] # "none"
       /\ ppc' = [ppc EXCEPT ![p] = "driver", ![c] = "execute"]
       /\ num_requests_' = [num_requests_ EXCEPT ![c] = num_requests_[p]]
       /\ phase' = [phase EXCEPT ![c] = phase[p]]
  /\ UNCHANGED <<txns_executed_, executions, lost>>

(* fork() returns -1, which is not 0: the parent's branch, whose assert the
   build leaves out. *)
ForkFails(p) ==
  /\ ForkCanFail
  /\ ppc[p] = "fork"
  /\ ppc' = [ppc EXCEPT ![p] = "driver"]
  /\ lost' = lost \union {num_requests_[p]}
  /\ UNCHANGED <<num_requests_, phase, txns_executed_, executions>>

WaitOutstanding(p) ==
  /\ ppc[p] = "driver"
  /\ phase[p] = "dry"
  /\ num_requests_[p] = DryRun
  /\ txns_executed_ = num_requests_[p]
  /\ phase' = [phase EXCEPT ![p] = "timed"]
  /\ UNCHANGED <<ppc, num_requests_, txns_executed_, executions, lost>>

(* The driver's loop over requests[1] ends when it sees done. *)
LeaveExperiment(p) ==
  /\ ppc[p] = "driver"
  /\ phase[p] = "timed"
  /\ ppc' = [ppc EXCEPT ![p] = "left"]
  /\ UNCHANGED <<num_requests_, phase, txns_executed_, executions, lost>>

(* The child's branch: the request it was forked for, the counter, exit(0). *)
Execute(c) ==
  /\ ppc[c] = "execute"
  /\ executions' = [executions EXCEPT ![num_requests_[c]] = @ + 1]
  /\ ppc' = [ppc EXCEPT ![c] = "count"]
  /\ UNCHANGED <<num_requests_, phase, txns_executed_, lost>>

Count(c) ==
  /\ ppc[c] = "count"
  /\ FetchAndIncrement
  /\ ppc' = [ppc EXCEPT ![c] = "exit"]
  /\ UNCHANGED <<num_requests_, phase, executions, lost>>

Exit(c) ==
  /\ ppc[c] = "exit"
  /\ ppc' = [ppc EXCEPT ![c] = "exited"]
  /\ UNCHANGED <<num_requests_, phase, txns_executed_, executions, lost>>

ChildStep(c) == Execute(c) \/ Count(c) \/ Exit(c)
=============================================================================
