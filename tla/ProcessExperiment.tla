-------------------------- MODULE ProcessExperiment --------------------------
(***************************************************************************)
(* run_experiment of assignment 1 with the process launcher: main and its  *)
(* children, and the monitor thread, which main creates after the dry run  *)
(* and which no child has, as fork() copies only the thread that calls it. *)
(* They share txns_executed_, and the monitor ends main's loop with done.  *)
(***************************************************************************)
EXTENDS ProcessLauncher, PerfMonitor, SequencesExt

VARIABLE started   \* the monitor's first readings

monitorVars ==
  <<mpc, prev_txns_elapsed_, prev_time_elapsed_, results_, done, started>>
vars == <<launcherVars, monitorVars>>

ExperimentInit ==
  /\ Init
  /\ MonitorInit
  /\ started = [txns |-> 0, time |-> [tv_sec |-> 0, tv_nsec |-> 0]]

-----------------------------------------------------------------------------
(* run_experiment: the loop of the dry run, and the one that done ends. *)
Issue(p) ==
  /\ phase[p] = "timed" => ~done
  /\ CallExecuteRequest(p)
  /\ UNCHANGED monitorVars

(* WaitOutstanding returns, and the monitor thread is created. *)
DryRunEnds(p) ==
  /\ WaitOutstanding(p)
  /\ mpc' = IF p = Main THEN "created" ELSE mpc
  /\ UNCHANGED <<prev_txns_elapsed_, prev_time_elapsed_, results_, done,
                 started>>

Leave(p) ==
  /\ done
  /\ LeaveExperiment(p)
  /\ UNCHANGED monitorVars

DriverStep(p) ==
  \/ Issue(p)
  \/ Fork(p) /\ UNCHANGED monitorVars
  \/ DryRunEnds(p)
  \/ Leave(p)

ForkError(p) == ForkFails(p) /\ UNCHANGED monitorVars

ChildRuns(c) == ChildStep(c) /\ UNCHANGED monitorVars

(* The monitor's first readings are kept, to compare with its results. *)
MonitorRuns ==
  /\ MonitorStep
  /\ started' =
       IF mpc = "created"
         THEN [txns |-> prev_txns_elapsed_', time |-> prev_time_elapsed_']
         ELSE started
  /\ UNCHANGED <<ppc, num_requests_, phase, executions, lost>>

(* The dry run waits for ever for a request that was lost; or main has left. *)
Terminated ==
  /\ ppc[Main] = "left" \/ \E r \in lost : r <= DryRun
  /\ UNCHANGED vars

Next ==
  \/ \E p \in Processes : DriverStep(p) \/ ForkError(p)
  \/ \E c \in Children : ChildRuns(c)
  \/ MonitorRuns
  \/ Terminated

(* Every process and thread that can run does. *)
Spec ==
  /\ ExperimentInit
  /\ [][Next]_vars
  /\ \A p \in Processes : WF_vars(DriverStep(p))
  /\ \A c \in Children : WF_vars(ChildRuns(c))
  /\ WF_vars(MonitorRuns)

-----------------------------------------------------------------------------
(* Every variable has its type. *)
TypeOK ==
  /\ ppc \in [Processes -> {"none", "driver", "fork", "left", "execute",
                           "count", "exit", "exited"}]
  /\ num_requests_ \in [Processes -> 0..NumRequests]
  /\ phase \in [Processes -> {"dry", "timed"}]
  /\ txns_executed_ \in 0..NumRequests
  /\ executions \in [Requests -> Nat]
  /\ lost \subseteq Requests
  /\ mpc \in {"none", "created", "sleep", "ended"}
  /\ prev_txns_elapsed_ \in Nat
  /\ prev_time_elapsed_ \in Timespec
  /\ results_ \in Seq([executed : Nat, interval : Timespec])
  /\ done \in BOOLEAN
  /\ started \in [txns : Nat, time : Timespec]

(* process_launcher.cc:131 "Why need to exit?": no request is executed by two
   processes, one that was lost by none; and only main is ever in the driver. *)
ExecutedOnce ==
  /\ \A r \in Requests : executions[r] <= IF r \in lost THEN 0 ELSE 1
  /\ \A c \in Children : ppc[c] \notin {"driver", "fork", "left"}

(* The samples tile the experiment (perf_monitor.cc:55-79): their counts add up
   to what was executed between the first reading and the last, none of it in
   the dry run; their intervals, to the time between the two; and no interval
   is shorter than the second that was slept, so none is zero as a divisor. *)
SamplesTile ==
  LET counts == [j \in DOMAIN results_ |-> results_[j].executed]
      times  == [j \in DOMAIN results_ |-> Nanos(results_[j].interval)]
  IN  mpc \in {"sleep", "ended"} =>
    /\ started.txns >= DryRun
    /\ started.txns + SumFunction(counts) = prev_txns_elapsed_
    /\ Nanos(started.time) + SumFunction(times)
         = Nanos(prev_time_elapsed_)
    /\ \A j \in DOMAIN results_ : results_[j].interval.tv_sec >= 1

(* Requests that were issued and whose child has not yet executed them. *)
Running == {r \in 1..num_requests_[Main] : executions[r] = 0}

Launcher == INSTANCE BoundedLauncher WITH
  MaxRunning <- NumRequests,
  issued     <- num_requests_[Main],
  running    <- Running,
  executed   <- txns_executed_,
  phase      <- phase[Main]

(* The process launcher keeps the safety part of what a launcher promises, with
   no bound but the number of requests: WaitOutstanding returns only when every
   request has been executed and counted (launcher.h:31), fork() failing or
   not. *)
RefinesBoundedLauncher == Launcher!Init /\ [][Launcher!Next]_(Launcher!absVars)

(* The experiment ends, unless a fork() failed in its dry run. *)
ExperimentEnds == <>(ppc[Main] = "left" \/ \E r \in lost : r <= DryRun)
=============================================================================
