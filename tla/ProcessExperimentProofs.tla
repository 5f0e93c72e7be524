----------------------- MODULE ProcessExperimentProofs -----------------------
(***************************************************************************)
(* The experiment with the process launcher, for any number of requests,   *)
(* any dry run and any number of failing calls to fork().                  *)
(***************************************************************************)
EXTENDS ProcessExperiment, CommonFacts

(* What PerfMonitor's arithmetic on timespecs computes, for every pair of them. *)
LEMMA Distribute ==
  ASSUME NEW a \in Int, NEW b \in Int, NEW n \in Int
  PROVE  (a - b) * n = a * n - b * n /\ (a - b - 1) * n = a * n - b * n - n
  BY Z3

(* perf_monitor.cc:15-29: DiffTime returns a normalised timespec, exactly the
   nanoseconds between its arguments, even if the clock was set back. *)
THEOREM DiffTimeExact ==
  ASSUME NEW end \in Timespec, NEW start \in Timespec
  PROVE  /\ DiffTime(end, start) \in Timespec
         /\ Nanos(DiffTime(end, start)) = Nanos(end) - Nanos(start)
<1> DEFINE d == DiffTime(end, start)
<1>1. /\ end.tv_sec \in Int /\ start.tv_sec \in Int
      /\ end.tv_nsec \in 0..(NanosPerSecond - 1)
      /\ start.tv_nsec \in 0..(NanosPerSecond - 1)
  BY DEF Timespec
<1>2. NanosPerSecond \in Int
  BY PerfMonitorAssumption
<1>3. CASE end.tv_nsec - start.tv_nsec < 0
  <2>1. /\ d.tv_sec = end.tv_sec - start.tv_sec - 1
        /\ d.tv_nsec = NanosPerSecond + end.tv_nsec - start.tv_nsec
    BY <1>3 DEF DiffTime
  <2>2. d \in Timespec
    BY <1>1, <1>2, <1>3 DEF DiffTime, Timespec
  <2>3. d.tv_sec * NanosPerSecond = end.tv_sec * NanosPerSecond
          - start.tv_sec * NanosPerSecond - NanosPerSecond
    BY <1>1, <1>2, <2>1, Distribute
  <2>4. \A x, y \in Int : x * NanosPerSecond \in Int
    BY <1>2
  <2> QED BY <1>1, <1>2, <2>1, <2>2, <2>3, <2>4 DEF Nanos
<1>4. CASE ~(end.tv_nsec - start.tv_nsec < 0)
  <2>1. /\ d.tv_sec = end.tv_sec - start.tv_sec
        /\ d.tv_nsec = end.tv_nsec - start.tv_nsec
    BY <1>4 DEF DiffTime
  <2>2. d \in Timespec
    BY <1>1, <1>2, <1>4 DEF DiffTime, Timespec
  <2>3. d.tv_sec * NanosPerSecond = end.tv_sec * NanosPerSecond
          - start.tv_sec * NanosPerSecond
    BY <1>1, <1>2, <2>1, Distribute
  <2>4. \A x, y \in Int : x * NanosPerSecond \in Int
    BY <1>2
  <2> QED BY <1>1, <1>2, <2>1, <2>2, <2>3, <2>4 DEF Nanos
<1> QED BY <1>3, <1>4

-----------------------------------------------------------------------------
ChildStates == {"none", "execute", "count", "exit", "exited"}

(* The types of what main and its children have. *)
Types ==
  /\ ppc \in [Processes -> {"driver", "fork", "left"} \union ChildStates]
  /\ num_requests_ \in [Processes -> 0..NumRequests]
  /\ phase \in [Processes -> {"dry", "timed"}]
  /\ txns_executed_ \in Nat
  /\ executions \in [Requests -> {0, 1}]
  /\ lost \subseteq Requests

(* Only main is in the driver, and main is nowhere else. *)
Where ==
  /\ ppc[Main] \in {"driver", "fork", "left"}
  /\ \A c \in Children : ppc[c] \in ChildStates

(* The request main is in ExecuteRequest with has no child and is not lost. *)
Pending == IF ppc[Main] = "fork" THEN {num_requests_[Main]} ELSE {}

(* A child carries the number of a request main has issued, that was not lost,
   and that no other child carries. *)
Numbering ==
  /\ ppc[Main] = "fork" => num_requests_[Main] \in Requests
  /\ lost \subseteq (1..num_requests_[Main]) \ Pending
  /\ \A c \in Children : ppc[c] # "none" =>
       num_requests_[c] \in (1..num_requests_[Main]) \ (lost \union Pending)
  /\ \A c, d \in Children :
       ppc[c] # "none" /\ ppc[d] # "none" /\ num_requests_[c] = num_requests_[d]
         => c = d

(* The requests whose children are past one of these places. *)
At(states) ==
  {r \in Requests : \E c \in Children :
     ppc[c] \in states /\ num_requests_[c] = r}
Executed == At({"count", "exit", "exited"})
Counted  == At({"exit", "exited"})

Executing == \A r \in Requests : executions[r] = 1 <=> r \in Executed
Counting  == txns_executed_ = Cardinality(Counted)

-----------------------------------------------------------------------------
(* What a step is to main and its children: a child is never in the driver. *)
LEMMA StepCases ==
  ASSUME Types, Where, [Next]_vars
  PROVE  \/ CallExecuteRequest(Main) \/ Fork(Main) \/ ForkFails(Main)
         \/ WaitOutstanding(Main) \/ LeaveExperiment(Main)
         \/ \E c \in Children : Execute(c) \/ Count(c) \/ Exit(c)
         \/ UNCHANGED launcherVars
<1>1. ASSUME NEW p \in Processes, DriverStep(p) \/ ForkError(p)
      PROVE  /\ p = Main
             /\ \/ CallExecuteRequest(Main) \/ Fork(Main) \/ ForkFails(Main)
                \/ WaitOutstanding(Main) \/ LeaveExperiment(Main)
  <2>1. ppc[p] \in {"driver", "fork"}
    BY <1>1 DEF DriverStep, ForkError, Issue, DryRunEnds, Leave,
       CallExecuteRequest, Fork, ForkFails, WaitOutstanding, LeaveExperiment
  <2>2. p = Main
    BY <2>1 DEF Where, Processes, ChildStates
  <2>3. QED
    BY <1>1, <2>2 DEF DriverStep, ForkError, Issue, DryRunEnds, Leave
<1>2. ASSUME MonitorRuns PROVE UNCHANGED launcherVars
  BY <1>2 DEF MonitorRuns, MonitorStep, launcherVars
<1>3. ASSUME NEW c \in Children, ChildRuns(c)
      PROVE  Execute(c) \/ Count(c) \/ Exit(c)
  BY <1>3 DEF ChildRuns, ChildStep
<1>4. ASSUME Terminated \/ UNCHANGED vars PROVE UNCHANGED launcherVars
  BY <1>4 DEF Terminated, vars
<1>5. QED
  BY <1>1, <1>2, <1>3, <1>4 DEF Next

LEMMA Domains ==
  /\ Main \in Processes /\ Main \notin Children
  /\ Children \subseteq Processes /\ Children = Requests
  /\ NumRequests \in Nat
  BY ProcessLauncherAssumption DEF Main, Children, Processes, Requests

LEMMA WhereStep == Types /\ Where /\ [Next]_vars => Where'
<1> SUFFICES ASSUME Types, Where, [Next]_vars PROVE Where'
  OBVIOUS
<1> USE Domains DEF Types, Where, ChildStates
<1>1. ASSUME CallExecuteRequest(Main) \/ ForkFails(Main)
             \/ WaitOutstanding(Main) \/ LeaveExperiment(Main)
             \/ UNCHANGED launcherVars
      PROVE  Where'
  BY <1>1 DEF CallExecuteRequest, ForkFails, WaitOutstanding, LeaveExperiment,
     launcherVars
<1>2. ASSUME Fork(Main) PROVE Where'
  BY <1>2 DEF Fork
<1>3. ASSUME NEW c \in Children, Execute(c) \/ Count(c) \/ Exit(c)
      PROVE  Where'
  BY <1>3 DEF Execute, Count, Exit
<1>4. QED
  BY <1>1, <1>2, <1>3, StepCases

LEMMA NumberingStep ==
  Types /\ Where /\ Numbering /\ [Next]_vars => Numbering'
<1> SUFFICES ASSUME Types, Where, Numbering, [Next]_vars PROVE Numbering'
  OBVIOUS
<1> USE Domains DEF Types, Where, ChildStates, Numbering, Pending
<1>1. ASSUME CallExecuteRequest(Main) PROVE Numbering'
  <2>1. num_requests_[Main] < NumRequests
    BY <1>1, ProcessLauncherAssumption DEF CallExecuteRequest
  <2>2. /\ num_requests_' = [num_requests_ EXCEPT ![Main] = @ + 1]
        /\ ppc' = [ppc EXCEPT ![Main] = "fork"]
        /\ lost' = lost
    BY <1>1 DEF CallExecuteRequest
  <2>3. Pending' = {num_requests_[Main] + 1}
    BY <2>2
  <2>4. QED
    BY SMTT(30), <1>1, <2>1, <2>2, <2>3 DEF CallExecuteRequest, Requests
<1>2. ASSUME Fork(Main) PROVE Numbering'
  <2>1. PICK c \in Children :
          /\ ppc[c] = "none"
          /\ ppc' = [ppc EXCEPT ![Main] = "driver", ![c] = "execute"]
          /\ num_requests_' = [num_requests_ EXCEPT ![c] = num_requests_[Main]]
    BY <1>2 DEF Fork
  <2>2. /\ ppc[Main] = "fork" /\ ppc'[Main] = "driver"
        /\ num_requests_'[Main] = num_requests_[Main]
        /\ num_requests_'[c] = num_requests_[Main]
        /\ ppc'[c] = "execute"
        /\ lost' = lost
    BY <1>2, <2>1 DEF Fork
  <2>3. \A d \in Children \ {c} :
          ppc'[d] = ppc[d] /\ num_requests_'[d] = num_requests_[d]
    BY <2>1
  <2>4. Pending' = {} /\ Pending = {num_requests_[Main]}
    BY <2>2
  <2>5. QED
    BY <2>1, <2>2, <2>3, <2>4 DEF Requests
<1>3. ASSUME ForkFails(Main) PROVE Numbering'
  <2>1. /\ ppc[Main] = "fork" /\ ppc'[Main] = "driver"
        /\ num_requests_' = num_requests_
        /\ lost' = lost \union {num_requests_[Main]}
        /\ \A c \in Children : ppc'[c] = ppc[c]
    BY <1>3 DEF ForkFails
  <2>2. Pending' = {} /\ Pending = {num_requests_[Main]}
    BY <2>1
  <2>3. num_requests_[Main] \in 1..num_requests_[Main]
    BY <2>1 DEF Requests
  <2>4. lost' \subseteq (1..num_requests_'[Main]) \ Pending'
    BY <2>1, <2>2, <2>3
  <2>5. ASSUME NEW c \in Children, ppc'[c] # "none"
        PROVE  num_requests_'[c]
                 \in (1..num_requests_'[Main]) \ (lost' \union Pending')
    BY <2>1, <2>2, <2>5
  <2>6. QED
    BY <2>1, <2>4, <2>5
<1>4. ASSUME WaitOutstanding(Main) \/ LeaveExperiment(Main)
             \/ UNCHANGED launcherVars
      PROVE  Numbering'
  <2>1. /\ num_requests_' = num_requests_ /\ lost' = lost
        /\ \A c \in Children : ppc'[c] = ppc[c]
        /\ (ppc'[Main] = "fork") <=> (ppc[Main] = "fork")
    BY <1>4 DEF WaitOutstanding, LeaveExperiment, launcherVars
  <2>2. Pending' = Pending
    BY <2>1
  <2>3. QED
    BY <2>1, <2>2
<1>5. ASSUME NEW c \in Children, Execute(c) \/ Count(c) \/ Exit(c)
      PROVE  Numbering'
  <2>1. /\ num_requests_' = num_requests_ /\ lost' = lost
        /\ ppc'[Main] = ppc[Main]
        /\ \A d \in Children : ppc'[d] # "none" => ppc[d] # "none"
    BY <1>5 DEF Execute, Count, Exit
  <2>2. QED
    BY <2>1
<1>6. QED
  BY <1>1, <1>2, <1>3, <1>4, <1>5, StepCases

-----------------------------------------------------------------------------
(* What the steps do to the sets of requests whose children are past a place. *)
LEMMA AtKept ==
  ASSUME Types, Where,
         \/ CallExecuteRequest(Main) \/ Fork(Main) \/ ForkFails(Main)
         \/ WaitOutstanding(Main) \/ LeaveExperiment(Main)
         \/ UNCHANGED launcherVars
  PROVE  Executed' = Executed /\ Counted' = Counted
<1> USE Domains DEF Types, Where, ChildStates
<1>1. \A c \in Children :
        \/ ppc'[c] = ppc[c] /\ num_requests_'[c] = num_requests_[c]
        \/ ppc[c] = "none" /\ ppc'[c] = "execute"
  BY DEF CallExecuteRequest, Fork, ForkFails, WaitOutstanding, LeaveExperiment,
     launcherVars
<1>2. QED
  BY <1>1 DEF Executed, Counted, At

LEMMA AtExecute ==
  ASSUME Types, Where, Numbering, NEW c \in Children, Execute(c)
  PROVE  /\ num_requests_[c] \in Requests \ (lost \union Executed)
         /\ Executed' = Executed \union {num_requests_[c]}
         /\ Counted' = Counted
<1> USE Domains DEF Types, Where, ChildStates
<1>1. /\ ppc[c] = "execute" /\ ppc'[c] = "count"
      /\ num_requests_' = num_requests_
      /\ \A d \in Children \ {c} : ppc'[d] = ppc[d]
  BY DEF Execute
<1>2. num_requests_[c] \in Requests \ lost
  BY <1>1 DEF Numbering, Requests
<1>3. num_requests_[c] \notin Executed
  BY <1>1 DEF Numbering, Executed, At
<1>4. QED
  BY <1>1, <1>2, <1>3 DEF Executed, Counted, At

LEMMA AtCount ==
  ASSUME Types, Where, Numbering, NEW c \in Children, Count(c)
  PROVE  /\ num_requests_[c] \in Executed \ Counted
         /\ Executed' = Executed
         /\ Counted' = Counted \union {num_requests_[c]}
<1> USE Domains DEF Types, Where, ChildStates
<1>1. /\ ppc[c] = "count" /\ ppc'[c] = "exit"
      /\ num_requests_' = num_requests_
      /\ \A d \in Children \ {c} : ppc'[d] = ppc[d]
  BY DEF Count
<1>2. num_requests_[c] \in Requests
  BY <1>1 DEF Numbering, Requests
<1>3. num_requests_[c] \in Executed /\ num_requests_[c] \notin Counted
  BY <1>1, <1>2 DEF Numbering, Executed, Counted, At
<1>4. QED
  BY <1>1, <1>2, <1>3 DEF Executed, Counted, At

LEMMA AtExit ==
  ASSUME Types, Where, NEW c \in Children, Exit(c)
  PROVE  Executed' = Executed /\ Counted' = Counted
<1> USE Domains DEF Types, Where, ChildStates
<1>1. /\ ppc[c] = "exit" /\ ppc'[c] = "exited"
      /\ num_requests_' = num_requests_
      /\ \A d \in Children \ {c} : ppc'[d] = ppc[d]
  BY DEF Exit
<1>2. QED
  BY <1>1 DEF Executed, Counted, At

LEMMA CountedFinite ==
  /\ IsFiniteSet(Counted) /\ Cardinality(Counted) \in 0..NumRequests
  /\ IsFiniteSet(Executed) /\ Cardinality(Executed) \in Nat
<1>1. IsFiniteSet(Requests) /\ Cardinality(Requests) = NumRequests
  BY FS_Interval, ProcessLauncherAssumption DEF Requests
<1>2. Counted \subseteq Requests /\ Executed \subseteq Requests
  BY DEF Counted, Executed, At
<1>3. QED
  BY <1>1, <1>2, FS_Subset, FS_CardinalityType, Domains

-----------------------------------------------------------------------------
LEMMA TypesStep ==
  Types /\ Where /\ Numbering /\ Executing /\ [Next]_vars => Types'
<1> SUFFICES ASSUME Types, Where, Numbering, Executing, [Next]_vars
             PROVE  Types'
  OBVIOUS
<1> USE Domains DEF Types, ChildStates
<1>1. ASSUME CallExecuteRequest(Main) PROVE Types'
  <2>1. num_requests_[Main] + 1 \in 0..NumRequests
    BY <1>1, ProcessLauncherAssumption DEF CallExecuteRequest
  <2>2. QED
    BY <1>1, <2>1 DEF CallExecuteRequest
<1>2. ASSUME Fork(Main) PROVE Types'
  BY <1>2 DEF Fork
<1>3. ASSUME ForkFails(Main) PROVE Types'
  BY <1>3 DEF ForkFails, Numbering
<1>4. ASSUME WaitOutstanding(Main) \/ LeaveExperiment(Main)
             \/ UNCHANGED launcherVars
      PROVE  Types'
  BY <1>4 DEF WaitOutstanding, LeaveExperiment, launcherVars
<1>5. ASSUME NEW c \in Children, Execute(c) PROVE Types'
  <2>1. executions[num_requests_[c]] = 0
    BY <1>5, AtExecute DEF Executing
  <2>2. executions' = [executions EXCEPT ![num_requests_[c]] = 1]
    BY <1>5, <2>1 DEF Execute
  <2>3. executions' \in [Requests -> {0, 1}]
    BY <2>2
  <2>4. ppc' \in [Processes -> {"driver", "fork", "left"} \union ChildStates]
    BY <1>5 DEF Execute
  <2>5. QED
    BY <1>5, <2>3, <2>4 DEF Execute
<1>6. ASSUME NEW c \in Children, Count(c) \/ Exit(c) PROVE Types'
  BY <1>6 DEF Count, Exit, FetchAndIncrement
<1>7. QED
  BY <1>1, <1>2, <1>3, <1>4, <1>5, <1>6, StepCases

LEMMA ExecutingStep ==
  Types /\ Where /\ Numbering /\ Executing /\ [Next]_vars => Executing'
<1> SUFFICES ASSUME Types, Where, Numbering, Executing, [Next]_vars
             PROVE  Executing'
  OBVIOUS
<1>1. ASSUME \/ CallExecuteRequest(Main) \/ Fork(Main) \/ ForkFails(Main)
             \/ WaitOutstanding(Main) \/ LeaveExperiment(Main)
             \/ UNCHANGED launcherVars
      PROVE  Executing'
  <2>1. executions' = executions
    BY <1>1 DEF CallExecuteRequest, Fork, ForkFails, WaitOutstanding,
       LeaveExperiment, launcherVars
  <2>2. QED
    BY <1>1, <2>1, AtKept DEF Executing
<1>2. ASSUME NEW c \in Children, Execute(c) PROVE Executing'
  <2>1. executions' = [executions EXCEPT ![num_requests_[c]] = @ + 1]
    BY <1>2 DEF Execute
  <2>2. QED
    BY <1>2, <2>1, AtExecute DEF Executing, Types
<1>3. ASSUME NEW c \in Children, Count(c) \/ Exit(c) PROVE Executing'
  <2>1. executions' = executions
    BY <1>3 DEF Count, Exit
  <2>2. QED
    BY <1>3, <2>1, AtCount, AtExit DEF Executing
<1>4. QED
  BY <1>1, <1>2, <1>3, StepCases

LEMMA CountingStep ==
  Types /\ Where /\ Numbering /\ Counting /\ [Next]_vars => Counting'
<1> SUFFICES ASSUME Types, Where, Numbering, Counting, [Next]_vars
             PROVE  Counting'
  OBVIOUS
<1>1. ASSUME \/ CallExecuteRequest(Main) \/ Fork(Main) \/ ForkFails(Main)
             \/ WaitOutstanding(Main) \/ LeaveExperiment(Main)
             \/ UNCHANGED launcherVars
      PROVE  Counting'
  <2>1. txns_executed_' = txns_executed_
    BY <1>1 DEF CallExecuteRequest, Fork, ForkFails, WaitOutstanding,
       LeaveExperiment, launcherVars
  <2>2. QED
    BY <1>1, <2>1, AtKept DEF Counting
<1>2. ASSUME NEW c \in Children, Execute(c) \/ Exit(c) PROVE Counting'
  <2>1. txns_executed_' = txns_executed_
    BY <1>2 DEF Execute, Exit
  <2>2. QED
    BY <1>2, <2>1, AtExecute, AtExit DEF Counting
<1>3. ASSUME NEW c \in Children, Count(c) PROVE Counting'
  <2>1. txns_executed_' = txns_executed_ + 1
    BY <1>3 DEF Count, FetchAndIncrement
  <2>2. Cardinality(Counted') = Cardinality(Counted) + 1
    BY <1>3, AtCount, CountedFinite, FS_AddElement
  <2>3. QED
    BY <2>1, <2>2 DEF Counting
<1>4. QED
  BY <1>1, <1>2, <1>3, StepCases

-----------------------------------------------------------------------------
(* The inductive invariant of main and its children. *)
IInv == Types /\ Where /\ Numbering /\ Executing /\ Counting

LEMMA IInvInit == ExperimentInit => IInv
<1> SUFFICES ASSUME ExperimentInit PROVE IInv
  OBVIOUS
<1> USE Domains DEF ExperimentInit, Init, CounterInit
<1>1. Types /\ Where
  BY DEF Types, Where, ChildStates, Processes
<1>2. /\ ppc[Main] = "driver" /\ num_requests_[Main] = 0 /\ lost = {}
      /\ \A c \in Children : ppc[c] = "none"
  BY DEF Processes
<1>3. Numbering
  BY <1>2 DEF Numbering, Pending
<1>4. Executed = {} /\ Counted = {}
  BY <1>2 DEF Executed, Counted, At
<1>5. Executing
  BY <1>4 DEF Executing
<1>6. Counting
  BY <1>4, FS_EmptySet DEF Counting
<1>7. QED
  BY <1>1, <1>3, <1>5, <1>6 DEF IInv

LEMMA IInvStep == IInv /\ [Next]_vars => IInv'
  BY TypesStep, WhereStep, NumberingStep, ExecutingStep, CountingStep DEF IInv

LEMMA IInvAlways == Spec => []IInv
  BY IInvInit, IInvStep, PTL DEF Spec

(* process_launcher.cc:131: whatever the number of requests and the failures of
   fork(), no request is executed twice, none that was lost is executed, and no
   child ever runs the driver's code. *)
THEOREM ExecutesOnce == Spec => []ExecutedOnce
<1>1. IInv => ExecutedOnce
  <2> SUFFICES ASSUME IInv PROVE ExecutedOnce
    OBVIOUS
  <2>1. ASSUME NEW r \in Requests, r \in lost PROVE executions[r] = 0
    <3>1. r \notin Executed
      BY <2>1 DEF IInv, Numbering, Executed, At
    <3>2. QED
      BY <3>1 DEF IInv, Types, Executing
  <2>2. \A r \in Requests : executions[r] <= 1
    BY DEF IInv, Types
  <2>3. \A c \in Children : ppc[c] \notin {"driver", "fork", "left"}
    BY DEF IInv, Where, ChildStates
  <2>4. QED
    BY <2>1, <2>2, <2>3 DEF ExecutedOnce
<1>2. QED
  BY <1>1, IInvAlways, PTL

-----------------------------------------------------------------------------
(* The types of what the monitor has; the counter is never behind its reading. *)
MonitorTypes ==
  /\ mpc \in {"none", "created", "sleep", "ended"}
  /\ prev_txns_elapsed_ \in 0..txns_executed_
  /\ prev_time_elapsed_ \in Timespec
  /\ results_ \in Seq([executed : Nat, interval : Timespec])
  /\ done \in BOOLEAN
  /\ started \in [txns : Nat, time : Timespec]

LEMMA AfterTimespec ==
  ASSUME NEW t \in Timespec, NEW n \in Nat PROVE After(t, n) \in Timespec
<1>1. /\ t.tv_sec \in Int /\ t.tv_nsec + n \in Int
      /\ NanosPerSecond \in Nat \ {0}
  BY PerfMonitorAssumption DEF Timespec
<1>2. /\ (t.tv_nsec + n) \div NanosPerSecond \in Int
      /\ (t.tv_nsec + n) % NanosPerSecond \in 0..(NanosPerSecond - 1)
  BY <1>1
<1>3. QED
  BY <1>1, <1>2 DEF After, Timespec

LEMMA MonitorTypesStep == Types /\ MonitorTypes /\ [Next]_vars => MonitorTypes'
<1> SUFFICES ASSUME Types, MonitorTypes, [Next]_vars PROVE MonitorTypes'
  OBVIOUS
<1> USE DEF MonitorTypes
<1>1. CASE UNCHANGED monitorVars /\ txns_executed_' = txns_executed_
  BY <1>1 DEF monitorVars
<1>2. CASE UNCHANGED monitorVars /\ txns_executed_' = txns_executed_ + 1
  BY <1>2 DEF monitorVars, Types
<1>3. ASSUME NEW p \in Processes, DryRunEnds(p) PROVE MonitorTypes'
  BY <1>3 DEF DryRunEnds, WaitOutstanding
<1>4. ASSUME MonitorRuns PROVE MonitorTypes'
  <2>1. txns_executed_' = txns_executed_ /\ txns_executed_ \in Nat
    BY <1>4 DEF MonitorRuns, MonitorStep, Types
  <2>2. CASE Start
    <3>1. PICK d \in 0..MaxDelay :
            prev_time_elapsed_' = After(prev_time_elapsed_, d)
      BY <2>2 DEF Start
    <3>2. prev_time_elapsed_' \in Timespec
      BY <3>1, AfterTimespec, PerfMonitorAssumption
    <3>3. QED
      BY <1>4, <2>1, <2>2, <3>2 DEF MonitorRuns, Start
  <2>3. CASE Sample
    <3>1. PICK d \in 0..MaxDelay :
            /\ prev_time_elapsed_' = After(prev_time_elapsed_, NanosPerSecond + d)
            /\ results_' = Append(results_,
                 [executed |-> txns_executed_ - prev_txns_elapsed_,
                  interval |-> DiffTime(prev_time_elapsed_', prev_time_elapsed_)])
      BY <2>3 DEF Sample
    <3>2. prev_time_elapsed_' \in Timespec
      BY <3>1, AfterTimespec, PerfMonitorAssumption
    <3>3. DiffTime(prev_time_elapsed_', prev_time_elapsed_) \in Timespec
      BY <3>2, DiffTimeExact
    <3>4. txns_executed_ - prev_txns_elapsed_ \in Nat
      BY <2>1
    <3>5. results_' \in Seq([executed : Nat, interval : Timespec])
      BY <3>1, <3>3, <3>4
    <3>6. QED
      BY <1>4, <2>1, <2>3, <3>2, <3>5 DEF MonitorRuns, Sample
  <2>4. CASE SetDone
    BY <1>4, <2>1, <2>4 DEF MonitorRuns, SetDone
  <2>5. QED
    BY <1>4, <2>2, <2>3, <2>4 DEF MonitorRuns, MonitorStep
<1>5. ASSUME NEW p \in Processes,
             Issue(p) \/ (Fork(p) /\ UNCHANGED monitorVars) \/ Leave(p)
               \/ ForkError(p)
      PROVE  MonitorTypes'
  BY <1>1, <1>5 DEF Issue, Fork, Leave, ForkError, CallExecuteRequest,
     LeaveExperiment, ForkFails
<1>6. ASSUME NEW c \in Children, ChildRuns(c) PROVE MonitorTypes'
  BY <1>1, <1>2, <1>6 DEF ChildRuns, ChildStep, Execute, Count, Exit,
     FetchAndIncrement
<1>7. ASSUME Terminated \/ UNCHANGED vars PROVE MonitorTypes'
  BY <1>1, <1>7 DEF Terminated, vars, launcherVars
<1>8. QED
  BY <1>3, <1>4, <1>5, <1>6, <1>7 DEF Next, DriverStep

LEMMA MonitorTypesInit == ExperimentInit => MonitorTypes
<1> DEFINE zero == [tv_sec |-> 0, tv_nsec |-> 0]
<1>1. zero \in Timespec
  BY PerfMonitorAssumption DEF Timespec
<1> HIDE DEF zero
<1>2. [txns |-> 0, time |-> zero] \in [txns : Nat, time : Timespec]
  BY <1>1
<1>3. ASSUME ExperimentInit
      PROVE  /\ txns_executed_ = 0 /\ prev_txns_elapsed_ = 0
             /\ mpc = "none" /\ results_ = <<>>
             /\ prev_time_elapsed_ = zero
             /\ started = [txns |-> 0, time |-> zero]
             /\ done \in BOOLEAN
  BY <1>3 DEF ExperimentInit, MonitorInit, Init, CounterInit, zero
<1> QED
  BY <1>1, <1>2, <1>3 DEF MonitorTypes

(* Every variable of the experiment has its type in every state. *)
THEOREM TypeCorrect == Spec => []TypeOK
<1>1. ExperimentInit => MonitorTypes
  BY MonitorTypesInit
<1>2. Spec => []MonitorTypes
  <2>1. IInv /\ MonitorTypes /\ [Next]_vars => MonitorTypes'
    BY MonitorTypesStep DEF IInv
  <2>2. QED
    BY <1>1, <2>1, IInvAlways, PTL DEF Spec
<1>3. IInv /\ MonitorTypes => TypeOK
  <2> SUFFICES ASSUME IInv, MonitorTypes PROVE TypeOK
    OBVIOUS
  <2>1. txns_executed_ \in 0..NumRequests
    BY CountedFinite DEF IInv, Counting
  <2>2. executions \in [Requests -> Nat]
    BY DEF IInv, Types
  <2>3. prev_txns_elapsed_ \in Nat
    BY <2>1, Domains DEF MonitorTypes
  <2>4. ppc \in [Processes -> {"none", "driver", "fork", "left", "execute",
                              "count", "exit", "exited"}]
    BY DEF IInv, Types, ChildStates
  <2>5. QED
    BY <2>1, <2>2, <2>3, <2>4 DEF IInv, Types, MonitorTypes, TypeOK
<1>4. QED
  BY <1>2, <1>3, IInvAlways, PTL

-----------------------------------------------------------------------------
(* Running is a part of what main has issued, and what remains of it when the
   children that are past Execute are left out. *)
LEMMA RunningFinite ==
  ASSUME IInv
  PROVE  /\ num_requests_[Main] \in 0..NumRequests
         /\ IsFiniteSet(1..num_requests_[Main])
         /\ Cardinality(1..num_requests_[Main]) = num_requests_[Main]
         /\ IsFiniteSet(Running) /\ Cardinality(Running) \in Nat
         /\ Cardinality(Running) <= num_requests_[Main]
<1>1. num_requests_[Main] \in 0..NumRequests
  BY Domains DEF IInv, Types
<1>2. /\ IsFiniteSet(1..num_requests_[Main])
      /\ Cardinality(1..num_requests_[Main]) = num_requests_[Main]
  <2> DEFINE n == num_requests_[Main]
  <2>1. n \in Nat
    BY <1>1, Domains
  <2> HIDE DEF n
  <2>2. IsFiniteSet(1..n) /\ Cardinality(1..n) = IF 1 > n THEN 0 ELSE n - 1 + 1
    BY <2>1, FS_Interval
  <2>3. Cardinality(1..n) = n
    BY <2>1, <2>2
  <2>4. QED
    BY <2>2, <2>3 DEF n
<1>3. Running \subseteq 1..num_requests_[Main]
  BY DEF Running
<1>4. /\ IsFiniteSet(Running)
      /\ Cardinality(Running) <= Cardinality(1..num_requests_[Main])
  BY <1>2, <1>3, FS_Subset
<1>5. Cardinality(Running) \in Nat
  BY <1>4, FS_CardinalityType
<1>6. QED
  BY <1>1, <1>2, <1>4, <1>5

RunningIs == Running = (1..num_requests_[Main]) \ Executed

LEMMA RunningKnown == IInv => RunningIs
<1> SUFFICES ASSUME IInv PROVE RunningIs
  OBVIOUS
<1>1. 1..num_requests_[Main] \subseteq Requests
  BY Domains DEF IInv, Types, Requests
<1>2. \A r \in Requests : executions[r] = 0 <=> r \notin Executed
  BY DEF IInv, Types, Executing
<1>3. QED
  BY <1>1, <1>2 DEF RunningIs, Running

(* The same before and after a step. *)
LEMMA RunningSteps == IInv /\ IInv' => RunningIs /\ RunningIs'
  BY RunningKnown, PTL

(* Cardinality as BoundedLauncher's instance of FiniteSets defines it. *)
LEMMA LauncherCardinality == \A S : Launcher!Cardinality(S) = Cardinality(S)
  BY DEF Launcher!Cardinality, Cardinality, Launcher!IsFiniteSet, IsFiniteSet

LEMMA IssueStep ==
  ASSUME IInv, IInv', CallExecuteRequest(Main) PROVE Launcher!Issue
<1>1. /\ num_requests_'[Main] = num_requests_[Main] + 1
      /\ num_requests_[Main] < NumRequests
      /\ txns_executed_' = txns_executed_ /\ phase' = phase
  BY Domains, ProcessLauncherAssumption DEF CallExecuteRequest, IInv, Types
<1>2. Executed' = Executed
  BY AtKept DEF IInv
<1>3. num_requests_[Main] + 1 \notin Executed
  BY Domains, RunningFinite, <1>1 DEF IInv, Where, Numbering, Executed, At,
     ChildStates
<1>4. 1..(num_requests_[Main] + 1)
        = (1..num_requests_[Main]) \union {num_requests_[Main] + 1}
  BY RunningFinite
<1>5. Running' = (1..(num_requests_[Main] + 1)) \ Executed
  BY <1>1, <1>2, RunningSteps DEF RunningIs
<1>6. Running' = Running \union {num_requests_[Main] + 1}
  BY <1>3, <1>4, <1>5, RunningSteps DEF RunningIs
<1>7. Cardinality(Running) < NumRequests
  BY <1>1, RunningFinite, Domains
<1>8. QED
  BY <1>1, <1>6, <1>7, LauncherCardinality DEF Launcher!Issue

LEMMA FinishStep ==
  ASSUME IInv, IInv', NEW c \in Children, Execute(c) PROVE Launcher!Finish
<1>1. /\ num_requests_' = num_requests_ /\ phase' = phase
      /\ txns_executed_' = txns_executed_
  BY DEF Execute
<1>2. /\ num_requests_[c] \notin Executed
      /\ Executed' = Executed \union {num_requests_[c]}
  BY AtExecute DEF IInv
<1>3. num_requests_[c] \in 1..num_requests_[Main]
  BY DEF Execute, IInv, Numbering
<1>4. num_requests_[c] \in Running
  BY <1>2, <1>3, RunningSteps DEF RunningIs
<1>5. Running' = Running \ {num_requests_[c]}
  BY <1>1, <1>2, RunningSteps DEF RunningIs
<1>6. QED
  BY <1>1, <1>4, <1>5 DEF Launcher!Finish

(* The request that is counted is neither running nor already counted. *)
LEMMA CountStep ==
  ASSUME IInv, IInv', NEW c \in Children, Count(c) PROVE Launcher!Count
<1> DEFINE r == num_requests_[c]
           Uncounted == (1..num_requests_[Main]) \ {r}
<1>1. /\ num_requests_' = num_requests_ /\ phase' = phase
      /\ txns_executed_' = txns_executed_ + 1
  BY DEF Count, FetchAndIncrement
<1>2. r \in Executed /\ r \notin Counted /\ Executed' = Executed
  BY AtCount DEF IInv
<1>3. Running' = Running
  BY <1>1, <1>2, RunningSteps DEF RunningIs
<1>4. r \in 1..num_requests_[Main]
  BY DEF Count, IInv, Numbering
<1>5. Counted \subseteq Executed /\ Counted \subseteq 1..num_requests_[Main]
  BY DEF Counted, Executed, At, IInv, Numbering
<1>6. Counted \union Running \subseteq Uncounted /\ Counted \intersect Running = {}
  BY <1>2, <1>5, RunningSteps DEF RunningIs
<1>7. IsFiniteSet(Uncounted) /\ Cardinality(Uncounted) = num_requests_[Main] - 1
  BY ZenonT(40), <1>4, RunningFinite, FS_RemoveElement
<1>8. Cardinality(Counted \union Running)
        = Cardinality(Counted) + Cardinality(Running)
  <2>1. Cardinality(Counted \union Running)
          = Cardinality(Counted) + Cardinality(Running)
            - Cardinality(Counted \intersect Running)
    BY CountedFinite, RunningFinite, FS_Union
  <2>2. Cardinality(Counted \intersect Running) = 0
    BY <1>6, FS_EmptySet
  <2>3. QED
    BY <2>1, <2>2, CountedFinite, RunningFinite
<1>9. Cardinality(Counted \union Running) <= num_requests_[Main] - 1
  BY <1>6, <1>7, FS_Subset
<1>10. txns_executed_ + Cardinality(Running) < num_requests_[Main]
  BY <1>8, <1>9, CountedFinite, RunningFinite DEF IInv, Counting
<1>11. QED
  BY <1>1, <1>3, <1>10, LauncherCardinality DEF Launcher!Count

LEMMA OtherStep ==
  ASSUME IInv, IInv',
         \/ Fork(Main) \/ ForkFails(Main) \/ LeaveExperiment(Main)
         \/ \E c \in Children : Exit(c)
         \/ UNCHANGED launcherVars
  PROVE  UNCHANGED Launcher!absVars
<1>1. /\ num_requests_'[Main] = num_requests_[Main]
      /\ phase'[Main] = phase[Main]
      /\ txns_executed_' = txns_executed_
  BY Domains DEF Fork, ForkFails, LeaveExperiment, Exit, launcherVars, IInv,
     Types
<1>2. Executed' = Executed
  BY AtKept, AtExit DEF IInv
<1>3. Running' = Running
  BY <1>1, <1>2, RunningSteps DEF RunningIs
<1>4. QED
  BY <1>1, <1>3 DEF Launcher!absVars

LEMMA WaitStep ==
  ASSUME IInv, IInv', WaitOutstanding(Main) PROVE Launcher!WaitOutstanding
<1>1. /\ num_requests_' = num_requests_
      /\ txns_executed_' = txns_executed_
      /\ txns_executed_ = num_requests_[Main]
      /\ phase'[Main] = "timed"
  BY Domains DEF WaitOutstanding, IInv, Types
<1>2. Executed' = Executed
  BY AtKept DEF IInv
<1>3. Running' = Running
  BY <1>1, <1>2, RunningSteps DEF RunningIs
<1>4. QED
  BY <1>1, <1>3 DEF Launcher!WaitOutstanding

(* launcher.h:22-31: process_launcher.cc keeps what a launcher promises, with
   no bound but the number of requests, for any number of them and whichever
   calls to fork() fail. *)
THEOREM RefinesLauncherSafety == Spec => RefinesBoundedLauncher
<1>1. ExperimentInit => Launcher!Init
  <2> SUFFICES ASSUME ExperimentInit PROVE Launcher!Init
    OBVIOUS
  <2>1. /\ num_requests_[Main] = 0 /\ txns_executed_ = 0
        /\ phase[Main] = "dry"
    BY Domains DEF ExperimentInit, Init, CounterInit
  <2>2. Running = {}
    BY <2>1 DEF Running
  <2>3. QED
    BY <2>1, <2>2 DEF Launcher!Init
<1>2. IInv /\ IInv' /\ [Next]_vars => [Launcher!Next]_(Launcher!absVars)
  <2> SUFFICES ASSUME IInv, IInv', [Next]_vars
               PROVE  Launcher!Next \/ UNCHANGED Launcher!absVars
    OBVIOUS
  <2>1. CASE CallExecuteRequest(Main)
    BY <2>1, IssueStep DEF Launcher!Next
  <2>2. CASE WaitOutstanding(Main)
    BY <2>2, WaitStep DEF Launcher!Next
  <2>3. ASSUME NEW c \in Children, Execute(c) PROVE Launcher!Next
    BY <2>3, FinishStep DEF Launcher!Next
  <2>4. ASSUME NEW c \in Children, Count(c) PROVE Launcher!Next
    BY <2>4, CountStep DEF Launcher!Next
  <2>5. CASE \/ Fork(Main) \/ ForkFails(Main) \/ LeaveExperiment(Main)
             \/ \E c \in Children : Exit(c)
             \/ UNCHANGED launcherVars
    BY <2>5, OtherStep
  <2>6. Types /\ Where
    BY DEF IInv
  <2>7. QED
    BY <2>1, <2>2, <2>3, <2>4, <2>5, <2>6, StepCases
<1>3. QED
  BY <1>1, <1>2, IInvAlways, PTL DEF Spec, RefinesBoundedLauncher

-----------------------------------------------------------------------------
(* The samples. *)

LEMMA DivMod ==
  ASSUME NEW x \in Nat, NEW m \in Nat \ {0}
  PROVE  /\ x \div m \in Int /\ x % m \in Int
         /\ x = m * (x \div m) + (x % m)
  BY SMT

LEMMA Carry ==
  ASSUME NEW a \in Int, NEW b \in Int, NEW n \in Int
  PROVE  (a + b) * n = a * n + n * b /\ a * n \in Int /\ n * b \in Int
  BY Z3

(* A reading of the clock is later by just the time that has passed. *)
LEMMA AfterExact ==
  ASSUME NEW t \in Timespec, NEW n \in Nat
  PROVE  Nanos(After(t, n)) = Nanos(t) + n
<1>1. /\ NanosPerSecond \in Nat \ {0} /\ NanosPerSecond \in Int /\ t.tv_sec \in Int
      /\ t.tv_nsec \in Nat /\ t.tv_nsec + n \in Nat
  BY PerfMonitorAssumption DEF Timespec
<1>2. PICK q, r : /\ q = (t.tv_nsec + n) \div NanosPerSecond
                  /\ r = (t.tv_nsec + n) % NanosPerSecond
  OBVIOUS
<1>3. q \in Int /\ r \in Int /\ t.tv_nsec + n = NanosPerSecond * q + r
  BY <1>1, <1>2, DivMod
<1>4. Nanos(After(t, n)) = (t.tv_sec + q) * NanosPerSecond + r
  BY <1>2 DEF After, Nanos
<1>5. PICK u, v : u = t.tv_sec * NanosPerSecond /\ v = NanosPerSecond * q
  OBVIOUS
<1>6. (t.tv_sec + q) * NanosPerSecond = u + v /\ u \in Int /\ v \in Int
  BY <1>1, <1>3, <1>5, Carry
<1>7. Nanos(t) = u + t.tv_nsec /\ t.tv_nsec + n = v + r /\ Nanos(After(t, n)) = u + v + r
  BY <1>3, <1>4, <1>5, <1>6 DEF Nanos
<1>8. u \in Int /\ v \in Int /\ r \in Int /\ t.tv_nsec \in Int
  BY <1>1, <1>3, <1>6
<1> QED
  BY <1>7, <1>8

(* An interval of a second or more has one in tv_sec. *)
LEMMA WholeSecond ==
  ASSUME NEW t \in Timespec, Nanos(t) >= NanosPerSecond
  PROVE  t.tv_sec >= 1
<1>1. /\ NanosPerSecond \in Nat \ {0} /\ t.tv_sec \in Int
      /\ t.tv_nsec \in 0..(NanosPerSecond - 1)
  BY PerfMonitorAssumption DEF Timespec
<1>2. \A a \in Int, c \in Nat : a <= 0 => a * c <= 0
  BY Z3
<1>3. SUFFICES ASSUME t.tv_sec <= 0 PROVE FALSE
  BY <1>1
<1>4. t.tv_sec * NanosPerSecond <= 0 /\ t.tv_sec * NanosPerSecond \in Int
  BY <1>1, <1>2, <1>3
<1> QED
  BY <1>1, <1>4 DEF Nanos

(* The monitor is created when the dry run has been executed, and has no result
   before its first reading. *)
Drained == IF phase[Main] = "dry" THEN mpc = "none" ELSE txns_executed_ >= DryRun
Fresh   == mpc \in {"none", "created"} => results_ = <<>>

Monitored == MonitorTypes /\ Drained /\ Fresh /\ SamplesTile

LEMMA StartTiles ==
  ASSUME Types, Monitored, MonitorRuns, Start
  PROVE  SamplesTile'
<1>1. /\ results_ = <<>> /\ results_' = <<>> /\ txns_executed_ >= DryRun
      /\ txns_executed_ \in Nat /\ prev_txns_elapsed_' = txns_executed_
      /\ started' = [txns |-> prev_txns_elapsed_', time |-> prev_time_elapsed_']
      /\ prev_time_elapsed_' \in Timespec
  <2>1. PICK d \in 0..MaxDelay : prev_time_elapsed_' = After(prev_time_elapsed_, d)
    BY DEF Start
  <2> QED
    BY <2>1, AfterTimespec, PerfMonitorAssumption
    DEF Types, Monitored, Drained, Fresh, MonitorTypes, MonitorRuns, Start
<1>2. \A f : DOMAIN f = {} => SumFunction(f) = 0
  BY SumFunctionIs, SumEmpty
<1>3. Nanos(prev_time_elapsed_') \in Int
  BY <1>1, PerfMonitorAssumption DEF Nanos, Timespec
<1> QED
  BY <1>1, <1>2, <1>3, ProcessLauncherAssumption DEF SamplesTile

LEMMA SampleTiles ==
  ASSUME Types, Monitored, MonitorRuns, Sample
  PROVE  SamplesTile'
<1> DEFINE n      == Len(results_)
           counts == [j \in DOMAIN results_ |-> results_[j].executed]
           times  == [j \in DOMAIN results_ |-> Nanos(results_[j].interval)]
           new    == results_'[n + 1]
<1>0. PICK e :
        e = [executed |-> txns_executed_ - prev_txns_elapsed_,
                interval |-> DiffTime(prev_time_elapsed_', prev_time_elapsed_)]
  OBVIOUS
<1>1. PICK d \in 0..MaxDelay :
        /\ prev_time_elapsed_' = After(prev_time_elapsed_, NanosPerSecond + d)
        /\ results_' = Append(results_, e)
  BY <1>0 DEF Sample
<1>2. /\ results_ \in Seq([executed : Nat, interval : Timespec])
      /\ prev_time_elapsed_ \in Timespec /\ txns_executed_ \in Nat
      /\ prev_txns_elapsed_ \in Nat /\ prev_txns_elapsed_' = txns_executed_
      /\ NanosPerSecond + d \in Nat /\ NanosPerSecond \in Nat
      /\ started' = started /\ started \in [txns : Nat, time : Timespec]
      /\ mpc = "sleep"
  BY PerfMonitorAssumption DEF Types, Monitored, MonitorTypes, MonitorRuns, Sample
<1>3. /\ n \in Nat /\ DOMAIN results_ = 1..n /\ DOMAIN results_' = 1..(n + 1)
      /\ \A j \in 1..n : results_'[j] = results_[j]
      /\ new = e
  BY <1>1, <1>2
<1>4. \A j \in 1..n : results_[j] \in [executed : Nat, interval : Timespec]
  BY ZenonT(40), <1>2, <1>3, QueueIndex
<1>5. /\ new.executed = txns_executed_ - prev_txns_elapsed_
      /\ Nanos(new.interval) = Nanos(prev_time_elapsed_') - Nanos(prev_time_elapsed_)
      /\ new.interval \in Timespec
      /\ Nanos(prev_time_elapsed_') = Nanos(prev_time_elapsed_) + (NanosPerSecond + d)
  <2>1. /\ prev_time_elapsed_' \in Timespec
        /\ Nanos(prev_time_elapsed_') = Nanos(prev_time_elapsed_) + (NanosPerSecond + d)
    BY <1>1, <1>2, AfterTimespec, AfterExact
  <2>2. /\ e.executed = txns_executed_ - prev_txns_elapsed_
        /\ e.interval = DiffTime(prev_time_elapsed_', prev_time_elapsed_)
    BY <1>0
  <2>3. /\ Nanos(e.interval) = Nanos(prev_time_elapsed_') - Nanos(prev_time_elapsed_)
        /\ e.interval \in Timespec
    BY <1>2, <2>1, <2>2, DiffTimeExact
  <2> QED
    BY <1>3, <2>1, <2>2, <2>3
<1>6. \A t \in Timespec : Nanos(t) \in Int
  BY <1>2 DEF Nanos, Timespec
<1>7. /\ started.txns >= DryRun
      /\ started.txns + SumFunction(counts) = prev_txns_elapsed_
      /\ Nanos(started.time) + SumFunction(times) = Nanos(prev_time_elapsed_)
      /\ \A j \in 1..n : results_[j].interval.tv_sec >= 1
  BY <1>2, <1>3 DEF Monitored, SamplesTile
<1> HIDE DEF n, new
<1>8. /\ SumFunction(counts') = SumFunction(counts) + new.executed
      /\ SumFunction(counts) \in Int
  <2>1. DOMAIN counts = 1..n /\ DOMAIN counts' = 1..(n + 1)
    BY <1>3
  <2>2. \A j \in 1..n : counts[j] \in Int /\ counts'[j] = counts[j]
    BY <1>3, <1>4
  <2>3. counts'[n + 1] = new.executed /\ new.executed \in Int
    BY <1>2, <1>3, <1>5 DEF new
  <2> HIDE DEF counts
  <2> QED
    BY <1>3, <2>1, <2>2, <2>3, SumExtends
<1>9. /\ SumFunction(times') = SumFunction(times) + Nanos(new.interval)
      /\ SumFunction(times) \in Int
  <2>1. DOMAIN times = 1..n /\ DOMAIN times' = 1..(n + 1)
    BY <1>3
  <2>2. \A j \in 1..n : times[j] \in Int /\ times'[j] = times[j]
    BY <1>3, <1>4, <1>6
  <2>3. times'[n + 1] = Nanos(new.interval) /\ Nanos(new.interval) \in Int
    BY <1>3, <1>5, <1>6 DEF new
  <2> HIDE DEF times
  <2> QED
    BY <1>3, <2>1, <2>2, <2>3, SumExtends
<1> HIDE DEF counts, times
<1>10. started.txns + SumFunction(counts') = prev_txns_elapsed_'
  BY SMTT(30), <1>2, <1>5, <1>7, <1>8
<1>11. Nanos(started.time) + SumFunction(times') = Nanos(prev_time_elapsed_')
  <2>1. Nanos(started.time) \in Int /\ Nanos(prev_time_elapsed_) \in Int
    BY <1>2, <1>6
  <2> QED
    BY <1>2, <1>5, <1>7, <1>9, <2>1
<1>12. \A j \in 1..(n + 1) : results_'[j].interval.tv_sec >= 1
  <2>1. Nanos(new.interval) >= NanosPerSecond
    <3>1. Nanos(prev_time_elapsed_) \in Int
      BY <1>2, <1>6
    <3> QED
      BY <1>2, <1>5, <3>1
  <2>2. new.interval.tv_sec >= 1
    BY <1>5, <2>1, WholeSecond
  <2>3. \A j \in 1..(n + 1) : j \in 1..n \/ j = n + 1
    BY <1>3
  <2> QED
    BY <1>3, <1>7, <2>2, <2>3 DEF new
<1> QED
  BY <1>2, <1>3, <1>7, <1>10, <1>11, <1>12 DEF SamplesTile, counts, times

(* What main and its children do without the monitor. *)
LEMMA UnmonitoredStep ==
  ASSUME Types, Where, [Next]_vars
  PROVE  /\ txns_executed_' \in Nat /\ txns_executed_' >= txns_executed_
         /\ \/ phase'[Main] = phase[Main]
            \/ phase'[Main] = "timed" /\ txns_executed_' = DryRun /\ WaitOutstanding(Main)
<1>0. Main \in Processes /\ Main \notin Children /\ Children \subseteq Processes
  BY Domains
<1>1. CASE \/ CallExecuteRequest(Main) \/ ForkFails(Main) \/ LeaveExperiment(Main)
           \/ UNCHANGED launcherVars
  BY <1>1 DEF Types, CallExecuteRequest, ForkFails, LeaveExperiment, launcherVars
<1>2. CASE Fork(Main)
  BY <1>0, <1>2 DEF Types, Fork
<1>3. CASE WaitOutstanding(Main)
  BY <1>0, <1>3 DEF Types, WaitOutstanding
<1>4. ASSUME NEW c \in Children, Execute(c) \/ Count(c) \/ Exit(c)
      PROVE  /\ txns_executed_' \in Nat /\ txns_executed_' >= txns_executed_
             /\ phase'[Main] = phase[Main]
  BY <1>4 DEF Types, Execute, Count, Exit, FetchAndIncrement
<1> QED
  BY <1>1, <1>2, <1>3, <1>4, StepCases

LEMMA MonitoredStep ==
  ASSUME IInv, Monitored, [Next]_vars
  PROVE  Monitored'
<1>0. Types /\ Where /\ MonitorTypes' /\ Main \in Processes /\ DryRun \in Nat
      /\ phase[Main] \in {"dry", "timed"} /\ txns_executed_ \in Nat
  BY Domains, MonitorTypesStep, ProcessLauncherAssumption DEF IInv, Types, Monitored
<1>1. CASE UNCHANGED monitorVars /\ ~WaitOutstanding(Main)
  <2>1. Drained'
    BY <1>0, <1>1, UnmonitoredStep DEF Monitored, Drained, monitorVars
  <2> QED
    BY <1>0, <1>1, <2>1 DEF Monitored, Fresh, SamplesTile, monitorVars
<1>2. ASSUME NEW p \in Processes, DryRunEnds(p) PROVE Monitored'
  <2>1. p = Main
    BY <1>0, <1>2 DEF DryRunEnds, WaitOutstanding, Where, Processes, ChildStates
  <2>2. /\ mpc' = "created" /\ txns_executed_' = DryRun /\ phase[Main] = "dry"
        /\ phase'[Main] = "timed"
        /\ UNCHANGED <<prev_txns_elapsed_, prev_time_elapsed_, results_, started>>
    BY <1>0, <1>2, <2>1 DEF DryRunEnds, WaitOutstanding, Types
  <2>3. results_ = <<>>
    BY <2>2 DEF Monitored, Drained, Fresh
  <2> QED
    BY <1>0, <2>2, <2>3 DEF Monitored, Drained, Fresh, SamplesTile
<1>3. ASSUME MonitorRuns PROVE Monitored'
  <2>1. CASE Start
    BY <1>0, <1>3, <2>1, StartTiles
    DEF Monitored, Drained, Fresh, MonitorRuns, MonitorStep, Start
  <2>2. CASE Sample
    BY <1>0, <1>3, <2>2, SampleTiles
    DEF Monitored, Drained, Fresh, MonitorRuns, MonitorStep, Sample
  <2>3. CASE SetDone
    BY <1>0, <1>3, <2>3
    DEF Monitored, Drained, Fresh, SamplesTile, MonitorRuns, MonitorStep, SetDone
  <2> QED
    BY <1>3, <2>1, <2>2, <2>3 DEF MonitorRuns, MonitorStep
<1>4. ASSUME NEW p \in Processes,
             Issue(p) \/ (Fork(p) /\ UNCHANGED monitorVars) \/ Leave(p) \/ ForkError(p)
      PROVE  UNCHANGED monitorVars /\ ~WaitOutstanding(Main)
  <2>1. CASE Issue(p)
    BY <1>0, <2>1 DEF Issue, CallExecuteRequest, WaitOutstanding, Types
  <2>2. CASE Fork(p) /\ UNCHANGED monitorVars
    BY <1>0, <2>2 DEF Fork, WaitOutstanding, Types
  <2>3. CASE Leave(p)
    BY <1>0, <2>3 DEF Leave, LeaveExperiment, WaitOutstanding, Types
  <2>4. CASE ForkError(p)
    BY <1>0, <2>4 DEF ForkError, ForkFails, WaitOutstanding, Types
  <2> QED
    BY <1>4, <2>1, <2>2, <2>3, <2>4
<1>5. ASSUME NEW c \in Children, ChildRuns(c)
      PROVE  UNCHANGED monitorVars /\ ~WaitOutstanding(Main)
  BY <1>0, <1>5 DEF ChildRuns, ChildStep, Execute, Count, Exit, WaitOutstanding, Types
<1>6. ASSUME Terminated \/ UNCHANGED vars
      PROVE  UNCHANGED monitorVars /\ ~WaitOutstanding(Main)
  BY <1>0, <1>6 DEF Terminated, vars, launcherVars, WaitOutstanding, Types
<1> QED
  BY <1>1, <1>2, <1>3, <1>4, <1>5, <1>6 DEF Next, DriverStep

(* perf_monitor.cc:55-79: for any number of samples and requests, any delays and
   any failures of fork(), the counts of the samples add up to what was executed
   between the first reading and the last, none of it in the dry run, and their
   intervals to the time between the two, each of them a second or more. *)
THEOREM SamplesAddUp == Spec => []SamplesTile
<1>1. ExperimentInit => Monitored
  <2> SUFFICES ASSUME ExperimentInit PROVE Monitored
    OBVIOUS
  <2>1. phase[Main] = "dry" /\ mpc = "none" /\ results_ = <<>>
    BY Domains DEF ExperimentInit, Init, MonitorInit
  <2> QED
    BY <2>1, MonitorTypesInit DEF Monitored, Drained, Fresh, SamplesTile
<1>2. IInv /\ Monitored /\ [Next]_vars => Monitored'
  BY MonitoredStep
<1>3. Monitored => SamplesTile
  BY DEF Monitored
<1> QED
  BY <1>1, <1>2, <1>3, IInvAlways, PTL DEF Spec
=============================================================================
