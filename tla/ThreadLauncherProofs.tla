------------------------ MODULE ThreadLauncherProofs ------------------------
(***************************************************************************)
(* Safety of the thread-per-request launcher, for every max_outstanding,   *)
(* every length of the dry run and of the experiment, with and without     *)
(* failures of pthread_create.                                             *)
(***************************************************************************)
EXTENDS ThreadLauncher, FiniteSetTheorems, SequenceTheorems, TLAPS

(* TypeOK without the bounds, which follow from the counting invariants. *)
Types ==
  /\ pc \in {"issue", "lock", "check", "wait", "asleep", "take", "reap", "join",
             "waitall", "exit"}
  /\ phase \in {"dry", "timed"}
  /\ done_flag \in BOOLEAN
  /\ num_requests_ \in 0..NumRequests
  /\ max_outstanding_ \in Int
  /\ max_outstanding_mutex_ \in Requests \union {Main, Nobody}
  /\ targ_list_ \in Seq(Requests)
  /\ arg \in Seq(Requests)
  /\ freed \subseteq Requests
  /\ tpc \in [Requests -> {"none", "failed", "execute", "link"} \union Linked]
  /\ txns_executed_ \in Nat

(* Requests are issued in order; one that was not issued has no thread. *)
Numbering == \A r \in Requests : tpc[r] = "none" <=> r > num_requests_

(* Who holds max_outstanding_mutex_, and what the launcher knows while it does. *)
MutexOwners ==
  /\ pc \in {"check", "wait", "take"} <=> max_outstanding_mutex_ = Main
  /\ \A r \in Requests :
       tpc[r] \in {"increment", "signal", "unlock"} <=> max_outstanding_mutex_ = r

SlotsSeen ==
  /\ max_outstanding_ >= 0
  /\ pc = "take" => max_outstanding_ > 0
  /\ pc = "wait" => max_outstanding_ = 0

Returned == {r \in Requests : tpc[r] = "returned"}
Counting == txns_executed_ = Cardinality(Returned)

DryRunIssued == pc = "waitall" => phase = "dry" /\ num_requests_ = DryRun

-----------------------------------------------------------------------------
(* Every step keeps every variable in its type. *)
LEMMA TypesStep == Types /\ [Next]_vars => Types'
<1> SUFFICES ASSUME Types, [Next]_vars PROVE Types'
  OBVIOUS
<1> USE ThreadLauncherAssumption DEF Types, Requests, Linked, SlotReturned,
      Main, Nobody
<1>1. CASE CreateThread
  BY <1>1 DEF CreateThread, WantsToIssue
<1>2. CASE CreateThreadFails
  BY <1>2 DEF CreateThreadFails, WantsToIssue
<1>3. CASE LockSlots
  BY <1>3 DEF LockSlots
<1>4. CASE CheckSlots
  BY <1>4 DEF CheckSlots
<1>5. CASE SleepForSlot
  BY <1>5 DEF SleepForSlot
<1>6. CASE SpuriousWakeup
  BY <1>6 DEF SpuriousWakeup
<1>7. CASE TakeSlot
  BY <1>7 DEF TakeSlot
<1>8. CASE ReapFinished
  BY <1>8 DEF ReapFinished
<1>9. CASE JoinAndFree
  <2>1. Head(arg) \in Requests /\ Tail(arg) \in Seq(Requests)
    BY <1>9, HeadTailProperties DEF JoinAndFree
  <2>2. QED
    BY <1>9, <2>1 DEF JoinAndFree
<1>10. CASE ExecuteRequestReturns
  BY <1>10 DEF ExecuteRequestReturns
<1>11. CASE WaitOutstandingReturns
  BY <1>11 DEF WaitOutstandingReturns
<1>12. CASE MonitorSetsDone
  BY <1>12 DEF MonitorSetsDone
<1>13. CASE LeaveExperiment
  BY <1>13 DEF LeaveExperiment
<1>14. CASE UNCHANGED vars
  BY <1>14 DEF vars
<1>15. ASSUME NEW r \in Requests, ExecutorStep(r) PROVE Types'
  <2>1. CASE ExecuteTxn(r)
    BY <2>1 DEF ExecuteTxn, launcherVars
  <2>2. CASE LinkArg(r)
    BY <2>2 DEF LinkArg, launcherVars
  <2>3. CASE LockToReturn(r)
    BY <2>3 DEF LockToReturn, launcherVars
  <2>4. CASE ReturnSlot(r)
    BY <2>4 DEF ReturnSlot, launcherVars
  <2>5. CASE Signal(r)
    BY <2>5 DEF Signal, launcherVars
  <2>6. CASE UnlockSlots(r)
    BY <2>6 DEF UnlockSlots, launcherVars
  <2>7. CASE CountExecuted(r)
    BY <2>7 DEF CountExecuted, launcherVars
  <2>8. QED
    BY <1>15, <2>1, <2>2, <2>3, <2>4, <2>5, <2>6, <2>7 DEF ExecutorStep
<1>16. QED
  BY <1>1, <1>2, <1>3, <1>4, <1>5, <1>6, <1>7, <1>8, <1>9, <1>10, <1>11,
     <1>12, <1>13, <1>14, <1>15 DEF Next, LauncherStep, Terminated

(* Requests get their threads in the order of their numbers. *)
LEMMA NumberingStep == Types /\ Numbering /\ [Next]_vars => Numbering'
<1> SUFFICES ASSUME Types, Numbering, [Next]_vars PROVE Numbering'
  OBVIOUS
<1> USE ThreadLauncherAssumption DEF Types, Numbering, Requests, Linked,
      SlotReturned
<1>1. CASE \/ CreateThread \/ CreateThreadFails \/ LockSlots \/ CheckSlots
           \/ SleepForSlot \/ SpuriousWakeup \/ TakeSlot \/ ReapFinished
           \/ JoinAndFree \/ ExecuteRequestReturns \/ WaitOutstandingReturns
           \/ MonitorSetsDone \/ LeaveExperiment \/ UNCHANGED vars
  BY <1>1 DEF vars, CreateThread, CreateThreadFails, LockSlots, CheckSlots,
      SleepForSlot, SpuriousWakeup, TakeSlot, ReapFinished, JoinAndFree,
      ExecuteRequestReturns, WaitOutstandingReturns, MonitorSetsDone,
      LeaveExperiment, WantsToIssue
<1>2. ASSUME NEW r \in Requests, ExecutorStep(r) PROVE Numbering'
  <2>1. CASE \/ ExecuteTxn(r) \/ LinkArg(r) \/ LockToReturn(r)
             \/ ReturnSlot(r) \/ Signal(r) \/ UnlockSlots(r)
             \/ CountExecuted(r)
    BY <2>1 DEF launcherVars, ExecuteTxn, LinkArg, LockToReturn, ReturnSlot,
        Signal, UnlockSlots, CountExecuted
  <2>2. QED
    BY <1>2, <2>1 DEF ExecutorStep
<1>3. QED
  BY <1>1, <1>2 DEF Next, LauncherStep, Terminated

(* Mutual exclusion on max_outstanding_. *)
LEMMA MutexOwnersStep == Types /\ Numbering /\ MutexOwners /\ [Next]_vars =>
  MutexOwners'
<1> SUFFICES ASSUME Types, Numbering, MutexOwners, [Next]_vars PROVE
    MutexOwners'
  OBVIOUS
<1> USE ThreadLauncherAssumption DEF Types, Numbering, MutexOwners, Requests,
      Linked, SlotReturned, Main, Nobody
<1>1. CASE CreateThread
  BY <1>1 DEF CreateThread, WantsToIssue
<1>2. CASE CreateThreadFails
  BY <1>2 DEF CreateThreadFails, WantsToIssue
<1>3. CASE LockSlots
  BY <1>3 DEF LockSlots
<1>4. CASE CheckSlots
  BY <1>4 DEF CheckSlots
<1>5. CASE SleepForSlot
  BY <1>5 DEF SleepForSlot
<1>6. CASE TakeSlot
  BY <1>6 DEF TakeSlot
<1>7. CASE \/ SpuriousWakeup \/ ReapFinished \/ JoinAndFree
           \/ ExecuteRequestReturns \/ WaitOutstandingReturns
           \/ MonitorSetsDone \/ LeaveExperiment \/ UNCHANGED vars
  BY <1>7 DEF vars, SpuriousWakeup, ReapFinished, JoinAndFree,
      ExecuteRequestReturns, WaitOutstandingReturns, MonitorSetsDone,
      LeaveExperiment
<1>8. ASSUME NEW r \in Requests, ExecutorStep(r) PROVE MutexOwners'
  <2>1. CASE \/ ExecuteTxn(r) \/ LinkArg(r) \/ LockToReturn(r)
             \/ ReturnSlot(r) \/ Signal(r) \/ UnlockSlots(r)
             \/ CountExecuted(r)
    BY SMTT(30), <2>1 DEF launcherVars, ExecuteTxn, LinkArg, LockToReturn, ReturnSlot,
        Signal, UnlockSlots, CountExecuted
  <2>2. QED
    BY <1>8, <2>1 DEF ExecutorStep
<1>9. QED
  BY <1>1, <1>2, <1>3, <1>4, <1>5, <1>6, <1>7, <1>8 DEF Next, LauncherStep,
     Terminated

(* What the launcher read under the mutex stays true until it acts on it. *)
LEMMA SlotsSeenStep == Types /\ MutexOwners /\ SlotsSeen /\ [Next]_vars =>
  SlotsSeen'
<1> SUFFICES ASSUME Types, MutexOwners, SlotsSeen, [Next]_vars PROVE
    SlotsSeen'
  OBVIOUS
<1> USE ThreadLauncherAssumption DEF Types, MutexOwners, SlotsSeen, Requests,
      Linked, SlotReturned, Main, Nobody
<1>1. CASE \/ CreateThread \/ CreateThreadFails \/ LockSlots \/ CheckSlots
           \/ SleepForSlot \/ SpuriousWakeup \/ TakeSlot \/ ReapFinished
           \/ JoinAndFree \/ ExecuteRequestReturns \/ WaitOutstandingReturns
           \/ MonitorSetsDone \/ LeaveExperiment \/ UNCHANGED vars
  BY <1>1 DEF vars, CreateThread, CreateThreadFails, LockSlots, CheckSlots,
      SleepForSlot, SpuriousWakeup, TakeSlot, ReapFinished, JoinAndFree,
      ExecuteRequestReturns, WaitOutstandingReturns, MonitorSetsDone,
      LeaveExperiment, WantsToIssue
<1>2. ASSUME NEW r \in Requests, ExecutorStep(r) PROVE SlotsSeen'
  <2>1. CASE \/ ExecuteTxn(r) \/ LinkArg(r) \/ LockToReturn(r)
             \/ ReturnSlot(r) \/ Signal(r) \/ UnlockSlots(r)
             \/ CountExecuted(r)
    BY <2>1 DEF launcherVars, ExecuteTxn, LinkArg, LockToReturn, ReturnSlot,
        Signal, UnlockSlots, CountExecuted
  <2>2. QED
    BY <1>2, <2>1 DEF ExecutorStep
<1>3. QED
  BY <1>1, <1>2 DEF Next, LauncherStep, Terminated

(* A free slot and a sleeping launcher: an executor is about to signal. *)
LEMMA NoLostWakeupStep == Types /\ MutexOwners /\ SlotsSeen /\ NoLostWakeup /\
  [Next]_vars => NoLostWakeup'
<1> SUFFICES ASSUME Types, MutexOwners, SlotsSeen, NoLostWakeup, [Next]_vars
    PROVE NoLostWakeup'
  OBVIOUS
<1> USE ThreadLauncherAssumption DEF Types, MutexOwners, SlotsSeen,
      NoLostWakeup, Requests, Linked, SlotReturned, Main, Nobody
<1>1. CASE \/ CreateThread \/ CreateThreadFails \/ LockSlots \/ CheckSlots
           \/ SleepForSlot \/ SpuriousWakeup \/ TakeSlot \/ ReapFinished
           \/ JoinAndFree \/ ExecuteRequestReturns \/ WaitOutstandingReturns
           \/ MonitorSetsDone \/ LeaveExperiment \/ UNCHANGED vars
  BY <1>1 DEF vars, CreateThread, CreateThreadFails, LockSlots, CheckSlots,
      SleepForSlot, SpuriousWakeup, TakeSlot, ReapFinished, JoinAndFree,
      ExecuteRequestReturns, WaitOutstandingReturns, MonitorSetsDone,
      LeaveExperiment, WantsToIssue
<1>2. ASSUME NEW r \in Requests, ExecutorStep(r) PROVE NoLostWakeup'
  <2>1. CASE \/ ExecuteTxn(r) \/ LinkArg(r) \/ LockToReturn(r)
             \/ ReturnSlot(r) \/ Signal(r) \/ UnlockSlots(r)
             \/ CountExecuted(r)
    BY <2>1 DEF launcherVars, ExecuteTxn, LinkArg, LockToReturn, ReturnSlot,
        Signal, UnlockSlots, CountExecuted
  <2>2. QED
    BY <1>2, <2>1 DEF ExecutorStep
<1>3. QED
  BY <1>1, <1>2 DEF Next, LauncherStep, Terminated

-----------------------------------------------------------------------------
(* Outstanding is finite, and what each kind of step does to it. *)
LEMMA OutstandingFinite ==
  Types => IsFiniteSet(Outstanding) /\ Cardinality(Outstanding) \in Nat
<1> SUFFICES ASSUME Types PROVE IsFiniteSet(Outstanding)
  BY FS_CardinalityType
<1>1. IsFiniteSet(Issued)
  BY FS_Interval DEF Issued, Types
<1>2. QED
  BY <1>1, FS_Subset DEF Outstanding

LEMMA OutstandingGrows ==
  ASSUME Types, CreateThread \/ CreateThreadFails
  PROVE  /\ Outstanding' = Outstanding \union {num_requests_ + 1}
         /\ Cardinality(Outstanding') = Cardinality(Outstanding) + 1
<1>1. num_requests_ + 1 \in Requests /\ num_requests_ + 1 \notin Outstanding
  BY ThreadLauncherAssumption
  DEF Types, Outstanding, Issued, Requests, CreateThread, CreateThreadFails, WantsToIssue
<1>2. Outstanding' = Outstanding \union {num_requests_ + 1}
  BY SMTT(30), <1>1 DEF Types, Outstanding, Issued, SlotReturned, CreateThread, CreateThreadFails
<1>3. QED
  BY <1>1, <1>2, OutstandingFinite, FS_AddElement

LEMMA OutstandingShrinks ==
  ASSUME Types, Numbering, NEW r \in Requests, ReturnSlot(r)
  PROVE  /\ r \in Outstanding
         /\ Outstanding' = Outstanding \ {r}
         /\ Cardinality(Outstanding') = Cardinality(Outstanding) - 1
<1>1. r \in Outstanding
  BY DEF Types, Numbering, Outstanding, Issued, Requests, SlotReturned, ReturnSlot
<1>2. Outstanding' = Outstanding \ {r}
  BY DEF Types, Outstanding, Issued, Requests, SlotReturned, ReturnSlot, launcherVars
<1>3. QED
  BY <1>1, <1>2, OutstandingFinite, FS_RemoveElement

(* No slot is lost and none is given back twice. *)
LEMMA SlotAccountingStep == Types /\ Numbering /\ SlotAccounting /\
  [Next]_vars => SlotAccounting'
<1> SUFFICES ASSUME Types, Numbering, SlotAccounting, [Next]_vars PROVE
    SlotAccounting'
  OBVIOUS
<1> USE ThreadLauncherAssumption DEF Types, Numbering, SlotAccounting, Unpaid,
      Requests, Linked, SlotReturned
<1>0. Cardinality(Outstanding) \in Nat
  BY OutstandingFinite
<1>1. CASE CreateThread
  <2>1. Cardinality(Outstanding') = Cardinality(Outstanding) + 1
    BY <1>1, OutstandingGrows
  <2>2. pc = "issue" /\ pc' = "lock" /\ max_outstanding_' = max_outstanding_
    BY <1>1 DEF CreateThread, WantsToIssue
  <2>3. QED
    BY SMTT(30), <1>0, <2>1, <2>2
<1>2. CASE CreateThreadFails
  <2>1. Cardinality(Outstanding') = Cardinality(Outstanding) + 1
    BY <1>2, OutstandingGrows
  <2>2. pc = "issue" /\ pc' = "lock" /\ max_outstanding_' = max_outstanding_
    BY <1>2 DEF CreateThreadFails, WantsToIssue
  <2>3. QED
    BY SMTT(30), <1>0, <2>1, <2>2
<1>3. CASE TakeSlot
  <2>1. Outstanding' = Outstanding
    BY <1>3 DEF Outstanding, Issued, TakeSlot
  <2>2. QED
    BY <1>3, <1>0, <2>1 DEF TakeSlot
<1>4. CASE \/ LockSlots \/ CheckSlots \/ SleepForSlot \/ SpuriousWakeup
           \/ ReapFinished \/ JoinAndFree \/ ExecuteRequestReturns
           \/ WaitOutstandingReturns \/ MonitorSetsDone \/ LeaveExperiment
           \/ UNCHANGED vars
  <2>1. Outstanding' = Outstanding
    BY <1>4 DEF Outstanding, Issued, vars, LockSlots, CheckSlots,
        SleepForSlot, SpuriousWakeup, ReapFinished, JoinAndFree,
        ExecuteRequestReturns, WaitOutstandingReturns, MonitorSetsDone,
        LeaveExperiment
  <2>2. QED
    BY <1>4, <2>1 DEF vars, LockSlots, CheckSlots, SleepForSlot,
        SpuriousWakeup, ReapFinished, JoinAndFree, ExecuteRequestReturns,
        WaitOutstandingReturns, MonitorSetsDone, LeaveExperiment
<1>5. ASSUME NEW r \in Requests, ExecutorStep(r) PROVE SlotAccounting'
  <2>1. CASE ReturnSlot(r)
    <3>1. Cardinality(Outstanding') = Cardinality(Outstanding) - 1
      BY <2>1, OutstandingShrinks
    <3>2. QED
      BY <2>1, <1>0, <3>1 DEF ReturnSlot, launcherVars
  <2>2. CASE \/ ExecuteTxn(r) \/ LinkArg(r) \/ LockToReturn(r) \/ Signal(r)
             \/ UnlockSlots(r) \/ CountExecuted(r)
    <3>1. Outstanding' = Outstanding
      BY <2>2 DEF Outstanding, Issued, launcherVars, ExecuteTxn, LinkArg,
          LockToReturn, Signal, UnlockSlots, CountExecuted
    <3>2. QED
      BY <2>2, <3>1 DEF launcherVars, ExecuteTxn, LinkArg, LockToReturn,
          Signal, UnlockSlots, CountExecuted
  <2>3. QED
    BY <1>5, <2>1, <2>2 DEF ExecutorStep
<1>6. QED
  BY <1>1, <1>2, <1>3, <1>4, <1>5 DEF Next, LauncherStep, Terminated

-----------------------------------------------------------------------------
LEMMA ReturnedFinite ==
  Types => /\ IsFiniteSet(Returned)
           /\ Cardinality(Returned) \in 0..NumRequests
<1>1. IsFiniteSet(Requests) /\ Cardinality(Requests) = NumRequests
  BY FS_Interval, ThreadLauncherAssumption DEF Requests
<1>2. QED
  BY <1>1, FS_Subset, FS_CardinalityType, ThreadLauncherAssumption DEF Returned

(* The counter is the number of executors that have returned. *)
LEMMA CountingStep == Types /\ Numbering /\ Counting /\ [Next]_vars =>
  Counting'
<1> SUFFICES ASSUME Types, Numbering, Counting, [Next]_vars PROVE Counting'
  OBVIOUS
<1> USE ThreadLauncherAssumption DEF Types, Numbering, Counting, Requests,
      Linked, SlotReturned
<1>1. CASE \/ CreateThread \/ CreateThreadFails \/ LockSlots \/ CheckSlots
           \/ SleepForSlot \/ SpuriousWakeup \/ TakeSlot \/ ReapFinished
           \/ JoinAndFree \/ ExecuteRequestReturns \/ WaitOutstandingReturns
           \/ MonitorSetsDone \/ LeaveExperiment \/ UNCHANGED vars
  <2>1. Returned' = Returned
    BY SMTT(30), <1>1 DEF Returned, vars, CreateThread, CreateThreadFails, LockSlots,
        CheckSlots, SleepForSlot, SpuriousWakeup, TakeSlot, ReapFinished,
        JoinAndFree, ExecuteRequestReturns, WaitOutstandingReturns,
        MonitorSetsDone, LeaveExperiment, WantsToIssue
  <2>2. QED
    BY <1>1, <2>1 DEF vars, CreateThread, CreateThreadFails, LockSlots,
        CheckSlots, SleepForSlot, SpuriousWakeup, TakeSlot, ReapFinished,
        JoinAndFree, ExecuteRequestReturns, WaitOutstandingReturns,
        MonitorSetsDone, LeaveExperiment, WantsToIssue
<1>2. ASSUME NEW r \in Requests, ExecutorStep(r) PROVE Counting'
  <2>1. CASE CountExecuted(r)
    <3>1. r \notin Returned /\ Returned' = Returned \union {r}
      BY <2>1 DEF Returned, CountExecuted
    <3>2. Cardinality(Returned') = Cardinality(Returned) + 1
      BY <3>1, ReturnedFinite, FS_AddElement
    <3>3. QED
      BY <2>1, <3>2 DEF CountExecuted
  <2>2. CASE \/ ExecuteTxn(r) \/ LinkArg(r) \/ LockToReturn(r)
             \/ ReturnSlot(r) \/ Signal(r) \/ UnlockSlots(r)
    <3>1. Returned' = Returned
      BY <2>2 DEF Returned, launcherVars, ExecuteTxn, LinkArg, LockToReturn,
          ReturnSlot, Signal, UnlockSlots
    <3>2. QED
      BY <2>2, <3>1 DEF launcherVars, ExecuteTxn, LinkArg, LockToReturn,
          ReturnSlot, Signal, UnlockSlots
  <2>3. QED
    BY <1>2, <2>1, <2>2 DEF ExecutorStep
<1>3. QED
  BY <1>1, <1>2 DEF Next, LauncherStep, Terminated

(* The driver waits once, after the last request of the dry run. *)
LEMMA DryRunIssuedStep == Types /\ DryRunIssued /\ [Next]_vars =>
  DryRunIssued'
<1> SUFFICES ASSUME Types, DryRunIssued, [Next]_vars PROVE DryRunIssued'
  OBVIOUS
<1> USE ThreadLauncherAssumption DEF Types, DryRunIssued, Requests, Linked,
      SlotReturned
<1>1. CASE \/ CreateThread \/ CreateThreadFails \/ LockSlots \/ CheckSlots
           \/ SleepForSlot \/ SpuriousWakeup \/ TakeSlot \/ ReapFinished
           \/ JoinAndFree \/ ExecuteRequestReturns \/ WaitOutstandingReturns
           \/ MonitorSetsDone \/ LeaveExperiment \/ UNCHANGED vars
  BY <1>1 DEF vars, CreateThread, CreateThreadFails, LockSlots, CheckSlots,
      SleepForSlot, SpuriousWakeup, TakeSlot, ReapFinished, JoinAndFree,
      ExecuteRequestReturns, WaitOutstandingReturns, MonitorSetsDone,
      LeaveExperiment, WantsToIssue
<1>2. ASSUME NEW r \in Requests, ExecutorStep(r) PROVE DryRunIssued'
  <2>1. CASE \/ ExecuteTxn(r) \/ LinkArg(r) \/ LockToReturn(r)
             \/ ReturnSlot(r) \/ Signal(r) \/ UnlockSlots(r)
             \/ CountExecuted(r)
    BY <2>1 DEF launcherVars, ExecuteTxn, LinkArg, LockToReturn, ReturnSlot,
        Signal, UnlockSlots, CountExecuted
  <2>2. QED
    BY <1>2, <2>1 DEF ExecutorStep
<1>3. QED
  BY <1>1, <1>2 DEF Next, LauncherStep, Terminated

(* The counter can only reach the number of dry-run requests when each has returned. *)
LEMMA DryRunDrainedStep == Types /\ Numbering /\ Counting /\ DryRunIssued /\
  DryRunDrained /\ [Next]_vars => DryRunDrained'
<1> SUFFICES ASSUME Types, Numbering, Counting, DryRunIssued, DryRunDrained,
    [Next]_vars PROVE DryRunDrained'
  OBVIOUS
<1> USE ThreadLauncherAssumption DEF Types, Numbering, DryRunDrained,
      Requests, Linked, SlotReturned
<1>1. CASE WaitOutstandingReturns
  <2>1. Returned \subseteq 1..DryRun /\ Cardinality(Returned) = DryRun
    BY <1>1 DEF Returned, Counting, DryRunIssued, WaitOutstandingReturns
  <2>2. IsFiniteSet(1..DryRun) /\ Cardinality(1..DryRun) = DryRun
    BY FS_Interval
  <2>3. Returned = 1..DryRun
    BY <2>1, <2>2, FS_Subset
  <2>4. QED
    BY <1>1, <2>3 DEF WaitOutstandingReturns, Returned
<1>2. CASE \/ CreateThread \/ CreateThreadFails \/ LockSlots \/ CheckSlots
           \/ SleepForSlot \/ SpuriousWakeup \/ TakeSlot \/ ReapFinished
           \/ JoinAndFree \/ ExecuteRequestReturns \/ MonitorSetsDone
           \/ LeaveExperiment \/ UNCHANGED vars
  BY <1>2 DEF vars, CreateThread, CreateThreadFails, LockSlots, CheckSlots,
      SleepForSlot, SpuriousWakeup, TakeSlot, ReapFinished, JoinAndFree,
      ExecuteRequestReturns, MonitorSetsDone, LeaveExperiment, WantsToIssue
<1>3. ASSUME NEW r \in Requests, ExecutorStep(r) PROVE DryRunDrained'
  <2>1. CASE \/ ExecuteTxn(r) \/ LinkArg(r) \/ LockToReturn(r)
             \/ ReturnSlot(r) \/ Signal(r) \/ UnlockSlots(r)
             \/ CountExecuted(r)
    BY <2>1 DEF launcherVars, ExecuteTxn, LinkArg, LockToReturn, ReturnSlot,
        Signal, UnlockSlots, CountExecuted
  <2>2. QED
    BY <1>3, <2>1 DEF ExecutorStep
<1>4. QED
  BY <1>1, <1>2, <1>3 DEF Next, LauncherStep, Terminated

(* Only the argument of an executor that has returned is freed. *)
LEMMA NoUseAfterFreeStep == Types /\ Numbering /\ NoUseAfterFree /\
  [Next]_vars => NoUseAfterFree'
<1> SUFFICES ASSUME Types, Numbering, NoUseAfterFree, [Next]_vars PROVE
    NoUseAfterFree'
  OBVIOUS
<1> USE ThreadLauncherAssumption DEF Types, Numbering, NoUseAfterFree,
      Requests, Linked, SlotReturned
<1>1. CASE CreateThread
  BY <1>1 DEF CreateThread, WantsToIssue
<1>2. CASE CreateThreadFails
  BY <1>2 DEF CreateThreadFails, WantsToIssue
<1>3. CASE JoinAndFree
  <2>1. Head(arg) \in Requests
    BY <1>3, HeadTailProperties DEF JoinAndFree
  <2>2. QED
    BY <1>3, <2>1 DEF JoinAndFree
<1>4. CASE \/ LockSlots \/ CheckSlots \/ SleepForSlot \/ SpuriousWakeup
           \/ TakeSlot \/ ReapFinished \/ ExecuteRequestReturns
           \/ WaitOutstandingReturns \/ MonitorSetsDone \/ LeaveExperiment
           \/ UNCHANGED vars
  BY <1>4 DEF vars, LockSlots, CheckSlots, SleepForSlot, SpuriousWakeup,
      TakeSlot, ReapFinished, ExecuteRequestReturns, WaitOutstandingReturns,
      MonitorSetsDone, LeaveExperiment
<1>5. ASSUME NEW r \in Requests, ExecutorStep(r) PROVE NoUseAfterFree'
  <2>1. CASE \/ ExecuteTxn(r) \/ LinkArg(r) \/ LockToReturn(r)
             \/ ReturnSlot(r) \/ Signal(r) \/ UnlockSlots(r)
             \/ CountExecuted(r)
    BY <2>1 DEF launcherVars, ExecuteTxn, LinkArg, LockToReturn, ReturnSlot,
        Signal, UnlockSlots, CountExecuted
  <2>2. QED
    BY <1>5, <2>1 DEF ExecutorStep
<1>6. QED
  BY <1>1, <1>2, <1>3, <1>4, <1>5 DEF Next, LauncherStep, Terminated

-----------------------------------------------------------------------------
(* The list of finished thread_args, targ_list_ and the launcher's part of it
   together, as a function on positions. *)
LEMMA UnjoinedSeq ==
  Types => /\ Unjoined \in Seq(Requests)
           /\ DOMAIN Unjoined = 1..(Len(targ_list_) + Len(arg))
           /\ Len(targ_list_) \in Nat /\ Len(arg) \in Nat
           /\ \A i \in 1..(Len(targ_list_) + Len(arg)) :
                Unjoined[i] = IF i <= Len(targ_list_) THEN targ_list_[i]
                                                      ELSE arg[i - Len(targ_list_)]
<1> SUFFICES ASSUME Types
             PROVE  /\ Unjoined \in Seq(Requests)
                    /\ Len(Unjoined) = Len(targ_list_) + Len(arg)
                    /\ \A i \in 1..(Len(targ_list_) + Len(arg)) :
                         Unjoined[i] = IF i <= Len(targ_list_) THEN targ_list_[i]
                                                  ELSE arg[i - Len(targ_list_)]
  BY LenProperties DEF Types
<1> QED
  BY ConcatProperties DEF Types, Unjoined

(* Linking puts one more request at the head. *)
LEMMA LinkExtends ==
  ASSUME Types, NEW r \in Requests, LinkArg(r)
  PROVE  /\ DOMAIN Unjoined' = 1..(Len(Unjoined) + 1)
         /\ Unjoined'[1] = r
         /\ \A i \in 1..Len(Unjoined) : Unjoined'[i + 1] = Unjoined[i]
<1>1. <<r>> \in Seq(Requests) /\ Len(<<r>>) = 1 /\ <<r>>[1] = r
  OBVIOUS
<1>2. Unjoined' = <<r>> \o Unjoined
  BY <1>1, ConcatAssociative DEF Types, Unjoined, LinkArg, launcherVars
<1>3. Unjoined \in Seq(Requests) /\ Len(Unjoined) \in Nat
  BY UnjoinedSeq
<1>4. /\ <<r>> \o Unjoined \in Seq(Requests)
      /\ Len(<<r>> \o Unjoined) = Len(Unjoined) + 1
      /\ \A i \in 1..(Len(Unjoined) + 1) :
           (<<r>> \o Unjoined)[i] = IF i <= 1 THEN <<r>>[i] ELSE Unjoined[i - 1]
  BY <1>1, <1>3, ConcatProperties
<1>5. \A i \in 1..Len(Unjoined) : i + 1 \in 1..(Len(Unjoined) + 1) /\ ~(i + 1 <= 1) /\ (i + 1) - 1 = i
  BY <1>3
<1>6. DOMAIN (<<r>> \o Unjoined) = 1..(Len(Unjoined) + 1)
  BY <1>4
<1>7. 1 \in 1..(Len(Unjoined) + 1)
  BY <1>3
<1>8. QED
  BY <1>1, <1>2, <1>4, <1>5, <1>6, <1>7

(* Joining takes one request, the head of arg, out. *)
LEMMA JoinRemoves ==
  ASSUME Types, JoinAndFree
  PROVE  LET k == Len(targ_list_) + 1
         IN  /\ k \in DOMAIN Unjoined /\ Unjoined[k] = Head(arg)
             /\ k \in Int /\ DOMAIN Unjoined \subseteq Int /\ DOMAIN Unjoined' \subseteq Int
             /\ \A i \in DOMAIN Unjoined' :
                  IF i < k THEN i \in DOMAIN Unjoined /\ Unjoined'[i] = Unjoined[i]
                           ELSE i + 1 \in DOMAIN Unjoined /\ Unjoined'[i] = Unjoined[i + 1]
             /\ \A i \in DOMAIN Unjoined :
                  /\ i < k => i \in DOMAIN Unjoined' /\ Unjoined'[i] = Unjoined[i]
                  /\ i > k => i - 1 \in DOMAIN Unjoined' /\ Unjoined'[i - 1] = Unjoined[i]
<1> DEFINE k == Len(targ_list_) + 1
<1>1. /\ arg \in Seq(Requests) /\ arg # <<>> /\ targ_list_ \in Seq(Requests)
      /\ arg' = Tail(arg) /\ targ_list_' = targ_list_
  BY DEF Types, JoinAndFree
<1>2. /\ Tail(arg) \in Seq(Requests)
      /\ Len(Tail(arg)) = Len(arg) - 1
      /\ \A i \in 1..Len(Tail(arg)) : Tail(arg)[i] = arg[i + 1]
      /\ Len(arg) \in Nat /\ Len(arg) >= 1 /\ Head(arg) = arg[1]
  BY <1>1, HeadTailProperties, EmptySeq
<1>3. /\ DOMAIN Unjoined' = 1..(Len(targ_list_) + Len(arg) - 1)
      /\ \A i \in 1..(Len(targ_list_) + Len(arg) - 1) :
           Unjoined'[i] = IF i <= Len(targ_list_) THEN targ_list_[i]
                                                  ELSE Tail(arg)[i - Len(targ_list_)]
  <2>1. /\ targ_list_ \o Tail(arg) \in Seq(Requests)
        /\ Len(targ_list_ \o Tail(arg)) = Len(targ_list_) + Len(Tail(arg))
        /\ \A i \in 1..(Len(targ_list_) + Len(Tail(arg))) :
             (targ_list_ \o Tail(arg))[i] = IF i <= Len(targ_list_) THEN targ_list_[i]
                                                  ELSE Tail(arg)[i - Len(targ_list_)]
    BY <1>1, <1>2, ConcatProperties
  <2>2. Len(targ_list_) + Len(Tail(arg)) = Len(targ_list_) + Len(arg) - 1
    BY <1>1, <1>2, LenProperties
  <2>3. Unjoined' = targ_list_ \o Tail(arg)
    BY <1>1 DEF Unjoined
  <2>4. DOMAIN (targ_list_ \o Tail(arg)) = 1..(Len(targ_list_) + Len(arg) - 1)
    BY <2>1, <2>2
  <2>5. QED
    BY <2>1, <2>2, <2>3, <2>4
<1>4. Len(targ_list_) \in Nat
  BY <1>1, LenProperties
<1>5. k \in DOMAIN Unjoined /\ Unjoined[k] = Head(arg)
  BY <1>2, <1>4, UnjoinedSeq
<1>6. ASSUME NEW i \in DOMAIN Unjoined'
      PROVE  IF i < k THEN i \in DOMAIN Unjoined /\ Unjoined'[i] = Unjoined[i]
                      ELSE i + 1 \in DOMAIN Unjoined /\ Unjoined'[i] = Unjoined[i + 1]
  <2>1. CASE i < k
    BY <2>1, <1>2, <1>3, <1>4, UnjoinedSeq
  <2>2. CASE ~(i < k)
    <3>1. i - Len(targ_list_) \in 1..Len(Tail(arg))
      BY <2>2, <1>2, <1>3, <1>4
    <3>2. Unjoined'[i] = arg[(i - Len(targ_list_)) + 1]
      BY SMTT(30), <3>1, <2>2, <1>2, <1>3, <1>4
    <3>3. i + 1 \in DOMAIN Unjoined /\ Unjoined[i + 1] = arg[(i + 1) - Len(targ_list_)]
      BY <2>2, <1>2, <1>3, <1>4, UnjoinedSeq
    <3>4. (i + 1) - Len(targ_list_) = (i - Len(targ_list_)) + 1
      BY <1>3, <1>4
    <3>5. QED
      BY <2>2, <3>2, <3>3, <3>4
  <2>3. QED
    BY <2>1, <2>2
<1>7. ASSUME NEW i \in DOMAIN Unjoined
      PROVE  /\ i < k => i \in DOMAIN Unjoined' /\ Unjoined'[i] = Unjoined[i]
             /\ i > k => i - 1 \in DOMAIN Unjoined' /\ Unjoined'[i - 1] = Unjoined[i]
  <2>1. i \in 1..(Len(targ_list_) + Len(arg))
    BY UnjoinedSeq
  <2>2. CASE i < k
    BY <2>1, <2>2, <1>2, <1>3, <1>4, UnjoinedSeq
  <2>3. CASE i > k
    <3>1. i - 1 \in DOMAIN Unjoined' /\ ~(i - 1 < k) /\ (i - 1) + 1 = i
      BY <2>1, <2>3, <1>2, <1>3, <1>4
    <3>2. Unjoined'[i - 1] = Unjoined[(i - 1) + 1]
      BY <3>1, <1>6
    <3>3. QED
      BY <3>1, <3>2, <2>1, <2>3, <1>4
  <2>4. QED
    BY <2>1, <2>2, <2>3, <1>4
<1>8. k \in Int /\ DOMAIN Unjoined \subseteq Int /\ DOMAIN Unjoined' \subseteq Int
  BY <1>3, <1>4, UnjoinedSeq
<1>9. QED
  BY <1>5, <1>6, <1>7, <1>8

(* No two positions hold the same request. *)
Distinct == \A i, j \in DOMAIN Unjoined : Unjoined[i] = Unjoined[j] => i = j
Listed == {Unjoined[i] : i \in DOMAIN Unjoined}

LEMMA LinkLists ==
  ASSUME Types, Distinct, NEW r \in Requests, LinkArg(r), r \notin Listed
  PROVE  Distinct' /\ Listed' = Listed \union {r}
<1>1. DOMAIN Unjoined = 1..Len(Unjoined) /\ Len(Unjoined) \in Nat
  BY UnjoinedSeq
<1>2. /\ DOMAIN Unjoined' = 1..(Len(Unjoined) + 1)
      /\ Unjoined'[1] = r
      /\ \A i \in 1..Len(Unjoined) : Unjoined'[i + 1] = Unjoined[i]
  BY LinkExtends
<1>3. ASSUME NEW i \in DOMAIN Unjoined', i # 1
      PROVE  i \in Int /\ i - 1 \in DOMAIN Unjoined /\ Unjoined'[i] = Unjoined[i - 1]
  <2>1. i - 1 \in 1..Len(Unjoined) /\ (i - 1) + 1 = i
    BY <1>1, <1>2, <1>3
  <2>2. Unjoined'[(i - 1) + 1] = Unjoined[i - 1]
    BY <1>2, <2>1
  <2>3. QED
    BY <1>1, <1>2, <2>1, <2>2
<1>4. Distinct'
  <2>1. SUFFICES ASSUME NEW i \in DOMAIN Unjoined', NEW j \in DOMAIN Unjoined',
                        Unjoined'[i] = Unjoined'[j]
                 PROVE  i = j
    BY DEF Distinct
  <2>2. CASE i = 1 /\ j # 1
    BY <1>2, <1>3, <2>1, <2>2 DEF Listed
  <2>3. CASE i # 1 /\ j = 1
    BY <1>2, <1>3, <2>1, <2>3 DEF Listed
  <2>4. CASE i # 1 /\ j # 1
    <3>1. i - 1 = j - 1 /\ i \in Int /\ j \in Int
      BY <1>3, <2>1, <2>4 DEF Distinct
    <3>2. QED
      BY <3>1
  <2>5. QED
    BY <2>2, <2>3, <2>4
<1>5. Listed' = Listed \union {r}
  <2>1. ASSUME NEW i \in DOMAIN Unjoined
        PROVE  i + 1 \in DOMAIN Unjoined' /\ Unjoined'[i + 1] = Unjoined[i]
    BY <1>1, <1>2
  <2>2. 1 \in DOMAIN Unjoined' /\ Unjoined'[1] = r
    BY <1>1, <1>2
  <2>3. QED
    BY <1>3, <2>1, <2>2 DEF Listed
<1>6. QED
  BY <1>4, <1>5

LEMMA JoinUnlists ==
  ASSUME Types, Distinct, JoinAndFree
  PROVE  /\ Distinct'
         /\ Listed' = Listed \ {Head(arg)}
         /\ Head(arg) \in Listed
<1> DEFINE k == Len(targ_list_) + 1
<1>1. k \in Int /\ DOMAIN Unjoined \subseteq Int /\ DOMAIN Unjoined' \subseteq Int
  BY JoinRemoves
<1>2. k \in DOMAIN Unjoined /\ Unjoined[k] = Head(arg)
  BY JoinRemoves
<1>3. \A i \in DOMAIN Unjoined' :
        IF i < k THEN i \in DOMAIN Unjoined /\ Unjoined'[i] = Unjoined[i]
                 ELSE i + 1 \in DOMAIN Unjoined /\ Unjoined'[i] = Unjoined[i + 1]
  BY JoinRemoves
<1>4. \A i \in DOMAIN Unjoined :
        /\ i < k => i \in DOMAIN Unjoined' /\ Unjoined'[i] = Unjoined[i]
        /\ i > k => i - 1 \in DOMAIN Unjoined' /\ Unjoined'[i - 1] = Unjoined[i]
  BY JoinRemoves
<1> HIDE DEF k
<1>5. Distinct'
  BY <1>1, <1>3 DEF Distinct
<1>6. ASSUME NEW i \in DOMAIN Unjoined'
      PROVE  \E j \in DOMAIN Unjoined : j # k /\ Unjoined'[i] = Unjoined[j]
  <2>1. CASE i < k
    BY <1>1, <1>3, <2>1
  <2>2. CASE ~(i < k)
    BY <1>1, <1>3, <2>2
  <2>3. QED
    BY <2>1, <2>2
<1>7. ASSUME NEW j \in DOMAIN Unjoined, j # k
      PROVE  \E i \in DOMAIN Unjoined' : Unjoined'[i] = Unjoined[j]
  <2>1. CASE j < k
    BY <1>4, <2>1
  <2>2. CASE j > k
    BY <1>4, <2>2
  <2>3. QED
    BY <1>1, <1>7, <2>1, <2>2
<1>8. Listed' = Listed \ {Head(arg)}
  BY <1>2, <1>6, <1>7 DEF Listed, Distinct
<1>9. QED
  BY <1>2, <1>5, <1>8 DEF Listed

(* The launcher's part of the list is empty except while it joins. *)
ReapedEmpty == arg # <<>> => pc = "join"

(* ExecuteRequest returns only when it has joined all it took. *)
LEMMA ReapedEmptyStep == Types /\ ReapedEmpty /\ [Next]_vars => ReapedEmpty'
<1> SUFFICES ASSUME Types, ReapedEmpty, [Next]_vars PROVE ReapedEmpty'
  OBVIOUS
<1> USE ThreadLauncherAssumption DEF Types, ReapedEmpty, Requests, Linked,
      SlotReturned
<1>1. CASE \/ CreateThread \/ CreateThreadFails \/ LockSlots \/ CheckSlots
           \/ SleepForSlot \/ SpuriousWakeup \/ TakeSlot \/ ReapFinished
           \/ JoinAndFree \/ ExecuteRequestReturns \/ WaitOutstandingReturns
           \/ MonitorSetsDone \/ LeaveExperiment \/ UNCHANGED vars
  BY <1>1 DEF vars, CreateThread, CreateThreadFails, LockSlots, CheckSlots,
      SleepForSlot, SpuriousWakeup, TakeSlot, ReapFinished, JoinAndFree,
      ExecuteRequestReturns, WaitOutstandingReturns, MonitorSetsDone,
      LeaveExperiment, WantsToIssue
<1>2. ASSUME NEW r \in Requests, ExecutorStep(r) PROVE ReapedEmpty'
  <2>1. CASE \/ ExecuteTxn(r) \/ LinkArg(r) \/ LockToReturn(r)
             \/ ReturnSlot(r) \/ Signal(r) \/ UnlockSlots(r)
             \/ CountExecuted(r)
    BY <2>1 DEF launcherVars, ExecuteTxn, LinkArg, LockToReturn, ReturnSlot,
        Signal, UnlockSlots, CountExecuted
  <2>2. QED
    BY <1>2, <2>1 DEF ExecutorStep
<1>3. QED
  BY <1>1, <1>2 DEF Next, LauncherStep, Terminated

(* A finished executor's argument is in one place of one list. *)
LEMMA ListOwnershipStep == Types /\ Numbering /\ ReapedEmpty /\ NoUseAfterFree
  /\ ListOwnership /\ [Next]_vars => ListOwnership'
<1> SUFFICES ASSUME Types, Numbering, ReapedEmpty, NoUseAfterFree,
    ListOwnership, [Next]_vars PROVE ListOwnership'
  OBVIOUS
<1> USE ThreadLauncherAssumption DEF Types, Numbering, ListOwnership,
      Requests, Linked, SlotReturned
<1>1. CASE CreateThread
  <2>1. Unjoined' = Unjoined
    BY <1>1 DEF Unjoined, CreateThread, WantsToIssue
  <2>2. QED
    BY <1>1, <2>1 DEF CreateThread
<1>2. CASE CreateThreadFails
  <2>1. Unjoined' = Unjoined
    BY <1>2 DEF Unjoined, CreateThreadFails, WantsToIssue
  <2>2. QED
    BY <1>2, <2>1 DEF CreateThreadFails
<1>3. CASE ReapFinished
  <2>1. Unjoined = targ_list_ /\ Unjoined' = targ_list_
    BY <1>3, ConcatEmptySeq DEF Unjoined, ReapedEmpty, ReapFinished
  <2>2. QED
    BY <1>3, <2>1 DEF ReapFinished
<1>4. CASE JoinAndFree
  <2>1. Distinct' /\ Listed' = Listed \ {Head(arg)}
    BY <1>4, JoinUnlists DEF Distinct
  <2>2. QED
    BY <1>4, <2>1 DEF Distinct, Listed, JoinAndFree
<1>5. CASE \/ LockSlots \/ CheckSlots \/ SleepForSlot \/ SpuriousWakeup
           \/ TakeSlot \/ ExecuteRequestReturns \/ WaitOutstandingReturns
           \/ MonitorSetsDone \/ LeaveExperiment \/ UNCHANGED vars
  <2>1. Unjoined' = Unjoined /\ tpc' = tpc /\ freed' = freed
    BY <1>5 DEF Unjoined, vars, LockSlots, CheckSlots, SleepForSlot,
        SpuriousWakeup, TakeSlot, ExecuteRequestReturns,
        WaitOutstandingReturns, MonitorSetsDone, LeaveExperiment
  <2>2. QED
    BY <2>1
<1>6. ASSUME NEW r \in Requests, ExecutorStep(r) PROVE ListOwnership'
  <2>1. CASE ExecuteTxn(r)
    <3>1. Unjoined' = Unjoined
      BY <2>1 DEF Unjoined, launcherVars, ExecuteTxn
    <3>2. QED
      BY <2>1, <3>1 DEF ExecuteTxn, launcherVars
  <2>2. CASE LinkArg(r)
    <3>1. r \notin Listed /\ r \notin freed
      BY <2>2 DEF Listed, NoUseAfterFree, LinkArg
    <3>2. Distinct' /\ Listed' = Listed \union {r}
      BY <2>2, <3>1, LinkLists DEF Distinct
    <3>3. {x \in Requests : tpc'[x] \in Linked} = {x \in Requests : tpc[x] \in Linked} \union {r}
      BY <2>2 DEF LinkArg
    <3>4. Listed = {x \in Requests : tpc[x] \in Linked} \ freed /\ freed' = freed
      BY <2>2 DEF Listed, LinkArg, launcherVars
    <3>5. Listed' = {x \in Requests : tpc'[x] \in Linked} \ freed'
      BY <3>1, <3>2, <3>3, <3>4
    <3>6. QED
      BY <3>2, <3>5 DEF Distinct, Listed
  <2>3. CASE LockToReturn(r)
    <3>1. Unjoined' = Unjoined
      BY <2>3 DEF Unjoined, launcherVars, LockToReturn
    <3>2. QED
      BY <2>3, <3>1 DEF LockToReturn, launcherVars
  <2>4. CASE ReturnSlot(r)
    <3>1. Unjoined' = Unjoined
      BY <2>4 DEF Unjoined, launcherVars, ReturnSlot
    <3>2. QED
      BY <2>4, <3>1 DEF ReturnSlot, launcherVars
  <2>5. CASE Signal(r)
    <3>1. Unjoined' = Unjoined
      BY <2>5 DEF Unjoined, launcherVars, Signal
    <3>2. QED
      BY <2>5, <3>1 DEF Signal, launcherVars
  <2>6. CASE UnlockSlots(r)
    <3>1. Unjoined' = Unjoined
      BY <2>6 DEF Unjoined, launcherVars, UnlockSlots
    <3>2. QED
      BY <2>6, <3>1 DEF UnlockSlots, launcherVars
  <2>7. CASE CountExecuted(r)
    <3>1. Unjoined' = Unjoined
      BY <2>7 DEF Unjoined, launcherVars, CountExecuted
    <3>2. QED
      BY <2>7, <3>1 DEF CountExecuted, launcherVars
  <2>8. QED
    BY <1>6, <2>1, <2>2, <2>3, <2>4, <2>5, <2>6, <2>7 DEF ExecutorStep
<1>7. QED
  BY <1>1, <1>2, <1>3, <1>4, <1>5, <1>6 DEF Next, LauncherStep, Terminated

-----------------------------------------------------------------------------
(* Once the launcher has taken the finished arguments, the threads it leaves to
   later calls are ones that still held a slot when it did so. *)
InArg == {arg[i] : i \in DOMAIN arg}
ThreadsLeft == pc = "join" => Cardinality(Threads \ InArg) <= MaxOutstanding

LEMMA ThreadsFinite ==
  Types => /\ IsFiniteSet(Threads) /\ Cardinality(Threads) \in Nat
           /\ \A S : IsFiniteSet(Threads \ S) /\ Cardinality(Threads \ S) \in Nat
<1> SUFFICES ASSUME Types
             PROVE  IsFiniteSet(Threads) /\ \A S : IsFiniteSet(Threads \ S)
  BY FS_CardinalityType
<1>1. IsFiniteSet(Issued)
  BY FS_Interval DEF Issued, Types
<1>2. IsFiniteSet(Threads)
  BY <1>1, FS_Subset DEF Threads
<1>3. QED
  BY <1>2, FS_Difference

(* What is not in the list when it is taken is still charged for a slot. *)
LEMMA ReapLeaves ==
  ASSUME Types, Numbering, SlotAccounting, SlotsSeen, ReapedEmpty, ListOwnership,
         ReapFinished
  PROVE  Cardinality((Threads \ InArg)') <= MaxOutstanding
<1>1. arg = <<>> /\ Unjoined = targ_list_ /\ arg' = targ_list_ /\ pc = "reap"
  BY ConcatEmptySeq DEF Types, ReapedEmpty, ReapFinished, Unjoined
<1>2. Threads' = Threads
  BY DEF Threads, Issued, ReapFinished
<1>3. InArg' = {r \in Requests : tpc[r] \in Linked} \ freed
  BY <1>1 DEF InArg, ListOwnership
<1>4. (Threads \ InArg)' \subseteq Outstanding
  BY <1>2, <1>3, ThreadLauncherAssumption
  DEF Threads, Outstanding, Issued, Requests, Types, Linked
<1>5. Cardinality((Threads \ InArg)') <= Cardinality(Outstanding)
  BY <1>4, OutstandingFinite, FS_Subset
<1>6. Cardinality(Outstanding) <= MaxOutstanding
  BY <1>1, OutstandingFinite, ThreadLauncherAssumption DEF SlotAccounting, SlotsSeen, Unpaid, Types
<1>7. Cardinality((Threads \ InArg)') \in Nat
  <2>1. (Threads \ InArg)' = Threads \ InArg'
    BY <1>2
  <2>2. QED
    BY <2>1, ThreadsFinite
<1>8. QED
  BY <1>5, <1>6, <1>7, OutstandingFinite, ThreadLauncherAssumption

LEMMA JoinLeaves ==
  ASSUME Types, ListOwnership, JoinAndFree
  PROVE  /\ Threads' = Threads \ {Head(arg)}
         /\ (Threads \ InArg)' \subseteq Threads \ InArg
<1>1. Threads' = Threads \ {Head(arg)}
  BY DEF Threads, Issued, JoinAndFree
<1>2. /\ DOMAIN arg = 1..Len(arg) /\ Len(arg) \in Nat /\ Len(arg) >= 1
      /\ Head(arg) = arg[1]
      /\ DOMAIN Tail(arg) = 1..(Len(arg) - 1)
      /\ \A i \in 1..(Len(arg) - 1) : Tail(arg)[i] = arg[i + 1]
  BY HeadTailProperties, EmptySeq, LenProperties DEF Types, JoinAndFree
<1>3. ASSUME NEW x \in InArg, x # Head(arg)
      PROVE  x \in InArg'
  <2>1. PICK i \in 1..Len(arg) : x = arg[i]
    BY <1>2 DEF InArg
  <2>2. i - 1 \in 1..(Len(arg) - 1) /\ (i - 1) + 1 = i
    BY <1>2, <1>3, <2>1
  <2>3. x = Tail(arg)[i - 1]
    BY <1>2, <2>1, <2>2
  <2>4. QED
    BY <1>2, <2>2, <2>3 DEF InArg, JoinAndFree
<1>4. QED
  BY <1>1, <1>3

LEMMA CreateThreads ==
  ASSUME Types, CreateThread \/ CreateThreadFails
  PROVE  /\ Cardinality(Threads') <= Cardinality(Threads) + 1
         /\ Cardinality(Threads') \in Nat
<1>1. Threads' \subseteq Threads \union {num_requests_ + 1}
  <2>1. SUFFICES ASSUME NEW x \in Threads', x # num_requests_ + 1 PROVE x \in Threads
    OBVIOUS
  <2>2. num_requests_ \in Nat /\ num_requests_' = num_requests_ + 1 /\ freed' = freed
    BY ThreadLauncherAssumption DEF Types, CreateThread, CreateThreadFails
  <2>3. x \in 1..(num_requests_ + 1) /\ tpc'[x] # "failed" /\ x \notin freed
    BY <2>2 DEF Threads, Issued
  <2>4. tpc'[x] = tpc[x]
    <3>1. x \in Requests
      BY <2>1, <2>2, <2>3, ThreadLauncherAssumption
      DEF Requests, Types, WantsToIssue, CreateThread, CreateThreadFails
    <3>2. QED
      BY <2>1, <3>1 DEF Types, CreateThread, CreateThreadFails
  <2>5. QED
    BY <2>1, <2>2, <2>3, <2>4 DEF Threads, Issued
<1>2. /\ IsFiniteSet(Threads \union {num_requests_ + 1})
      /\ Cardinality(Threads \union {num_requests_ + 1}) <= Cardinality(Threads) + 1
  BY ThreadsFinite, FS_AddElement
<1>3. /\ Cardinality(Threads') <= Cardinality(Threads \union {num_requests_ + 1})
      /\ IsFiniteSet(Threads')
  BY <1>1, <1>2, FS_Subset
<1>4. QED
  BY <1>2, <1>3, FS_CardinalityType, ThreadsFinite

(* Threads that are not joined yet do not pile up. *)
LEMMA ThreadsBoundStep == Types /\ Numbering /\ SlotAccounting /\ SlotsSeen /\
  ReapedEmpty /\ ListOwnership /\ ThreadsLeft /\ ThreadsBound /\ [Next]_vars
  => (ThreadsLeft /\ ThreadsBound)'
<1> SUFFICES ASSUME Types, Numbering, SlotAccounting, SlotsSeen, ReapedEmpty,
    ListOwnership, ThreadsLeft, ThreadsBound, [Next]_vars PROVE (ThreadsLeft
    /\ ThreadsBound)'
  OBVIOUS
<1> USE ThreadLauncherAssumption DEF ThreadsLeft, ThreadsBound
<1>0. MaxOutstanding \in Nat
  BY DEF ThreadLauncherAssumption
<1>00. Cardinality(Threads) \in Nat
  BY ThreadsFinite
<1>1. CASE CreateThread
  <2>1. Cardinality(Threads') <= MaxOutstanding + 1
    BY <1>1, <1>0, <1>00, CreateThreads DEF CreateThread, WantsToIssue
  <2>2. QED
    BY <1>1, <2>1 DEF CreateThread
<1>2. CASE CreateThreadFails
  <2>1. Cardinality(Threads') <= MaxOutstanding + 1
    BY <1>2, <1>0, <1>00, CreateThreads DEF CreateThreadFails, WantsToIssue
  <2>2. QED
    BY <1>2, <2>1 DEF CreateThreadFails
<1>3. CASE ReapFinished
  <2>1. Threads' = Threads
    BY <1>3 DEF Threads, Issued, ReapFinished
  <2>2. QED
    BY <1>3, <2>1, ReapLeaves DEF ReapFinished
<1>4. CASE JoinAndFree
  <2>1. Cardinality(Threads') <= MaxOutstanding + 1
    BY <1>4, <1>0, <1>00, JoinLeaves, ThreadsFinite, FS_RemoveElement
  <2>2. Cardinality((Threads \ InArg)') <= MaxOutstanding
    <3>1. Cardinality((Threads \ InArg)') <= Cardinality(Threads \ InArg)
      BY <1>4, JoinLeaves, ThreadsFinite, FS_Subset
    <3>2. Cardinality((Threads \ InArg)') \in Nat
      BY <1>4, JoinLeaves, ThreadsFinite, FS_Subset, FS_CardinalityType
    <3>3. Cardinality(Threads \ InArg) <= MaxOutstanding /\ Cardinality(Threads \ InArg) \in Nat
      BY <1>4, ThreadsFinite DEF JoinAndFree
    <3>4. QED
      BY <1>0, <3>1, <3>2, <3>3
  <2>3. QED
    BY <1>4, <2>1, <2>2 DEF JoinAndFree
<1>5. CASE ExecuteRequestReturns
  <2>1. Threads' = Threads /\ Threads \ InArg = Threads
    BY <1>5 DEF Threads, Issued, InArg, ExecuteRequestReturns
  <2>2. QED
    BY <1>5, <2>1 DEF ExecuteRequestReturns
<1>6. CASE \/ LockSlots \/ CheckSlots \/ SleepForSlot \/ SpuriousWakeup
           \/ TakeSlot \/ WaitOutstandingReturns \/ MonitorSetsDone
           \/ LeaveExperiment \/ UNCHANGED vars
  <2>1. Threads' = Threads /\ InArg' = InArg
    BY <1>6 DEF Threads, Issued, InArg, vars, LockSlots, CheckSlots,
        SleepForSlot, SpuriousWakeup, TakeSlot, WaitOutstandingReturns,
        MonitorSetsDone, LeaveExperiment
  <2>2. QED
    BY <1>6, <2>1 DEF vars, LockSlots, CheckSlots, SleepForSlot,
        SpuriousWakeup, TakeSlot, WaitOutstandingReturns, MonitorSetsDone,
        LeaveExperiment
<1>7. ASSUME NEW r \in Requests, ExecutorStep(r) PROVE (ThreadsLeft /\ ThreadsBound)'
  <2>1. CASE ExecuteTxn(r)
    <3>1. Threads' = Threads /\ InArg' = InArg
      BY <2>1 DEF Threads, Issued, InArg, launcherVars, ExecuteTxn
    <3>2. QED
      BY <2>1, <3>1 DEF ExecuteTxn, launcherVars
  <2>2. CASE LinkArg(r)
    <3>1. Threads' = Threads /\ InArg' = InArg
      BY <2>2 DEF Threads, Issued, InArg, launcherVars, LinkArg
    <3>2. QED
      BY <2>2, <3>1 DEF LinkArg, launcherVars
  <2>3. CASE LockToReturn(r)
    <3>1. Threads' = Threads /\ InArg' = InArg
      BY <2>3 DEF Threads, Issued, InArg, launcherVars, LockToReturn
    <3>2. QED
      BY <2>3, <3>1 DEF LockToReturn, launcherVars
  <2>4. CASE ReturnSlot(r)
    <3>1. Threads' = Threads /\ InArg' = InArg
      BY <2>4 DEF Threads, Issued, InArg, launcherVars, ReturnSlot
    <3>2. QED
      BY <2>4, <3>1 DEF ReturnSlot, launcherVars
  <2>5. CASE Signal(r)
    <3>1. Threads' = Threads /\ InArg' = InArg
      BY <2>5 DEF Threads, Issued, InArg, launcherVars, Signal
    <3>2. QED
      BY <2>5, <3>1 DEF Signal, launcherVars
  <2>6. CASE UnlockSlots(r)
    <3>1. Threads' = Threads /\ InArg' = InArg
      BY <2>6 DEF Threads, Issued, InArg, launcherVars, UnlockSlots
    <3>2. QED
      BY <2>6, <3>1 DEF UnlockSlots, launcherVars
  <2>7. CASE CountExecuted(r)
    <3>1. Threads' = Threads /\ InArg' = InArg
      BY <2>7 DEF Threads, Issued, InArg, launcherVars, CountExecuted
    <3>2. QED
      BY <2>7, <3>1 DEF CountExecuted, launcherVars
  <2>8. QED
    BY <1>7, <2>1, <2>2, <2>3, <2>4, <2>5, <2>6, <2>7 DEF ExecutorStep
<1>8. QED
  BY <1>1, <1>2, <1>3, <1>4, <1>5, <1>6, <1>7 DEF Next, LauncherStep,
     Terminated

-----------------------------------------------------------------------------
(* The inductive invariant. *)
IInv ==
  /\ Types
  /\ Numbering
  /\ MutexOwners
  /\ SlotsSeen
  /\ SlotAccounting
  /\ NoLostWakeup
  /\ Counting
  /\ DryRunIssued
  /\ DryRunDrained
  /\ NoUseAfterFree
  /\ ReapedEmpty
  /\ ListOwnership
  /\ ThreadsLeft
  /\ ThreadsBound

LEMMA IInvInit == Init => IInv
<1> SUFFICES ASSUME Init PROVE IInv
  OBVIOUS
<1> USE ThreadLauncherAssumption DEF Init
<1>1. Types
  <2>1. <<>> \in Seq(Requests) /\ num_requests_ \in 0..NumRequests
    BY DEF ThreadLauncherAssumption
  <2>2. tpc \in [Requests -> {"none", "failed", "execute", "link"} \union Linked]
    OBVIOUS
  <2>3. MaxOutstanding \in Int /\ Nobody \in Requests \union {Main, Nobody}
    BY DEF ThreadLauncherAssumption
  <2>4. QED
    BY <2>1, <2>2, <2>3 DEF Types
<1>11. Numbering
  BY DEF Numbering, Requests
<1>2. MutexOwners /\ SlotsSeen /\ NoLostWakeup /\ DryRunIssued /\ DryRunDrained /\ NoUseAfterFree
  BY DEF MutexOwners, SlotsSeen, NoLostWakeup, DryRunIssued, DryRunDrained,
         NoUseAfterFree, Requests, Main, Nobody
<1>3. SlotAccounting
  <2>1. Outstanding = {}
    BY DEF Outstanding, Issued
  <2>2. QED
    BY <2>1, FS_EmptySet DEF SlotAccounting, Unpaid
<1>4. Counting
  <2>1. Returned = {}
    BY DEF Returned
  <2>2. QED
    BY <2>1, FS_EmptySet DEF Counting
<1>5. ReapedEmpty /\ ListOwnership
  <2>1. Unjoined = <<>>
    BY DEF Unjoined
  <2>2. {Unjoined[i] : i \in DOMAIN Unjoined} = {}
    BY <2>1
  <2>3. {r \in Requests : tpc[r] \in Linked} = {}
    BY DEF Linked, SlotReturned
  <2>4. QED
    BY <2>1, <2>2, <2>3 DEF ReapedEmpty, ListOwnership
<1>6. ThreadsLeft /\ ThreadsBound
  <2>1. Threads = {}
    BY DEF Threads, Issued
  <2>2. QED
    BY <2>1, FS_EmptySet DEF ThreadsLeft, ThreadsBound
<1>7. QED
  BY <1>1, <1>11, <1>2, <1>3, <1>4, <1>5, <1>6 DEF IInv

LEMMA IInvStep == IInv /\ [Next]_vars => IInv'
<1> SUFFICES ASSUME IInv, [Next]_vars PROVE IInv'
  OBVIOUS
<1>1. Types' /\ Numbering' /\ MutexOwners' /\ SlotsSeen'
  BY TypesStep, NumberingStep, MutexOwnersStep, SlotsSeenStep DEF IInv
<1>2. SlotAccounting' /\ NoLostWakeup'
  BY SlotAccountingStep, NoLostWakeupStep DEF IInv
<1>3. Counting' /\ DryRunIssued' /\ DryRunDrained'
  BY CountingStep, DryRunIssuedStep, DryRunDrainedStep DEF IInv
<1>4. NoUseAfterFree' /\ ReapedEmpty' /\ ListOwnership'
  BY NoUseAfterFreeStep, ReapedEmptyStep, ListOwnershipStep DEF IInv
<1>5. ThreadsLeft' /\ ThreadsBound'
  BY ThreadsBoundStep DEF IInv
<1>6. QED
  BY <1>1, <1>2, <1>3, <1>4, <1>5 DEF IInv

LEMMA IInvAlways == Spec => []IInv
  BY IInvInit, IInvStep, PTL DEF Spec

(* Every variable stays in its type; in particular max_outstanding_, a uint32_t
   decremented by the launcher, never wraps below zero. *)
THEOREM TypeCorrect == Spec => []TypeOK
<1>1. IInv => TypeOK
  <2> SUFFICES ASSUME IInv PROVE TypeOK
    OBVIOUS
  <2>1. max_outstanding_ \in 0..(MaxOutstanding + 1)
    BY OutstandingFinite, ThreadLauncherAssumption
    DEF IInv, Types, SlotsSeen, SlotAccounting, Unpaid
  <2>2. txns_executed_ \in 0..NumRequests
    BY ReturnedFinite DEF IInv, Counting
  <2>3. QED
    BY <2>1, <2>2 DEF IInv, Types, TypeOK
<1>2. QED
  BY IInvAlways, <1>1, PTL

(* Slots left and slots in use add up in every reachable state. *)
THEOREM SlotsConserved == Spec => []SlotAccounting
<1>1. IInv => SlotAccounting
  BY DEF IInv
<1>2. QED
  BY IInvAlways, <1>1, PTL

(* At most max_outstanding + 1 requests are ever in execution. *)
LEMMA BoundFromInv == IInv => OutstandingBound
  BY OutstandingFinite, ThreadLauncherAssumption
  DEF IInv, Types, SlotsSeen, SlotAccounting, Unpaid, OutstandingBound

THEOREM OutstandingBounded == Spec => []OutstandingBound
  BY IInvAlways, BoundFromInv, PTL

(* The process never has more than max_outstanding + 1 executor threads that were
   not joined, and never more than max_outstanding between two requests. *)
THEOREM ThreadsBounded == Spec => []ThreadsBound
<1>1. IInv => ThreadsBound
  BY DEF IInv
<1>2. QED
  BY IInvAlways, <1>1, PTL

(* No thread_arg is lost, joined twice or freed twice. *)
THEOREM ListOwned == Spec => []ListOwnership
<1>1. IInv => ListOwnership
  BY DEF IInv
<1>2. QED
  BY IInvAlways, <1>1, PTL

(* An executor that may still use its thread_arg has not had it freed. *)
THEOREM FreedAfterUse == Spec => []NoUseAfterFree
<1>1. IInv => NoUseAfterFree
  BY DEF IInv
<1>2. QED
  BY IInvAlways, <1>1, PTL

(* The timed run starts with no dry-run request left. *)
THEOREM DryRunDrains == Spec => []DryRunDrained
<1>1. IInv => DryRunDrained
  BY DEF IInv
<1>2. QED
  BY IInvAlways, <1>1, PTL

(* The launcher never sleeps on a free slot that nobody is about to announce. *)
THEOREM WakeupsKept == Spec => []NoLostWakeup
<1>1. IInv => NoLostWakeup
  BY DEF IInv
<1>2. QED
  BY IInvAlways, <1>1, PTL

-----------------------------------------------------------------------------
(* Cardinality as BoundedLauncher's instance of FiniteSets defines it. *)
LEMMA LauncherCardinality == \A S : Launcher!Cardinality(S) = Cardinality(S)
  BY DEF Launcher!Cardinality, Cardinality, Launcher!IsFiniteSet, IsFiniteSet

(* The safety half of the refinement: every step of ThreadLauncher is a step of
   BoundedLauncher, or one that BoundedLauncher does not see. *)
THEOREM RefinesLauncherSafety ==
  Spec => RefinesBoundedLauncher
<1>1. Init => Launcher!Init
  <2>1. Init => Outstanding = {}
    BY DEF Init, Outstanding, Issued
  <2>2. QED
    BY <2>1 DEF Init, Launcher!Init
<1>2. IInv /\ IInv' /\ [Next]_vars => [Launcher!Next]_(Launcher!absVars)
  <2> SUFFICES ASSUME IInv, IInv', [Next]_vars
               PROVE  [Launcher!Next]_(Launcher!absVars)
    OBVIOUS
  <2>1. /\ Cardinality(Outstanding) \in Nat
        /\ Types /\ Numbering
    BY OutstandingFinite DEF IInv
  <2>2. ASSUME CreateThread \/ CreateThreadFails
        PROVE  Launcher!Issue
    <3>1. Cardinality(Outstanding) < MaxOutstanding + 1
      BY <2>1, <2>2, ThreadLauncherAssumption
      DEF IInv, SlotAccounting, SlotsSeen, Types, Unpaid, CreateThread,
          CreateThreadFails, WantsToIssue
    <3>2. Outstanding' = Outstanding \union {num_requests_ + 1}
      BY <2>1, <2>2, OutstandingGrows
    <3>3. QED
      BY <2>2, <3>1, <3>2, LauncherCardinality DEF Launcher!Issue, CreateThread, CreateThreadFails
  <2>3. ASSUME NEW r \in Requests, ReturnSlot(r)
        PROVE  Launcher!Finish
    BY <2>1, <2>3, OutstandingShrinks DEF Launcher!Finish, ReturnSlot, launcherVars
  <2>4. ASSUME NEW r \in Requests, CountExecuted(r)
        PROVE  Launcher!Count
    <3>1. Outstanding' = Outstanding
      BY <2>1, <2>4 DEF Types, Outstanding, Issued, Requests, SlotReturned, CountExecuted, launcherVars
    <3>2. txns_executed_ + Cardinality(Outstanding) < num_requests_
      <4>1. r \notin Returned /\ r \notin Outstanding /\ r \in Issued
        BY <2>1, <2>4 DEF Returned, Outstanding, Issued, Numbering, Types, Requests, SlotReturned, CountExecuted
      <4>2. Returned \subseteq Issued /\ Outstanding \subseteq Issued /\ Returned \intersect Outstanding = {}
        BY <2>1 DEF Returned, Outstanding, Issued, Numbering, Types, Requests, SlotReturned
      <4>3. IsFiniteSet(Issued) /\ Cardinality(Issued) = num_requests_
        BY <2>1, FS_Interval DEF Issued, Types
      <4>4. /\ IsFiniteSet(Returned \union Outstanding)
            /\ Cardinality(Returned \union Outstanding) = Cardinality(Returned) + Cardinality(Outstanding)
        <5>1. Cardinality(Returned \intersect Outstanding) = 0
          BY <4>2, FS_EmptySet
        <5>2. /\ IsFiniteSet(Returned) /\ Cardinality(Returned) \in Nat
              /\ IsFiniteSet(Outstanding) /\ Cardinality(Outstanding) \in Nat
          BY <2>1, ReturnedFinite, OutstandingFinite
        <5>3. /\ IsFiniteSet(Returned \union Outstanding)
              /\ Cardinality(Returned \union Outstanding) =
                   Cardinality(Returned) + Cardinality(Outstanding)
                     - Cardinality(Returned \intersect Outstanding)
          BY <5>2, FS_Union
        <5>4. QED
          BY <5>1, <5>2, <5>3
      <4>5. /\ Returned \union Outstanding \subseteq Issued
            /\ Cardinality(Returned \union Outstanding) # Cardinality(Issued)
            /\ Cardinality(Returned \union Outstanding) <= Cardinality(Issued)
        BY <4>1, <4>2, <4>3, FS_Subset
      <4>6. txns_executed_ = Cardinality(Returned) /\ txns_executed_ \in Nat
        BY DEF IInv, Counting, Types
      <4>7. QED
        BY <2>1, <4>3, <4>4, <4>5, <4>6 DEF Types
    <3>3. QED
      BY <2>4, <3>1, <3>2, LauncherCardinality DEF Launcher!Count, CountExecuted, launcherVars
  <2>5. ASSUME WaitOutstandingReturns
        PROVE  Launcher!WaitOutstanding
    BY <2>5 DEF Launcher!WaitOutstanding, WaitOutstandingReturns, Outstanding, Issued
  <2>6. ASSUME \/ LockSlots \/ CheckSlots \/ SleepForSlot \/ SpuriousWakeup
               \/ TakeSlot \/ ReapFinished \/ JoinAndFree \/ ExecuteRequestReturns
               \/ MonitorSetsDone \/ LeaveExperiment \/ UNCHANGED vars
        PROVE  UNCHANGED Launcher!absVars
    BY <2>6 DEF Launcher!absVars, Outstanding, Issued, vars,
      LockSlots, CheckSlots, SleepForSlot, SpuriousWakeup, TakeSlot,
      ReapFinished, JoinAndFree, ExecuteRequestReturns, MonitorSetsDone, LeaveExperiment
  <2>7. ASSUME NEW r \in Requests, ExecuteTxn(r) \/ LinkArg(r) \/ LockToReturn(r) \/ Signal(r) \/ UnlockSlots(r)
        PROVE  UNCHANGED Launcher!absVars
    <3>1. Outstanding' = Outstanding
      <4>1. CASE ExecuteTxn(r)
        BY <2>1, <4>1 DEF Types, Outstanding, Issued, Requests, SlotReturned,
                        Linked, launcherVars, ExecuteTxn
      <4>2. CASE LinkArg(r)
        BY <2>1, <4>2 DEF Types, Outstanding, Issued, Requests, SlotReturned,
                        Linked, launcherVars, LinkArg
      <4>3. CASE LockToReturn(r)
        BY <2>1, <4>3 DEF Types, Outstanding, Issued, Requests, SlotReturned,
                        Linked, launcherVars, LockToReturn
      <4>4. CASE Signal(r)
        BY <2>1, <4>4 DEF Types, Outstanding, Issued, Requests, SlotReturned,
                        Linked, launcherVars, Signal
      <4>5. CASE UnlockSlots(r)
        BY <2>1, <4>5 DEF Types, Outstanding, Issued, Requests, SlotReturned,
                        Linked, launcherVars, UnlockSlots
      <4>6. QED
        BY <2>7, <4>1, <4>2, <4>3, <4>4, <4>5
    <3>2. QED
      BY <2>7, <3>1 DEF Launcher!absVars, launcherVars, ExecuteTxn, LinkArg,
                        LockToReturn, Signal, UnlockSlots
  <2>8. QED
    BY <2>2, <2>3, <2>4, <2>5, <2>6, <2>7
    DEF Next, LauncherStep, ExecutorStep, Terminated, Launcher!Next
<1>3. QED
  BY <1>1, <1>2, IInvAlways, PTL DEF Spec, RefinesBoundedLauncher
=============================================================================
