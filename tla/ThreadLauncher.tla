--------------------------- MODULE ThreadLauncher ---------------------------
(***************************************************************************)
(* The thread-per-request execution model of assignment 1: one launcher    *)
(* thread (main), running run_experiment of db_start.cc, and one executor  *)
(* thread for every request it issues.                                     *)
(*                                                                         *)
(* The launcher creates the thread of a request FIRST and only then waits  *)
(* on max_outstanding_cond_ for a slot; it then takes the list of finished *)
(* thread_args, joins their threads and frees them.  An executor runs its  *)
(* request, links its thread_arg into targ_list_, gives its slot back, and *)
(* increments the shared counter that WaitOutstanding spins on.            *)
(*                                                                         *)
(* max_outstanding_mutex_ is modelled explicitly, because the launcher     *)
(* sleeps under it.  A critical section of targ_list_mutex_ is one action: *)
(* every access to targ_list_ is inside it and nothing blocks there.       *)
(***************************************************************************)
EXTENDS Integers, Sequences, FiniteSets

CONSTANTS
  MaxOutstanding,  \* the constructor's max_outstanding (--max_outstanding)
  DryRun,          \* requests issued before WaitOutstanding (DRY_RUN_SZ)
  NumRequests,     \* BOUND: requests the model ever issues
  CreateCanFail    \* whether pthread_create may report an error

ASSUME ThreadLauncherAssumption ==
  /\ MaxOutstanding \in Nat
  /\ NumRequests \in Nat
  /\ DryRun \in 1..NumRequests
  /\ CreateCanFail \in BOOLEAN

Requests == 1..NumRequests
Main   == 0        \* the launcher thread, as owner of a mutex
Nobody == -1       \* a mutex that is not held

VARIABLES
  pc,                     \* where the launcher thread is
  phase,                  \* "dry" until WaitOutstanding has returned, then "timed"
  done_flag,              \* set by the PerfMonitor thread at the end of its samples
  num_requests_,          \* requests issued
  max_outstanding_,       \* slots left
  max_outstanding_mutex_, \* its owner: Main, an executor, or Nobody
  targ_list_,             \* thread_args of executors that finished, newest first
  arg,                    \* ExecuteRequest's local: the thread_args left to join
  freed,                  \* requests whose thread was joined and thread_arg freed
  tpc,                    \* where each executor thread is
  txns_executed_          \* the counter shared with WaitOutstanding and PerfMonitor

launcherVars == <<pc, phase, num_requests_, arg, freed>>
vars == <<pc, phase, done_flag, num_requests_, max_outstanding_,
          max_outstanding_mutex_, targ_list_, arg, freed, tpc, txns_executed_>>

(* An executor in one of these states has incremented max_outstanding_. *)
SlotReturned == {"signal", "unlock", "count", "returned"}
(* An executor in one of these states has linked its thread_arg. *)
Linked == {"lock", "increment"} \union SlotReturned

Issued == 1..num_requests_

(* Requests that still hold, or are still to be charged for, a slot. *)
Outstanding == {r \in Issued : tpc[r] \notin SlotReturned}

(* Executor threads the process has and has not joined, zombies included. *)
Threads == {r \in Issued : tpc[r] # "failed"} \ freed

Init ==
  /\ pc = "issue"
  /\ phase = "dry"
  /\ done_flag = FALSE
  /\ num_requests_ = 0
  /\ max_outstanding_ = MaxOutstanding
  /\ max_outstanding_mutex_ = Nobody
  /\ targ_list_ = <<>>
  /\ arg = <<>>
  /\ freed = {}
  /\ tpc = [r \in Requests |-> "none"]
  /\ txns_executed_ = 0

-----------------------------------------------------------------------------
(* Mutants: the mistakes the properties below are there to catch.  Each takes
   the place of the definition named in its comment; none is part of Spec. *)

(* CheckSlots with `if` for `while`: woken, the launcher takes a slot unseen. *)
CheckSlotsOnce ==
  /\ pc = "check"
  /\ pc' \in IF max_outstanding_ <= 0 THEN {"wait", "take"} ELSE {"take"}
  /\ UNCHANGED <<phase, done_flag, num_requests_, max_outstanding_,
                 max_outstanding_mutex_, targ_list_, arg, freed, tpc,
                 txns_executed_>>

(* ReapFinished in batches: the list is taken only when it has grown long. *)
ReapInBatches ==
  /\ pc = "reap"
  /\ IF Len(targ_list_) > MaxOutstanding
       THEN arg' = targ_list_ /\ targ_list_' = <<>>
       ELSE UNCHANGED <<arg, targ_list_>>
  /\ pc' = "join"
  /\ UNCHANGED <<phase, done_flag, num_requests_, max_outstanding_,
                 max_outstanding_mutex_, freed, tpc, txns_executed_>>

(* JoinAndFree without pthread_join. *)
FreeWithoutJoin ==
  /\ pc = "join"
  /\ arg # <<>>
  /\ freed' = freed \union {Head(arg)}
  /\ arg' = Tail(arg)
  /\ UNCHANGED <<pc, phase, done_flag, num_requests_, max_outstanding_,
                 max_outstanding_mutex_, targ_list_, tpc, txns_executed_>>

(* WaitOutstandingReturns on the slots instead of the counter. *)
WaitForSlots ==
  /\ pc = "waitall"
  /\ max_outstanding_ = MaxOutstanding
  /\ phase' = "timed"
  /\ pc' = "issue"
  /\ UNCHANGED <<done_flag, num_requests_, max_outstanding_,
                 max_outstanding_mutex_, targ_list_, arg, freed, tpc,
                 txns_executed_>>

(* LinkArg that forgets the list it links to. *)
LinkArgAlone(r) ==
  /\ tpc[r] = "link"
  /\ targ_list_' = <<r>>
  /\ tpc' = [tpc EXCEPT ![r] = "lock"]
  /\ UNCHANGED <<launcherVars, done_flag, max_outstanding_,
                 max_outstanding_mutex_, txns_executed_>>

(* LockToReturn that does not wait for the mutex. *)
ReturnUnlocked(r) ==
  /\ tpc[r] = "lock"
  /\ tpc' = [tpc EXCEPT ![r] = "increment"]
  /\ UNCHANGED <<launcherVars, done_flag, max_outstanding_,
                 max_outstanding_mutex_, targ_list_, txns_executed_>>

(* ReturnSlot of an executor that finds no slot taken yet. *)
ReturnSlotIfTaken(r) ==
  /\ tpc[r] = "increment"
  /\ max_outstanding_' =
       IF max_outstanding_ < MaxOutstanding THEN max_outstanding_ + 1
                                            ELSE max_outstanding_
  /\ tpc' = [tpc EXCEPT ![r] = "signal"]
  /\ UNCHANGED <<launcherVars, done_flag, max_outstanding_mutex_, targ_list_,
                 txns_executed_>>

(* Signal without the signal. *)
SignalNobody(r) ==
  /\ tpc[r] = "signal"
  /\ tpc' = [tpc EXCEPT ![r] = "unlock"]
  /\ UNCHANGED <<launcherVars, done_flag, max_outstanding_,
                 max_outstanding_mutex_, targ_list_, txns_executed_>>

-----------------------------------------------------------------------------
(* The launcher thread: run_experiment and ThreadLauncher::ExecuteRequest. *)

(* run_experiment calls ExecuteRequest again: DryRun times, then until the
   monitor has set done_flag. *)
WantsToIssue ==
  /\ pc = "issue"
  /\ num_requests_ < IF phase = "dry" THEN DryRun ELSE NumRequests
  /\ phase = "timed" => ~done_flag

(* num_requests_++, GenThreadArg, and pthread_create. *)
CreateThread ==
  /\ WantsToIssue
  /\ num_requests_' = num_requests_ + 1
  /\ tpc' = [tpc EXCEPT ![num_requests_ + 1] = "execute"]
  /\ pc' = "lock"
  /\ UNCHANGED <<phase, done_flag, max_outstanding_, max_outstanding_mutex_,
                 targ_list_, arg, freed, txns_executed_>>

(* pthread_create reports an error.  The assertion on err is compiled out of
   the default (Release) build, so ExecuteRequest goes on as if the thread
   existed. *)
CreateThreadFails ==
  /\ CreateCanFail
  /\ WantsToIssue
  /\ num_requests_' = num_requests_ + 1
  /\ tpc' = [tpc EXCEPT ![num_requests_ + 1] = "failed"]
  /\ pc' = "lock"
  /\ UNCHANGED <<phase, done_flag, max_outstanding_, max_outstanding_mutex_,
                 targ_list_, arg, freed, txns_executed_>>

(* pthread_mutex_lock, on entry or when pthread_cond_wait has been woken. *)
LockSlots ==
  /\ pc = "lock"
  /\ max_outstanding_mutex_ = Nobody
  /\ max_outstanding_mutex_' = Main
  /\ pc' = "check"
  /\ UNCHANGED <<phase, done_flag, num_requests_, max_outstanding_, targ_list_,
                 arg, freed, tpc, txns_executed_>>

(* The loop's condition, read under the mutex. *)
CheckSlots ==
  /\ pc = "check"
  /\ pc' = IF max_outstanding_ <= 0 THEN "wait" ELSE "take"
  /\ UNCHANGED <<phase, done_flag, num_requests_, max_outstanding_,
                 max_outstanding_mutex_, targ_list_, arg, freed, tpc,
                 txns_executed_>>

(* pthread_cond_wait gives the mutex up and sleeps, in one step. *)
SleepForSlot ==
  /\ pc = "wait"
  /\ max_outstanding_mutex_' = Nobody
  /\ pc' = "asleep"
  /\ UNCHANGED <<phase, done_flag, num_requests_, max_outstanding_, targ_list_,
                 arg, freed, tpc, txns_executed_>>

(* pthread_cond_wait may return without a signal. *)
SpuriousWakeup ==
  /\ pc = "asleep"
  /\ pc' = "lock"
  /\ UNCHANGED <<phase, done_flag, num_requests_, max_outstanding_,
                 max_outstanding_mutex_, targ_list_, arg, freed, tpc,
                 txns_executed_>>

TakeSlot ==
  /\ pc = "take"
  /\ max_outstanding_' = max_outstanding_ - 1
  /\ max_outstanding_mutex_' = Nobody
  /\ pc' = "reap"
  /\ UNCHANGED <<phase, done_flag, num_requests_, targ_list_, arg, freed, tpc,
                 txns_executed_>>

ReapFinished ==
  /\ pc = "reap"
  /\ arg' = targ_list_
  /\ targ_list_' = <<>>
  /\ pc' = "join"
  /\ UNCHANGED <<phase, done_flag, num_requests_, max_outstanding_,
                 max_outstanding_mutex_, freed, tpc, txns_executed_>>

(* pthread_join returns only once the executor has returned; then the
   thread_arg is freed. *)
JoinAndFree ==
  /\ pc = "join"
  /\ arg # <<>>
  /\ tpc[Head(arg)] = "returned"
  /\ freed' = freed \union {Head(arg)}
  /\ arg' = Tail(arg)
  /\ UNCHANGED <<pc, phase, done_flag, num_requests_, max_outstanding_,
                 max_outstanding_mutex_, targ_list_, tpc, txns_executed_>>

(* ExecuteRequest returns; after the last request of the dry run the driver
   calls WaitOutstanding. *)
ExecuteRequestReturns ==
  /\ pc = "join"
  /\ arg = <<>>
  /\ pc' = IF phase = "dry" /\ num_requests_ = DryRun THEN "waitall" ELSE "issue"
  /\ UNCHANGED <<phase, done_flag, num_requests_, max_outstanding_,
                 max_outstanding_mutex_, targ_list_, arg, freed, tpc,
                 txns_executed_>>

(* WaitOutstanding's spin loop sees the counter equal to num_requests_. *)
WaitOutstandingReturns ==
  /\ pc = "waitall"
  /\ txns_executed_ = num_requests_
  /\ phase' = "timed"
  /\ pc' = "issue"
  /\ UNCHANGED <<done_flag, num_requests_, max_outstanding_,
                 max_outstanding_mutex_, targ_list_, arg, freed, tpc,
                 txns_executed_>>

(* The PerfMonitor thread, started after the dry run, reports its last sample. *)
MonitorSetsDone ==
  /\ phase = "timed"
  /\ ~done_flag
  /\ done_flag' = TRUE
  /\ UNCHANGED <<pc, phase, num_requests_, max_outstanding_,
                 max_outstanding_mutex_, targ_list_, arg, freed, tpc,
                 txns_executed_>>

LeaveExperiment ==
  /\ pc = "issue"
  /\ phase = "timed"
  /\ done_flag
  /\ pc' = "exit"
  /\ UNCHANGED <<phase, done_flag, num_requests_, max_outstanding_,
                 max_outstanding_mutex_, targ_list_, arg, freed, tpc,
                 txns_executed_>>

-----------------------------------------------------------------------------
(* The executor thread of request r: ThreadLauncher::ExecutorFunc. *)

ExecuteTxn(r) ==
  /\ tpc[r] = "execute"
  /\ tpc' = [tpc EXCEPT ![r] = "link"]
  /\ UNCHANGED <<launcherVars, done_flag, max_outstanding_,
                 max_outstanding_mutex_, targ_list_, txns_executed_>>

LinkArg(r) ==
  /\ tpc[r] = "link"
  /\ targ_list_' = <<r>> \o targ_list_
  /\ tpc' = [tpc EXCEPT ![r] = "lock"]
  /\ UNCHANGED <<launcherVars, done_flag, max_outstanding_,
                 max_outstanding_mutex_, txns_executed_>>

LockToReturn(r) ==
  /\ tpc[r] = "lock"
  /\ max_outstanding_mutex_ = Nobody
  /\ max_outstanding_mutex_' = r
  /\ tpc' = [tpc EXCEPT ![r] = "increment"]
  /\ UNCHANGED <<launcherVars, done_flag, max_outstanding_, targ_list_,
                 txns_executed_>>

ReturnSlot(r) ==
  /\ tpc[r] = "increment"
  /\ max_outstanding_' = max_outstanding_ + 1
  /\ tpc' = [tpc EXCEPT ![r] = "signal"]
  /\ UNCHANGED <<launcherVars, done_flag, max_outstanding_mutex_, targ_list_,
                 txns_executed_>>

(* pthread_cond_signal: wakes the launcher if it sleeps, is lost otherwise. *)
Signal(r) ==
  /\ tpc[r] = "signal"
  /\ pc' = IF pc = "asleep" THEN "lock" ELSE pc
  /\ tpc' = [tpc EXCEPT ![r] = "unlock"]
  /\ UNCHANGED <<phase, done_flag, num_requests_, max_outstanding_,
                 max_outstanding_mutex_, targ_list_, arg, freed, txns_executed_>>

UnlockSlots(r) ==
  /\ tpc[r] = "unlock"
  /\ max_outstanding_mutex_' = Nobody
  /\ tpc' = [tpc EXCEPT ![r] = "count"]
  /\ UNCHANGED <<launcherVars, done_flag, max_outstanding_, targ_list_,
                 txns_executed_>>

(* fetch_and_increment(txns_executed_), and the thread returns. *)
CountExecuted(r) ==
  /\ tpc[r] = "count"
  /\ txns_executed_' = txns_executed_ + 1
  /\ tpc' = [tpc EXCEPT ![r] = "returned"]
  /\ UNCHANGED <<launcherVars, done_flag, max_outstanding_,
                 max_outstanding_mutex_, targ_list_>>

-----------------------------------------------------------------------------
LauncherStep ==
  \/ CreateThread \/ LockSlots \/ CheckSlots \/ SleepForSlot \/ TakeSlot
  \/ ReapFinished \/ JoinAndFree \/ ExecuteRequestReturns
  \/ WaitOutstandingReturns \/ LeaveExperiment

ExecutorStep(r) ==
  \/ ExecuteTxn(r) \/ LinkArg(r) \/ LockToReturn(r) \/ ReturnSlot(r)
  \/ Signal(r) \/ UnlockSlots(r) \/ CountExecuted(r)

(* Requests whose thread could not be created, in the dry run or at all. *)
Failed == {r \in Requests : tpc[r] = "failed"}

(* main has left run_experiment: the process ends, whatever executors still run.
   Or it spins for ever on a request of the dry run that no thread counts. *)
Terminated ==
  /\ pc = "exit" \/ (pc = "waitall" /\ Failed # {})
  /\ UNCHANGED vars

Next ==
  \/ LauncherStep
  \/ CreateThreadFails
  \/ SpuriousWakeup
  \/ MonitorSetsDone
  \/ \E r \in Requests : ExecutorStep(r)
  \/ Terminated

(* The operating system schedules every runnable thread, and a thread blocked on
   the mutex gets it if it is released again and again: spurious wake-ups take
   and release it without bound, so weak fairness would let them starve an
   executor.  Nothing is assumed of spurious wake-ups or of failing creations. *)
Fairness ==
  /\ WF_vars(LauncherStep)
  /\ WF_vars(MonitorSetsDone)
  /\ \A r \in Requests : WF_vars(ExecutorStep(r)) /\ SF_vars(LockToReturn(r))

Spec == Init /\ [][Next]_vars /\ Fairness

-----------------------------------------------------------------------------
TypeOK ==
  /\ pc \in {"issue", "lock", "check", "wait", "asleep", "take", "reap", "join",
             "waitall", "exit"}
  /\ phase \in {"dry", "timed"}
  /\ done_flag \in BOOLEAN
  /\ num_requests_ \in 0..NumRequests
  /\ max_outstanding_ \in 0..(MaxOutstanding + 1)
  /\ max_outstanding_mutex_ \in Requests \union {Main, Nobody}
  /\ targ_list_ \in Seq(Requests)
  /\ arg \in Seq(Requests)
  /\ freed \subseteq Requests
  /\ tpc \in [Requests -> {"none", "failed", "execute", "link"} \union Linked]
  /\ txns_executed_ \in 0..NumRequests

(* The slots left and the slots in use always add up: no slot is lost or given
   back twice, whatever the order of the executors' increments and of the
   launcher's decrements.  The request whose thread runs before the launcher
   has taken its slot (thread_launcher.cc:50 before :61) is the one extra. *)
Unpaid == IF pc \in {"lock", "check", "wait", "asleep", "take"} THEN 1 ELSE 0
SlotAccounting ==
  max_outstanding_ + Cardinality(Outstanding) = MaxOutstanding + Unpaid

(* The bound ExecuteRequest really enforces on requests in execution. *)
OutstandingBound == Cardinality(Outstanding) <= MaxOutstanding + 1

(* What the comments at thread_launcher.cc:10 and thread_launcher.h:32 claim:
   "the number of outstanding requests never exceeds max_outstanding". *)
DocumentedBound == Cardinality(Outstanding) <= MaxOutstanding

(* Threads, zombies included, stay bounded although they are joined only by a
   later ExecuteRequest: when that call returns, everything that was linked when
   it took the list has been joined, and the rest still held a slot. *)
ThreadsBound ==
  /\ Cardinality(Threads) <= MaxOutstanding + 1
  /\ pc \in {"issue", "waitall", "exit"} => Cardinality(Threads) <= MaxOutstanding

(* Every thread_arg of an executor that has linked it is in exactly one place:
   targ_list_, the launcher's private list, or freed; so none leaks and none is
   joined or freed twice, although ExecuteRequest and ExecutorFunc both rewrite
   the head of the list. *)
Unjoined == targ_list_ \o arg
ListOwnership ==
  /\ \A i, j \in DOMAIN Unjoined : Unjoined[i] = Unjoined[j] => i = j
  /\ {Unjoined[i] : i \in DOMAIN Unjoined} =
       {r \in Requests : tpc[r] \in Linked} \ freed

(* ExecutorFunc goes on using its thread_arg after linking it into the list the
   launcher frees from; no executor that may still touch its argument has had
   it freed. *)
NoUseAfterFree == \A r \in freed : tpc[r] = "returned"

(* When the timed run starts, every request of the dry run has returned: the
   spin on txns_executed_ waits for the executors themselves, not only for
   their slots, so no dry-run request is counted in the first sample. *)
DryRunDrained == phase = "timed" => \A r \in 1..DryRun : tpc[r] = "returned"

(* No lost wake-up: if the launcher sleeps while a slot is free, an executor that
   has yet to signal is on its way to wake it. *)
NoLostWakeup ==
  pc = "asleep" /\ max_outstanding_ > 0 => \E r \in Requests : tpc[r] = "signal"

(* WaitOutstanding returns (launcher.h:31: "Wait for outstanding requests to
   finish executing"). *)
WaitOutstandingEnds == pc = "waitall" ~> pc = "issue"

(* The experiment ends: the launcher gets every slot it sleeps for, the dry run
   drains, and the monitor's flag is seen (db_start.cc:82-106).  Threads that
   could not be created keep it from ending only when the dry run waits for one
   of them, or when they have used up the slots. *)
ExperimentEnds ==
  <>(\/ pc = "exit"
     \/ \E r \in Failed : r <= DryRun
     \/ Cardinality(Failed) >= MaxOutstanding)

-----------------------------------------------------------------------------
(* What a Launcher promises its driver, whatever its execution model. *)
Launcher == INSTANCE BoundedLauncher WITH
  MaxRunning <- MaxOutstanding + 1,
  issued     <- num_requests_,
  running    <- Outstanding,
  executed   <- txns_executed_

(* ThreadLauncher keeps the safety part of the promise, threads failing to be
   created or not: the launcher issues only when its bound allows, every request
   is counted at most once, after it has finished, and the timed run starts only
   when every request has been counted (launcher.h:31). *)
RefinesBoundedLauncher == Launcher!Init /\ [][Launcher!Next]_(Launcher!absVars)
=============================================================================
