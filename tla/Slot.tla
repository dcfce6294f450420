-------------------------------- MODULE Slot --------------------------------
(***************************************************************************)
(* One managed slot (slot.py) and the resident loop that drives it         *)
(* (resident.py), with the desired state and the spawn gate changing under *)
(* them, children that fork, exit or hang, and a resident that may die     *)
(* between any two steps.                                                  *)
(*                                                                         *)
(* The resident is one thread: pc is the place it has reached in run(), in *)
(* _reconcile, in ManagedSlot.spawn or in ManagedSlot._finish.  A section  *)
(* of the code under the transition mutex is one step: every writer of the *)
(* ledger, of the gate and of the desired state holds that mutex.          *)
(*                                                                         *)
(* A Job Object is named by its attempt.  A child is put into its Job (and *)
(* into the resident's Anchor) before it runs, and the resident holds the  *)
(* only handle of the Job, which was created with KILL_ON_JOB_CLOSE.       *)
(*                                                                         *)
(* Time is left out: a deadline, a watchdog or a backoff delay is a flag   *)
(* that the clock raises at an arbitrary moment.  Lock timeouts, I/O       *)
(* errors and crashes draw on a bounded stock of faults.                   *)
(***************************************************************************)
EXTENDS Lifecycle

CONSTANTS
  MaxAttempts,   \* bound on the spawn attempts of the slot
  MaxRevision,   \* bound on the revisions Laravel publishes
  Generation,    \* the generations a group that covers the slot may have
  NoGeneration,  \* no group of the desired state covers the slot
  MaxFaults,     \* bound on lock timeouts, I/O errors, torn applies and crashes
  MaxCrashes,    \* group.restart.max_crashes (1 when restarts are disabled)
  Kind           \* "service" (reverb, artisan_service), "queue_once" or "scheduler"

ASSUME SlotAssumption ==
  /\ MaxAttempts \in Nat
  /\ MaxRevision \in Nat
  /\ MaxFaults \in Nat
  /\ MaxCrashes \in Nat \ {0}
  /\ NoGeneration \notin Generation
  /\ Kind \in {"service", "queue_once", "scheduler"}

VARIABLES
  \* durable authority, written under the transition mutex
  desired,    \* desired-state.json: enabled, revision, generation for this slot
  gate,       \* spawn-gate.json: state and revision
  ledger,     \* the child ledger of the slot
  \* the operating system
  handles,    \* Jobs whose handle the resident holds
  procs,      \* members of each Job: the spawned root, a process it forked
  doomed,     \* Jobs terminated or closed, whose members are being killed
  \* the resident thread
  pc,
  seen,       \* the desired state of this iteration
  shutting,   \* self.shutting_down
  failing,    \* inside _fail_closed
  \* the ManagedSlot object
  exists,     \* the slot is in resident.slots
  generation, \* self.group.generation
  proc,       \* self.process: none, an open handle, or a handle already closed
  job,        \* self.job_handle
  attempt,    \* self.attempt_id and self.job_name
  stopping,   \* self.stop_requested_at is set
  due,        \* self.stop_deadline has passed
  overrun,    \* the watchdog has elapsed for the running process
  err,        \* self.runtime_error or self.protocol_error
  fatal,
  crashes,    \* len(self.crashes)
  backoff,    \* self.clock() < self.next_spawn_at
  \* locals of spawn()
  used,       \* attempt ids drawn so far; the newest is the local attempt_id
  armed,      \* local armed
  quiet,      \* local quiescent of the except clause
  faults

authority == <<desired, gate>>
os        == <<handles, procs, doomed>>
thread    == <<pc, seen, shutting, failing>>
runtime   == <<proc, job, attempt, stopping, due, overrun, err>>
restart   == <<fatal, crashes, backoff>>
object    == <<exists, generation>>
local     == <<used, armed, quiet>>
vars      == <<authority, ledger, os, thread, object, runtime, restart, local, faults>>

Attempt  == 1 .. MaxAttempts
Revision == 0 .. MaxRevision
Target   == Generation \cup {NoGeneration}
Desired  == [enabled : BOOLEAN, revision : Revision, generation : Target]
Gate     == [state : {"enabled", "disabled", "recovery_required"}, revision : Revision]
Member   == {"root", "descendant"}

Location ==
  {"down", "top", "tick", "poll", "finish", "contain", "clean", "drain",
   "reconcile", "launch", "arm", "start", "confirm", "readers", "abort",
   "unwind", "fail", "await", "fence", "exit"}

FlagsOK ==
  /\ shutting \in BOOLEAN /\ failing \in BOOLEAN /\ exists \in BOOLEAN
  /\ stopping \in BOOLEAN /\ due \in BOOLEAN /\ overrun \in BOOLEAN
  /\ err \in BOOLEAN /\ fatal \in BOOLEAN /\ backoff \in BOOLEAN
  /\ armed \in BOOLEAN /\ quiet \in BOOLEAN

ValuesOK ==
  /\ desired \in Desired
  /\ gate \in Gate
  /\ ledger \in Ledger(Attempt, Revision)
  /\ handles \subseteq Attempt
  /\ procs \in [Attempt -> SUBSET Member]
  /\ doomed \subseteq Attempt
  /\ pc \in Location
  /\ seen \in Desired
  /\ generation \in Target
  /\ proc \in {"none", "open", "closed"}
  /\ job \in Attempt \cup {NoAttempt}
  /\ attempt \in Attempt \cup {NoAttempt}
  /\ crashes \in 0 .. MaxCrashes
  /\ used \in 0 .. MaxAttempts
  /\ faults \in 0 .. MaxFaults

(* Every field has a value its code can give it.                           *)
TypeOK == ValuesOK /\ FlagsOK

-----------------------------------------------------------------------------
(* State functions                                                         *)

active == proc # "none"

(* A Job with a member that nothing has begun to kill.                     *)
Live(a) == procs[a] # {} /\ a \notin doomed

(* Resident._slot_is_current: the DesiredValidator given to every slot.    *)
IsCurrent(g, revision) ==
  /\ desired.enabled
  /\ gate.state = "enabled"
  /\ desired.revision = revision
  /\ gate.revision = revision
  /\ desired.generation = g

(* job_active_processes of the exact Job: not the exit code of the root,   *)
(* which says nothing about the processes it left behind.                  *)
RootExited(a) == "root" \notin procs[a]
Quiescent(a)  == procs[a] = {}

(* Something the code survives by design goes wrong.                       *)
Fault == faults > 0 /\ faults' = faults - 1

GoTo(from, to) == pc = from /\ pc' = to

-----------------------------------------------------------------------------
(* Operations of the slot that occur inside several steps                  *)

(* Closing the last handle of a KILL_ON_JOB_CLOSE Job kills its members.   *)
CloseJobForgotten(j) == UNCHANGED <<handles, doomed>>

CloseJobWithoutKill(j) == handles' = handles \ {j} /\ UNCHANGED doomed

CloseJob(j) ==
  /\ handles' = handles \ {j}
  /\ doomed' = doomed \cup (handles \cap {j})

(* _terminate_exact_job: only the Job the ledger still names is killed.    *)
OwnsExactJob ==
  /\ job # NoAttempt
  /\ ledger.attempt = attempt
  /\ ledger.state # "clean"
  /\ job \in handles

TerminateExactJob(failed) ==
  \/ /\ OwnsExactJob
     /\ doomed' = doomed \cup {job}
     /\ err' = failed
     /\ UNCHANGED faults
  \/ ~OwnsExactJob /\ err' = TRUE /\ UNCHANGED <<doomed, faults>>
  \/ Fault /\ err' = TRUE /\ UNCHANGED doomed

(* request_stop: idempotent; a ledger write that fails, before or after    *)
(* the document was replaced, only raises the runtime error flag, and the  *)
(* stop itself goes on.                                                    *)
RequestStop ==
  IF ~active \/ stopping
  THEN UNCHANGED <<stopping, due, err, ledger, faults>>
  ELSE /\ stopping' = TRUE
       /\ due' = FALSE
       /\ \/ /\ ledger.state \in {"stopping", "clean"}
             /\ UNCHANGED <<ledger, err, faults>>
          \/ /\ MayMarkStopping(ledger, attempt)
             /\ ledger' = MarkStopping(ledger)
             /\ \/ UNCHANGED <<err, faults>>
                \/ Fault /\ err' = TRUE
          \/ /\ ledger.state # "stopping" /\ ledger.state # "clean"
             /\ ~MayMarkStopping(ledger, attempt)
             /\ err' = TRUE
             /\ UNCHANGED <<ledger, faults>>
          \/ Fault /\ err' = TRUE /\ UNCHANGED ledger

RecordCrashOffByOne ==
  \E kept \in 0 .. MaxCrashes :
    /\ kept <= crashes
    /\ crashes' = kept + 1
    /\ IF kept + 1 > MaxCrashes
       THEN fatal' = TRUE /\ UNCHANGED backoff
       ELSE backoff' = TRUE /\ UNCHANGED fatal

(* _record_crash: crashes that fell out of the window are forgotten, the   *)
(* new one is added, and an exhausted budget is fatal.                     *)
RecordCrash ==
  \E kept \in 0 .. MaxCrashes - 1 :
    /\ kept <= crashes
    /\ crashes' = kept + 1
    /\ IF kept + 1 = MaxCrashes
       THEN fatal' = TRUE /\ UNCHANGED backoff
       ELSE backoff' = TRUE /\ UNCHANGED fatal

(* What the resident makes of a spawn that raised: a crash to count if the *)
(* ledger is clean, the end of its own life otherwise.                     *)
SpawnFailed ==
  IF RequiresRecovery(ledger')
  THEN pc' = "fail" /\ UNCHANGED restart
  ELSE pc' = "top" /\ RecordCrash

(* replace_group: a new generation forgives the crashes of the old one.    *)
ReplaceGroup ==
  /\ generation' = seen.generation
  /\ stopping' = FALSE
  /\ due' = FALSE
  /\ fatal' = FALSE
  /\ crashes' = 0
  /\ backoff' = FALSE

(* _clear_runtime_handles, at the end of a finished process.               *)
ClearRuntime ==
  /\ attempt' = NoAttempt
  /\ stopping' = FALSE
  /\ due' = FALSE
  /\ overrun' = FALSE
  /\ err' = FALSE
  /\ UNCHANGED <<proc, job>>

(* The process that held them is gone: its handles close.                  *)
CloseAllHandles ==
  /\ handles' = {}
  /\ doomed' = doomed \cup handles
  /\ UNCHANGED procs

ForgetMemory ==
  /\ pc' = "down"
  /\ shutting' = FALSE /\ failing' = FALSE
  /\ exists' = FALSE /\ generation' = NoGeneration
  /\ proc' = "none" /\ job' = NoAttempt /\ attempt' = NoAttempt
  /\ stopping' = FALSE /\ due' = FALSE /\ overrun' = FALSE /\ err' = FALSE
  /\ fatal' = FALSE /\ crashes' = 0 /\ backoff' = FALSE
  /\ armed' = FALSE /\ quiet' = FALSE
  /\ UNCHANGED <<seen, used>>

-----------------------------------------------------------------------------
(* The resident loop: Resident.run, _tick_slots, _reconcile                *)

(* A resident activates only while the gate is open at the published       *)
(* revision; it starts with no slots, whatever the child ledger says.      *)
Activate ==
  /\ GoTo("down", "top")
  /\ gate.state = "enabled" /\ desired.enabled
  /\ gate.revision = desired.revision
  /\ seen' = desired
  /\ UNCHANGED <<authority, ledger, os, shutting, failing, object, runtime,
                 restart, local, faults>>

Diverged ==
  gate.state = "enabled" /\ desired.enabled /\ gate.revision # desired.revision

MustStopWhenDisabled == ~desired.enabled

MustStop == gate.state # "enabled" \/ ~desired.enabled

Snapshot ==
  /\ GoTo("top", "tick")
  /\ ~Diverged
  /\ ~MustStop \/ shutting
  /\ seen' = desired
  /\ UNCHANGED <<authority, ledger, os, shutting, failing, object, runtime,
                 restart, local, faults>>

(* _begin_shutdown asks every active slot to stop, also when the gate is   *)
(* open and a request names this incarnation (control writes it, so it may *)
(* lie there in any iteration).  An event or a resident ledger that cannot *)
(* be written ends the loop before the slots are asked.                    *)
BeginShutdown ==
  /\ pc = "top"
  /\ ~Diverged /\ ~shutting
  /\ \E requested \in BOOLEAN : MustStop \/ requested
  /\ seen' = desired
  /\ shutting' = TRUE
  /\ \/ pc' = "tick" /\ RequestStop
     \/ pc' = "fail" /\ Fault /\ UNCHANGED <<stopping, due, err, ledger>>
  /\ UNCHANGED <<authority, os, failing, object, proc, job, attempt, overrun,
                 restart, local>>

(* RecoveryRequired, a busy mutex or an unreadable file leaves the loop.   *)
SnapshotFails ==
  /\ GoTo("top", "fail")
  /\ \/ Diverged /\ UNCHANGED faults
     \/ Fault
  /\ UNCHANGED <<authority, ledger, os, seen, shutting, failing, object,
                 runtime, restart, local>>

Continue == IF shutting THEN "drain" ELSE "reconcile"

TickIdle ==
  /\ pc = "tick" /\ ~active
  /\ pc' = Continue
  /\ UNCHANGED <<authority, ledger, os, seen, shutting, failing, object,
                 runtime, restart, local, faults>>

(* tick: the watchdog and a passed stop deadline terminate the exact Job.  *)
(* The event of the watchdog is written first, and may fail the loop.      *)
TerminateOnOverrun == overrun

MustTerminate == overrun \/ (due /\ "root" \in procs[attempt])

Tick ==
  /\ pc = "tick"
  /\ active
  /\ \/ /\ pc' = "poll"
        /\ IF MustTerminate
           THEN TerminateExactJob(err \/ overrun)
           ELSE UNCHANGED <<doomed, err, faults>>
     \/ /\ pc' = "fail"
        /\ overrun /\ Fault
        /\ err' = TRUE
        /\ UNCHANGED doomed
  /\ UNCHANGED <<authority, ledger, handles, procs, seen, shutting, failing,
                 object, proc, job, attempt, stopping, due, overrun, restart,
                 local>>

(* A poll of the spawned root; on a closed handle Windows refuses it.      *)
Poll ==
  /\ pc = "poll"
  /\ pc' = IF proc = "closed" THEN "fail"
           ELSE IF "root" \in procs[attempt] THEN Continue ELSE "finish"
  /\ UNCHANGED <<authority, ledger, os, seen, shutting, failing, object,
                 runtime, restart, local, faults>>

(* While shutting down: ask again, or drop the idle slot and leave.        *)
Drain ==
  /\ pc = "drain"
  /\ IF active
     THEN /\ pc' = "top"
          /\ RequestStop
          /\ UNCHANGED object
     ELSE /\ pc' = "exit"
          /\ exists' = FALSE /\ generation' = NoGeneration
          /\ UNCHANGED <<stopping, due, err, ledger, faults>>
  /\ UNCHANGED <<authority, os, seen, shutting, failing, proc, job, attempt,
                 overrun, restart, local>>

Targeted == seen.generation # NoGeneration

(* _request_all_stops and the generation branch of _reconcile.             *)
ReconcileActive ==
  /\ pc = "reconcile" /\ active
  /\ pc' = "top"
  /\ IF seen.generation # generation
     THEN RequestStop
     ELSE UNCHANGED <<stopping, due, err, ledger, faults>>
  /\ UNCHANGED <<authority, os, seen, shutting, failing, object, proc, job,
                 attempt, overrun, restart, local>>

(* _remove_quiescent_undesired.                                            *)
ReconcileUndesired ==
  /\ GoTo("reconcile", "top")
  /\ ~active /\ ~Targeted
  /\ exists' = FALSE /\ generation' = NoGeneration
  /\ fatal' = FALSE /\ crashes' = 0 /\ backoff' = FALSE
  /\ UNCHANGED <<authority, ledger, os, seen, shutting, failing, runtime,
                 local, faults>>

(* A desired slot that is not running is created, given the new            *)
(* generation, or left as it is, and then considered for a launch.  A slot *)
(* created over an unresolved ledger is refused.                           *)
ReconcileTarget ==
  /\ pc = "reconcile" /\ ~active /\ Targeted
  /\ pc' = IF ~exists /\ RequiresRecovery(ledger) THEN "fail" ELSE "launch"
  /\ exists' = (exists \/ ~RequiresRecovery(ledger))
  /\ IF ~exists \/ seen.generation # generation
     THEN ReplaceGroup
     ELSE UNCHANGED <<generation, stopping, due, restart>>
  /\ UNCHANGED <<authority, ledger, os, seen, shutting, failing, proc, job,
                 attempt, overrun, err, local, faults>>

-----------------------------------------------------------------------------
(* ManagedSlot.spawn                                                       *)

MayLaunch == ~stopping /\ ~fatal /\ ~backoff /\ used < MaxAttempts

(* Nothing to launch, or a scheduler whose minute has not come.            *)
LaunchSkipped ==
  /\ GoTo("launch", "top")
  /\ ~MayLaunch \/ Kind = "scheduler"
  /\ UNCHANGED <<authority, ledger, os, seen, shutting, failing, object,
                 runtime, restart, local, faults>>

(* spawn draws an attempt id and creates the Job Object first.             *)
CreateJob ==
  /\ GoTo("launch", "arm")
  /\ MayLaunch
  /\ used' = used + 1
  /\ handles' = handles \cup {used'}
  /\ armed' = FALSE
  /\ err' = FALSE
  /\ UNCHANGED <<authority, ledger, procs, doomed, seen, shutting, failing,
                 object, proc, job, attempt, stopping, due, overrun, restart,
                 quiet, faults>>

CreateJobFails ==
  /\ GoTo("launch", "top")
  /\ MayLaunch /\ Fault
  /\ RecordCrash
  /\ UNCHANGED <<authority, ledger, os, seen, shutting, failing, object,
                 runtime, local>>

(* Under the transition mutex: arm the ledger if the slot is still wanted  *)
(* exactly as it was read; otherwise return, closing the unused Job.       *)
ArmLedger ==
  /\ pc = "arm"
  /\ IF IsCurrent(generation, seen.revision)
     THEN /\ MayArm(ledger)
          /\ ledger' = Arm(used, seen.revision)
          /\ armed' = TRUE
          /\ pc' = "start"
          /\ UNCHANGED <<handles, doomed>>
     ELSE /\ pc' = "top"
          /\ CloseJob(used)
          /\ UNCHANGED <<ledger, armed>>
  /\ UNCHANGED <<authority, procs, seen, shutting, failing, object,
                 runtime, restart, used, quiet, faults>>

(* The mutex is busy, the ledger refuses, or the write raises: before the  *)
(* document was replaced, or after (verification and backup come later).   *)
ArmLedgerFails ==
  /\ GoTo("arm", "abort")
  /\ \/ Fault /\ UNCHANGED ledger
     \/ /\ Fault
        /\ IsCurrent(generation, seen.revision) /\ MayArm(ledger)
        /\ ledger' = Arm(used, seen.revision)
     \/ /\ IsCurrent(generation, seen.revision) /\ ~MayArm(ledger)
        /\ UNCHANGED <<ledger, faults>>
  /\ UNCHANGED <<authority, os, seen, shutting, failing, object, runtime,
                 restart, local>>

(* spawn_process: the child is a member of its Job before it runs.         *)
StartProcess ==
  /\ GoTo("start", "confirm")
  /\ procs' = [procs EXCEPT ![used] = {"root"}]
  /\ UNCHANGED <<authority, ledger, handles, doomed, seen, shutting, failing,
                 object, runtime, restart, local, faults>>

(* It fails before CreateProcess, or after it: then the exact Job is       *)
(* terminated and the root may take longer to die than the wait allows.    *)
StartProcessFails ==
  /\ GoTo("start", "abort")
  /\ Fault
  /\ \/ UNCHANGED <<procs, doomed>>
     \/ /\ procs' = [procs EXCEPT ![used] = {"root"}]
        /\ doomed' = doomed \cup {used}
  /\ UNCHANGED <<authority, ledger, handles, seen, shutting, failing, object,
                 runtime, restart, local>>

(* The slot takes the process over; one that is stale already has a stop   *)
(* deadline of 0.1 seconds.                                                *)
TakeOverRunning(stale) ==
  /\ proc' = "open" /\ job' = used /\ attempt' = used
  /\ stopping' = FALSE
  /\ due' = FALSE /\ overrun' = FALSE

TakeOver(stale) ==
  /\ proc' = "open" /\ job' = used /\ attempt' = used
  /\ stopping' = stale
  /\ due' = FALSE /\ overrun' = FALSE

Confirmed(current) ==
  IF current THEN MarkActive(ledger, "child_active") ELSE MarkStopping(ledger)

MayConfirm(current) ==
  IF current THEN MayMarkActive(ledger, used) ELSE MayMarkStopping(ledger, used)

(* Under the transition mutex again: the spawn is confirmed if the desired *)
(* state has not moved; a child that is stale is marked stopping.          *)
ConfirmSpawn ==
  /\ GoTo("confirm", "readers")
  /\ LET current == IsCurrent(generation, seen.revision) IN
     /\ MayConfirm(current)
     /\ ledger' = Confirmed(current)
     /\ TakeOver(~current)
  /\ UNCHANGED <<authority, os, seen, shutting, failing, object, err, restart,
                 local, faults>>

(* The mutex is busy, or the write raises before or after the document was *)
(* replaced: the slot does not get to refer to the process.                *)
ConfirmSpawnFails ==
  /\ GoTo("confirm", "abort")
  /\ Fault
  /\ LET current == IsCurrent(generation, seen.revision) IN
     \/ UNCHANGED ledger
     \/ MayConfirm(current) /\ ledger' = Confirmed(current)
  /\ UNCHANGED <<authority, os, seen, shutting, failing, object, runtime,
                 restart, local>>

StartReaders ==
  /\ GoTo("readers", "top")
  /\ UNCHANGED <<authority, ledger, os, seen, shutting, failing, object,
                 runtime, restart, local, faults>>

(* No thread for a reader, or the event file cannot be written.            *)
StartReadersFails ==
  /\ GoTo("readers", "abort")
  /\ Fault
  /\ UNCHANGED <<authority, ledger, os, seen, shutting, failing, object,
                 runtime, restart, local>>

(* The except clause: close the process handle (the slot may already refer *)
(* to it), look whether the Job is empty, close the Job.  Its members die  *)
(* with its last handle.  A query that fails counts as not quiescent.      *)
Abort(q) ==
  /\ GoTo("abort", "unwind")
  /\ \/ q = Quiescent(used) /\ UNCHANGED faults
     \/ ~q /\ Fault
  /\ quiet' = q
  /\ CloseJob(used)
  /\ proc' = IF active THEN "closed" ELSE "none"
  /\ UNCHANGED <<authority, ledger, procs, seen, shutting, failing, object,
                 job, attempt, stopping, due, overrun, err, restart, used,
                 armed>>

(* ... then settle the ledger if this attempt armed it, and raise.         *)
Unwind ==
  /\ pc = "unwind"
  /\ \/ /\ armed /\ ledger.attempt = used
        /\ IF quiet
           THEN /\ MayMarkClean(ledger, used)
                /\ ledger' = MarkClean
           ELSE /\ MayMarkUncertain(ledger, used)
                /\ ledger' = MarkUncertain(ledger)
        /\ UNCHANGED faults
     \/ /\ ~armed \/ ledger.attempt # used
        /\ UNCHANGED <<ledger, faults>>
     \/ /\ armed /\ Fault
        /\ UNCHANGED ledger
  /\ SpawnFailed
  /\ armed' = FALSE
  /\ UNCHANGED <<authority, os, seen, shutting, failing, object, runtime,
                 used, quiet>>

-----------------------------------------------------------------------------
(* ManagedSlot._finish: the spawned root has exited                        *)

(* Members are left, or the query fails: terminate the exact Job.          *)
FinishTerminate ==
  /\ GoTo("finish", "contain")
  /\ \/ ~Quiescent(attempt) /\ TerminateExactJob(err)
     \/ Quiescent(attempt) /\ Fault /\ UNCHANGED <<doomed, err>>
  /\ UNCHANGED <<authority, ledger, handles, procs, seen, shutting, failing,
                 object, proc, job, attempt, stopping, due, overrun, restart,
                 local>>

(* The Job is empty: close the process and the Job.  A reader thread that  *)
(* does not end in time only raises the error flag.                        *)
FinishQuiescent ==
  /\ pc \in {"finish", "contain"}
  /\ Quiescent(attempt)
  /\ pc' = "clean"
  /\ CloseJob(job)
  /\ proc' = "none" /\ job' = NoAttempt
  /\ \/ UNCHANGED <<err, faults>>
     \/ Fault /\ err' = TRUE
  /\ UNCHANGED <<authority, ledger, procs, seen, shutting, failing, object,
                 attempt, stopping, due, overrun, restart, local>>

(* _mark_uncertain_if_current: an error here is swallowed.                 *)
MarkedUncertain ==
  IF MayMarkUncertain(ledger, attempt) THEN MarkUncertain(ledger) ELSE ledger

(* The Job does not become empty, or its accounting cannot be read.        *)
FinishUncertain ==
  /\ GoTo("contain", "fail")
  /\ \/ ~Quiescent(attempt) /\ ledger' = MarkedUncertain /\ UNCHANGED faults
     \/ Fault /\ ledger' \in {MarkedUncertain, ledger}
  /\ proc' = "none"
  /\ UNCHANGED <<authority, os, seen, shutting, failing, object, job, attempt,
                 stopping, due, overrun, err, restart, local>>

(* The Job is closed but its name does not disappear in time.              *)
FinishJobLingers ==
  /\ GoTo("clean", "fail")
  /\ Fault
  /\ ledger' \in {MarkedUncertain, ledger}
  /\ UNCHANGED <<authority, os, seen, shutting, failing, object, runtime,
                 restart, local>>

(* Under the transition mutex: this attempt still owns the ledger, which   *)
(* becomes clean; the completion is healthy, requested, or a crash.  The   *)
(* events that tell of it are written after that, and may fail the loop.   *)
FinishClean ==
  /\ pc = "clean"
  /\ MayMarkClean(ledger, attempt)
  /\ ledger' = MarkClean
  /\ \/ pc' = (IF failing THEN "fail" ELSE Continue) /\ UNCHANGED faults
     \/ pc' = "fail" /\ Fault
  /\ ClearRuntime
  /\ \/ /\ stopping \/ (Kind # "service" /\ ~err)
        /\ backoff' = TRUE
        /\ UNCHANGED <<fatal, crashes>>
     \/ ~stopping /\ RecordCrash
  /\ UNCHANGED <<authority, os, seen, shutting, failing, object, local>>

(* The mutex is busy, the ledger moved, or the write raises, before the    *)
(* document was replaced or after it.                                      *)
FinishCleanFails ==
  /\ GoTo("clean", "fail")
  /\ \/ Fault /\ UNCHANGED ledger
     \/ Fault /\ MayMarkClean(ledger, attempt) /\ ledger' = MarkClean
     \/ ~MayMarkClean(ledger, attempt) /\ UNCHANGED <<ledger, faults>>
  /\ UNCHANGED <<authority, os, seen, shutting, failing, object,
                 runtime, restart, local>>

-----------------------------------------------------------------------------
(* Resident._fail_closed and the end of run()                              *)

(* force_stop of the active slot; on a closed handle it raises at once.    *)
ForceStop ==
  /\ GoTo("fail", "await")
  /\ proc = "open" /\ ~failing
  /\ failing' = TRUE
  /\ TerminateExactJob(err \/ ~stopping)
  /\ UNCHANGED <<authority, ledger, handles, procs, seen, shutting, object,
                 proc, job, attempt, stopping, due, overrun, restart, local>>

NothingToStop ==
  /\ GoTo("fail", "fence")
  /\ proc # "open" \/ failing
  /\ UNCHANGED <<authority, ledger, os, seen, shutting, failing, object,
                 runtime, restart, local, faults>>

AwaitForcedForever ==
  /\ GoTo("await", "finish")
  /\ "root" \notin procs[attempt]
  /\ UNCHANGED <<authority, ledger, os, seen, shutting, failing, object, runtime,
                 restart, local, faults>>

(* wait(2.0): the root exits and the process is finished as usual, or it   *)
(* does not and the slot is left as it is.                                 *)
AwaitForced ==
  /\ pc = "await"
  /\ pc' = IF "root" \in procs[attempt] THEN "fence" ELSE "finish"
  /\ UNCHANGED <<authority, ledger, os, seen, shutting, failing, object,
                 runtime, restart, local, faults>>

(* The gate is fenced under the transition mutex, unless that fails too.   *)
FenceGate ==
  /\ GoTo("fence", "exit")
  /\ \/ /\ gate' = [state |-> "recovery_required", revision |-> desired.revision]
        /\ UNCHANGED faults
     \/ Fault /\ UNCHANGED gate
  /\ UNCHANGED <<desired, ledger, os, seen, shutting, failing, object, runtime,
                 restart, local>>

Exit ==
  /\ pc = "exit"
  /\ ForgetMemory
  /\ CloseAllHandles
  /\ UNCHANGED <<authority, ledger, faults>>

(* The resident process dies: killed with its Anchor, or by the system.    *)
ResidentDies ==
  /\ pc # "down"
  /\ Fault
  /\ ForgetMemory
  /\ CloseAllHandles
  /\ UNCHANGED <<authority, ledger>>

-----------------------------------------------------------------------------
(* Everything else that moves                                              *)

(* _is_recovery_safe_reduction, as far as this slot can tell: the group    *)
(* keeps its generation and its process count may drop below the slot.     *)
SafeReduction(revision, g) ==
  /\ desired.enabled
  /\ revision > desired.revision
  /\ g \in {desired.generation, NoGeneration}

(* control.apply_desired with an enabled payload: desired state, then the  *)
(* gate.  A control process that dies in between leaves the old gate.      *)
ApplyEnabled ==
  \E revision \in Revision, g \in Target :
    LET payload == [enabled |-> TRUE, revision |-> revision, generation |-> g] IN
    /\ revision >= desired.revision
    /\ revision = desired.revision => payload = desired
    /\ gate.state = "recovery_required" => payload = desired \/ SafeReduction(revision, g)
    /\ desired' = payload
    /\ \/ /\ gate' = IF gate.state = "recovery_required" THEN gate
                     ELSE [state |-> "enabled", revision |-> revision]
          /\ UNCHANGED faults
       \/ Fault /\ UNCHANGED gate
    /\ UNCHANGED <<ledger, os, thread, object, runtime, restart, local>>

(* ... with a disabled payload: the gate first, then the desired state.    *)
ApplyDisabled ==
  \E revision \in Revision, g \in Target :
    LET payload == [enabled |-> FALSE, revision |-> revision, generation |-> g] IN
    /\ revision >= desired.revision
    /\ revision = desired.revision => payload = desired
    /\ gate' = [state |-> "disabled", revision |-> revision]
    /\ \/ desired' = payload /\ UNCHANGED faults
       \/ Fault /\ UNCHANGED desired
    /\ UNCHANGED <<ledger, os, thread, object, runtime, restart, local>>

DisableGate ==
  /\ gate' = [gate EXCEPT !.state = "disabled"]
  /\ UNCHANGED <<desired, ledger, os, thread, object, runtime, restart, local,
                 faults>>

(* RuntimeRecovery: its commit, under the transition mutex and the guard   *)
(* of the resident mutex.  With the resident gone every Job name is free.  *)
Recover ==
  /\ pc = "down"
  /\ gate.state # "enabled"
  /\ handles = {}
  /\ ledger' = IF RequiresRecovery(ledger) THEN MarkClean ELSE ledger
  /\ gate' = [gate EXCEPT !.state = "disabled"]
  /\ UNCHANGED <<desired, os, thread, object, runtime, restart, local, faults>>

(* A child forks inside its Job; a member exits by itself.                 *)
Fork ==
  \E a \in Attempt :
    /\ "root" \in procs[a] /\ a \notin doomed
    /\ procs' = [procs EXCEPT ![a] = Member]
    /\ UNCHANGED <<authority, ledger, handles, doomed, thread, object, runtime,
                   restart, local, faults>>

MemberExits ==
  \E a \in Attempt, m \in Member :
    /\ m \in procs[a]
    /\ procs' = [procs EXCEPT ![a] = @ \ {m}]
    /\ UNCHANGED <<authority, ledger, handles, doomed, thread, object, runtime,
                   restart, local, faults>>

(* The system completes the termination of a Job.                          *)
Kill(a) ==
  /\ a \in doomed /\ procs[a] # {}
  /\ procs' = [procs EXCEPT ![a] = {}]
  /\ UNCHANGED <<authority, ledger, handles, doomed, thread, object, runtime,
                 restart, local, faults>>

DeadlinePasses ==
  /\ stopping /\ ~due
  /\ due' = TRUE
  /\ UNCHANGED <<authority, ledger, os, thread, object, proc, job, attempt,
                 stopping, overrun, err, restart, local, faults>>

WatchdogElapses ==
  /\ Kind # "service" /\ active /\ ~overrun
  /\ overrun' = TRUE
  /\ UNCHANGED <<authority, ledger, os, thread, object, proc, job, attempt,
                 stopping, due, err, restart, local, faults>>

BackoffElapses ==
  /\ backoff
  /\ backoff' = FALSE
  /\ UNCHANGED <<authority, ledger, os, thread, object, runtime, fatal, crashes,
                 local, faults>>

(* A reader thread meets a broken pipe or a malformed protocol line.       *)
ReaderError ==
  /\ active /\ ~err
  /\ Fault
  /\ err' = TRUE
  /\ UNCHANGED <<authority, ledger, os, thread, object, proc, job, attempt,
                 stopping, due, overrun, restart, local>>

-----------------------------------------------------------------------------

Init ==
  /\ desired = [enabled |-> FALSE, revision |-> 0, generation |-> NoGeneration]
  /\ gate = [state |-> "disabled", revision |-> 0]
  /\ ledger = CleanDocument
  /\ handles = {} /\ procs = [a \in Attempt |-> {}] /\ doomed = {}
  /\ pc = "down" /\ seen = desired /\ shutting = FALSE /\ failing = FALSE
  /\ exists = FALSE /\ generation = NoGeneration
  /\ proc = "none" /\ job = NoAttempt /\ attempt = NoAttempt
  /\ stopping = FALSE /\ due = FALSE /\ overrun = FALSE /\ err = FALSE
  /\ fatal = FALSE /\ crashes = 0 /\ backoff = FALSE
  /\ used = 0 /\ armed = FALSE /\ quiet = FALSE
  /\ faults = MaxFaults

Loop ==
  \/ Snapshot \/ BeginShutdown \/ SnapshotFails
  \/ TickIdle \/ Tick \/ Poll \/ Drain
  \/ ReconcileActive \/ ReconcileUndesired \/ ReconcileTarget

Spawn ==
  \/ LaunchSkipped \/ CreateJob \/ CreateJobFails
  \/ ArmLedger \/ ArmLedgerFails
  \/ StartProcess \/ StartProcessFails
  \/ ConfirmSpawn \/ ConfirmSpawnFails
  \/ StartReaders \/ StartReadersFails
  \/ (\E q \in BOOLEAN : Abort(q))
  \/ Unwind

Finish ==
  \/ FinishTerminate \/ FinishQuiescent \/ FinishUncertain
  \/ FinishJobLingers \/ FinishClean \/ FinishCleanFails

FailClosed == ForceStop \/ NothingToStop \/ AwaitForced \/ FenceGate \/ Exit

Resident == Loop \/ Spawn \/ Finish \/ FailClosed

Clock == DeadlinePasses \/ WatchdogElapses \/ BackoffElapses

Control == ApplyEnabled \/ ApplyDisabled \/ DisableGate \/ Recover

System == Fork \/ MemberExits \/ (\E a \in Attempt : Kill(a)) \/ ReaderError

Next ==
  \/ Resident \/ Activate \/ ResidentDies
  \/ Clock \/ Control \/ System

Spec == Init /\ [][Next]_vars

(* The resident keeps running, time passes, and the system completes a     *)
(* termination it has accepted.  Nobody has to publish or to recover.      *)
Fairness ==
  /\ WF_vars(Resident)
  /\ WF_vars(DeadlinePasses)
  /\ WF_vars(BackoffElapses)
  /\ \A a \in Attempt : WF_vars(Kill(a))

FairSpec == Spec /\ Fairness

-----------------------------------------------------------------------------
(* Safety                                                                  *)

(* Write-ahead ownership: a process of the slot that nothing has begun to  *)
(* kill is named by the child ledger, so at most one Job of the slot is    *)
(* live and recovery, which reads nothing but the ledger, finds it after a *)
(* crash at any point of spawn or _finish (slot.py:132-205, 363-408).      *)
WriteAhead ==
  \A a \in Attempt :
    Live(a) => RequiresRecovery(ledger) /\ ledger.attempt = a

(* A live process is in a Job whose handle the resident still holds: it    *)
(* cannot outlive the resident, whichever way the resident ends            *)
(* (slot.py:126, 186-208, 388-396; KILL_ON_JOB_CLOSE).                     *)
Contained == \A a \in Attempt : Live(a) => a \in handles

(* Between two iterations of the loop the resident holds the Job of the    *)
(* running process and no other: no path through spawn or _finish leaks a  *)
(* handle, or closes the one that contains a running child                 *)
(* (slot.py:139, 192, 206-208, 395).                                       *)
NoHandleLeak ==
  pc = "top" => handles = (IF proc = "open" THEN {job} ELSE {})

(* A ledger is made clean by the resident only when the Job it names is    *)
(* empty, not when the spawned root has exited: no process that the root   *)
(* left behind is forgotten (slot.py:191-202, 371-406,                     *)
(* 02-process-lifecycle.md:107-113).                                       *)
CleanedOnlyWhenEmpty ==
  [][pc # "down" /\ RequiresRecovery(ledger) /\ ~RequiresRecovery(ledger') =>
       procs[ledger.attempt] = {}]_vars

(* No stop is lost.  The process of a spawn that a new desired state or a  *)
(* closing gate has overtaken is marked stopping and has a deadline        *)
(* (slot.py:160-183); a stop the slot follows is in the ledger unless the  *)
(* failure to write it there was noted (slot.py:210-224); and a resident   *)
(* that shuts down has asked its child, one that it started while the gate *)
(* was closing included (resident.py:107-111, 289-297).                    *)
StopsAreKept ==
  active =>
    /\ ledger.state = "stopping" /\ ledger.attempt = attempt => stopping
    /\ stopping /\ ledger.state = "child_active" => err
    /\ shutting /\ pc \in {"top", "tick", "poll", "drain"} => stopping

(* The slot implements the abstract ownership: the child ledger is taken,  *)
(* the process starts and dies under it, and it is given up only when the  *)
(* Job has no live member (slot.py:132-182, 363-408).                      *)
NamedOwner == IF RequiresRecovery(ledger) THEN ledger.attempt ELSE NoAttempt

LiveJobs == {a \in Attempt : Live(a)}

Owner == INSTANCE Ownership
  WITH Nobody <- NoAttempt, owner <- NamedOwner, alive <- LiveJobs

OwnsWhatLives == Owner!Spec

-----------------------------------------------------------------------------
(* Liveness                                                                *)

(* A stop that reached the ledger is carried out, though the child hangs,  *)
(* forks, or the resident dies in the middle of it (slot.py:210-224, 249). *)
StopCompletes ==
  \A a \in Attempt :
    ledger.state = "stopping" /\ ledger.attempt = a ~> procs[a] = {}

(* Once the gate stays closed no process of the slot stays alive, the ones *)
(* whose spawn raced with the closing included (slot.py:160-182,           *)
(* resident.py:104-106, 289-297).                                          *)
ClosedGateStopsAll ==
  <>[](gate.state # "enabled") => <>[](\A a \in Attempt : procs[a] = {})

(* The resident does not wedge: an iteration, the shutdown and the failure *)
(* path all come back to the loop or end the process (resident.py:86-129). *)
LoopReturns == pc \notin {"top", "down"} ~> pc \in {"top", "down"}

-----------------------------------------------------------------------------
(* What the documents say and the code does not do                         *)

(* 02-process-lifecycle.md:52-53: a process failure leads to backoff, and  *)
(* from there to another start.  A spawn failure that was counted and put  *)
(* into backoff therefore leaves the slot without a process.               *)
CountedFailureMayRestart ==
  [][pc = "unwind" /\ pc' = "top" => proc' = "none"]_vars
=============================================================================
