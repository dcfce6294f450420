----------------------------- MODULE Supervisor -----------------------------
(***************************************************************************)
(* The installation: short-lived control commands (control.py), the        *)
(* resident they bootstrap (resident.py) and recovery (recovery.py), over  *)
(* the durable authority they share.                                       *)
(*                                                                         *)
(* Commands run concurrently, one step at a time, and may die between any  *)
(* two steps; so may a resident.  A section of the code under the          *)
(* transition mutex is one step.  Files are read without it where the code *)
(* reads them without it.                                                  *)
(*                                                                         *)
(* An attempt id stands for the identity drawn by one ensure_running: the  *)
(* attempt, the incarnation, the ready nonce and the Anchor Job named      *)
(* after them.  A Job exists as long as somebody holds a handle of it, and *)
(* its members are killed when the last one closes.  The resident and its  *)
(* children are members of the Anchor.                                     *)
(*                                                                         *)
(* The workload is one child slot, as coarse as recovery sees it: a        *)
(* ledger, named after the resident whose child it is, and a process.      *)
(* Slot.tla has the detail.                                                *)
(***************************************************************************)
EXTENDS Lifecycle, FiniteSets

CONSTANTS
  Control,      \* the processes that run control commands
  Settings,     \* the settings a behaviour may have: what each process is asked
                \* to do, a subset of Command, and how many attempts and revisions
  MaxAttempts,  \* bound on the resident spawn attempts, in every setting
  MaxRevision,  \* bound on the revisions Laravel publishes, in every setting
  MaxFaults     \* bound on lock timeouts, I/O errors and crashes

Command == {"apply", "disable_gate", "ensure_running", "shutdown", "recover"}

ASSUME SupervisorAssumption ==
  /\ MaxAttempts \in Nat
  /\ MaxRevision \in Nat
  /\ MaxFaults \in Nat
  /\ Settings \subseteq [asked : [Control -> SUBSET Command],
                         attempts : 0 .. MaxAttempts, revisions : 0 .. MaxRevision]
  /\ Control \cap (0 .. MaxAttempts) = {}

VARIABLES
  setting,   \* one of Settings, for ever
  \* durable authority
  desired,   \* desired-state.json: enabled and revision
  gate,      \* spawn-gate.json
  ledger,    \* the resident ledger
  child,     \* the child ledger of the slot
  ready,     \* ready.json: the attempt it names, or NoAttempt
  request,   \* shutdown.json: the attempt asked to stop, or NoAttempt
  \* the operating system
  mutex,     \* who holds the resident mutex: nobody, an attempt, a command
  holders,   \* who holds a handle of each Anchor
  kids,      \* the residents with a child process
  doomed,    \* Anchors whose members are being killed
  \* residents, by attempt
  rpc,       \* the place in Resident.run
  rrev,      \* the revision of the desired state it read last
  \* control commands
  cpc,       \* the place in the command
  target,    \* the attempt it has drawn or read from the ledger
  crev,      \* the revision it read
  answer,    \* what its last question answered: mutex free, Job empty or gone
  snapshot,  \* both ledgers, as the recovery that holds the mutex read them
  used,      \* attempt ids drawn so far
  faults

authority == <<desired, gate, ledger, child, ready, request>>
os        == <<mutex, holders, kids, doomed>>
residents == <<rpc, rrev>>
memory    == <<target, crev, answer>>
locals    == <<memory, snapshot, used>>
vars      == <<setting, authority, os, residents, cpc, locals, faults>>

Attempt  == 1 .. MaxAttempts
Revision == 0 .. MaxRevision
Process  == Control \cup Attempt
Desired  == [enabled : BOOLEAN, revision : Revision]
Gate     == [state : {"enabled", "disabled", "recovery_required"}, revision : Revision]
Document == Ledger(Attempt, Revision)

Gone == {"none", "dead"}

ResidentPlace ==
  Gone \cup {"suspended", "starting", "attached", "activate", "loop", "begin", "reconcile",
             "launch", "drain", "fail", "settle", "fence", "leave", "exiting"}

CommandPlace ==
  {"idle", "probe", "probing", "read", "ambiguous", "arm", "spawn", "confirm",
   "ready", "unready", "contained", "unready_settle", "stale", "stale_absent", "stale_fence", "stale_clean",
   "unlink", "abort", "settle", "existing", "fence", "close",
   "request", "graceful", "hard", "hard_absent", "recover", "absence"}

TypeOK ==
  /\ setting \in Settings
  /\ desired \in Desired /\ gate \in Gate
  /\ ledger \in Document /\ child \in Document
  /\ ready \in Attempt \cup {NoAttempt}
  /\ request \in Attempt \cup {NoAttempt}
  /\ mutex \in Process \cup {NoAttempt}
  /\ holders \in [Attempt -> SUBSET Process]
  /\ kids \subseteq Attempt /\ doomed \subseteq Attempt
  /\ rpc \in [Attempt -> ResidentPlace]
  /\ rrev \in [Attempt -> Revision]
  /\ cpc \in [Control -> CommandPlace]
  /\ target \in [Control -> Attempt \cup {NoAttempt}]
  /\ crev \in [Control -> Revision]
  /\ answer \in [Control -> BOOLEAN]
  /\ snapshot \in [ledger : Document, child : Document]
  /\ used \in 0 .. MaxAttempts
  /\ faults \in 0 .. MaxFaults

-----------------------------------------------------------------------------
(* Jobs and files                                                          *)

Running(a) == rpc[a] \notin Gone
Members(a) == Running(a) \/ a \in kids
Live(a)    == Members(a) /\ a \notin doomed

(* job_exists: the name lives as long as a handle does.  The exact Job of  *)
(* a child is held by its resident alone.                                  *)
AnchorExists(a) == a # NoAttempt /\ holders[a] # {}
ChildJobExists  == RequiresRecovery(child) /\ Running(child.attempt)

Fault == faults > 0 /\ faults' = faults - 1

(* Terminating a Job kills the members it has now.                         *)
Doom(as) == doomed' = doomed \cup {a \in as : Members(a)}

(* Process p closes its handle of Anchor a, and the last one kills.        *)
CloseAnchor(p, a) ==
  /\ holders' = [holders EXCEPT ![a] = @ \ {p}]
  /\ Doom({b \in {a} : holders[a] = {p}})

(* Resident._slot_is_current and the checks of the bootstrap: the          *)
(* published state admits processes, at this revision.                     *)
Admits(revision) ==
  /\ desired.enabled /\ desired.revision = revision
  /\ gate = [state |-> "enabled", revision |-> revision]

(* store.mark_recovery_required.                                           *)
Fence(revision) == gate' = [state |-> "recovery_required", revision |-> revision]

FenceUnlessFault(revision) ==
  \/ Fence(revision) /\ UNCHANGED faults
  \/ Fault /\ UNCHANGED gate

Unless(condition) == (~condition /\ UNCHANGED faults) \/ Fault

-----------------------------------------------------------------------------
(* The resident                                                            *)

ResidentGoes(a, from, to) == rpc[a] = from /\ rpc' = [rpc EXCEPT ![a] = to]

(* The process of resident a ends: its mutex is abandoned, its handles     *)
(* close, and with the handle of its exact Job the child is killed.        *)
ProcessEnds(a) ==
  /\ rpc' = [rpc EXCEPT ![a] = "dead"]
  /\ rrev' = [rrev EXCEPT ![a] = 0]
  /\ mutex' = IF mutex = a THEN NoAttempt ELSE mutex
  /\ holders' = [holders EXCEPT ![a] = @ \ {a}]
  /\ doomed' = (doomed \ {a}) \cup ({a} \cap kids)
  /\ UNCHANGED <<authority, kids, cpc, locals>>

(* _attach_anchor: the Anchor must still exist.                            *)
AttachAnnounced(a) ==
  /\ AnchorExists(a)
  /\ ResidentGoes(a, "starting", "attached")
  /\ holders' = [holders EXCEPT ![a] = @ \cup {a}]
  /\ ready' = a
  /\ UNCHANGED <<desired, gate, ledger, child, request, mutex, kids, doomed, rrev,
                 cpc, locals, faults>>

Attach(a) ==
  /\ AnchorExists(a)
  /\ ResidentGoes(a, "starting", "attached")
  /\ holders' = [holders EXCEPT ![a] = @ \cup {a}]
  /\ UNCHANGED <<authority, mutex, kids, doomed, rrev, cpc, locals, faults>>

AttachFails(a) ==
  /\ rpc[a] = "starting" /\ ~AnchorExists(a)
  /\ ProcessEnds(a)
  /\ UNCHANGED faults

(* The singleton mutex is tried once, without waiting; the desired state   *)
(* is read before the transition mutex is taken.                           *)
AcquireSingletonBlindly(a) ==
  /\ ResidentGoes(a, "attached", "activate")
  /\ mutex' = a
  /\ rrev' = [rrev EXCEPT ![a] = desired.revision]
  /\ UNCHANGED <<authority, holders, kids, doomed, cpc, locals, faults>>

AcquireSingleton(a) ==
  /\ ResidentGoes(a, "attached", "activate")
  /\ mutex = NoAttempt /\ mutex' = a
  /\ rrev' = [rrev EXCEPT ![a] = desired.revision]
  /\ UNCHANGED <<authority, holders, kids, doomed, cpc, locals, faults>>

SingletonBusy(a) ==
  /\ rpc[a] = "attached" /\ mutex # NoAttempt
  /\ ProcessEnds(a)
  /\ UNCHANGED faults

(* _activate, under the transition mutex: the gate is open at the revision *)
(* of the desired state as it was read before.  No gate is ever opened at  *)
(* the revision of a disabled state, which the code checks in that copy.   *)
GateOpenAt(revision) == gate = [state |-> "enabled", revision |-> revision]

Activate(a) ==
  /\ ResidentGoes(a, "activate", "loop")
  /\ GateOpenAt(rrev[a])
  /\ ledger.state = "spawn_armed" /\ ledger.attempt = a
  /\ ledger' = MarkActive(ledger, "resident_active")
  /\ ready' = a
  /\ UNCHANGED <<desired, gate, child, request, os, rrev, cpc, locals, faults>>

ActivateFails(a) ==
  /\ ResidentGoes(a, "activate", "fail")
  /\ Unless(GateOpenAt(rrev[a]) /\ ledger.state = "spawn_armed" /\ ledger.attempt = a)
  /\ UNCHANGED <<authority, os, rrev, cpc, locals>>

Diverged == gate.state = "enabled" /\ desired.enabled /\ gate.revision # desired.revision

(* The stop conditions of the loop; shutdown.json is read by its identity. *)
MustStopOnRequest(a) == ~desired.enabled \/ request = a

MustStop(a) == gate.state # "enabled" \/ ~desired.enabled \/ request = a

Snapshot(a) ==
  /\ ~Diverged
  /\ ResidentGoes(a, "loop", IF MustStop(a) THEN "begin" ELSE "reconcile")
  /\ rrev' = [rrev EXCEPT ![a] = desired.revision]
  /\ UNCHANGED <<authority, os, cpc, locals, faults>>

(* The drain of a shutdown takes the snapshot again in every round.        *)
SnapshotFails(a) ==
  /\ \E place \in {"loop", "drain"} : ResidentGoes(a, place, "fail")
  /\ Unless(~Diverged)
  /\ UNCHANGED <<authority, os, rrev, cpc, locals>>

(* _tick_slots and _reconcile with one slot: an exited child is finished,  *)
(* or a child is started if the slot is current; ready.json is rewritten   *)
(* in the same iteration when the heartbeat is due.                        *)
Owned(a) == RequiresRecovery(child) /\ child.attempt = a

FinishChild(a) ==
  /\ ResidentGoes(a, "reconcile", "loop")
  /\ Owned(a)
  /\ child' = IF a \in kids THEN child ELSE MarkClean
  /\ ready' \in {ready, a}
  /\ UNCHANGED <<desired, gate, ledger, request, os, rrev, cpc, locals, faults>>

ArmChild(a) ==
  /\ ResidentGoes(a, "reconcile", "launch")
  /\ MayArm(child) /\ Admits(rrev[a])
  /\ child' = Arm(a, rrev[a])
  /\ UNCHANGED <<desired, gate, ledger, ready, request, os, rrev, cpc, locals, faults>>

StartChild(a) ==
  /\ ResidentGoes(a, "launch", "loop")
  /\ a \notin doomed
  /\ child' = IF Admits(rrev[a]) THEN MarkActive(child, "child_active")
              ELSE MarkStopping(child)
  /\ kids' = kids \cup {a}
  /\ ready' \in {ready, a}
  /\ UNCHANGED <<desired, gate, ledger, request, mutex, holders, doomed, rrev,
                 cpc, locals, faults>>

(* The spawn fails and nothing lives: a crash to count, or uncertain.      *)
StartChildFails(a) ==
  /\ Fault
  /\ \/ ResidentGoes(a, "launch", "loop") /\ child' = MarkClean
     \/ ResidentGoes(a, "launch", "fail") /\ child' = MarkUncertain(child)
  /\ UNCHANGED <<desired, gate, ledger, ready, request, os, rrev, cpc, locals>>

NoChild(a) ==
  /\ ResidentGoes(a, "reconcile", "loop")
  /\ MayArm(child)
  /\ ready' \in {ready, a}
  /\ UNCHANGED <<desired, gate, ledger, child, request, os, rrev, cpc, locals, faults>>

(* A slot over the unresolved ledger of an earlier resident is refused.    *)
SlotUnresolved(a) ==
  /\ ResidentGoes(a, "reconcile", "fail")
  /\ RequiresRecovery(child) /\ child.attempt # a
  /\ UNCHANGED <<authority, os, rrev, cpc, locals, faults>>

(* _begin_shutdown: the resident ledger and the child are marked stopping. *)
BeginShutdown(a) ==
  /\ ResidentGoes(a, "begin", "drain")
  /\ ledger' = IF ledger.state = "resident_active" /\ MayMarkStopping(ledger, a)
               THEN MarkStopping(ledger) ELSE ledger
  /\ child' = IF MayMarkStopping(child, a) THEN MarkStopping(child) ELSE child
  /\ UNCHANGED <<desired, gate, ready, request, os, rrev, cpc, locals, faults>>

BeginShutdownFails(a) ==
  /\ ResidentGoes(a, "begin", "fail")
  /\ Unless(ledger.state = "resident_active" => ledger.attempt = a)
  /\ UNCHANGED <<authority, os, rrev, cpc, locals>>

(* While draining, the exited child is settled, or becomes uncertain.      *)
DrainChildEarly(a) ==
  /\ Owned(a) /\ rpc[a] = "drain"
  /\ child' = MarkClean
  /\ ready' \in {ready, a}
  /\ UNCHANGED <<desired, gate, ledger, request, os, residents, cpc, locals, faults>>

DrainChild(a) ==
  /\ Owned(a)
  /\ \/ /\ a \notin kids /\ child' = MarkClean
        /\ UNCHANGED <<rpc, faults>>
     \/ /\ Fault
        /\ child' = IF MayMarkUncertain(child, a) THEN MarkUncertain(child) ELSE child
        /\ ResidentGoes(a, "drain", "fail")
  /\ rpc[a] = "drain"
  /\ ready' \in {ready, a}
  /\ UNCHANGED <<desired, gate, ledger, request, os, rrev, cpc, locals>>

(* _finish_clean_shutdown: the slots are gone by now, so that the question *)
(* whether one of them is unresolved is asked of none.                     *)
FinishCleanShutdown(a) ==
  /\ rpc[a] = "drain" /\ ~Owned(a)
  /\ IF ledger.attempt = a /\ ledger.state = "stopping"
     THEN ResidentGoes(a, "drain", "leave") /\ ready' = NoAttempt
     ELSE ResidentGoes(a, "drain", "fail") /\ UNCHANGED ready
  /\ UNCHANGED <<desired, gate, ledger, child, request, os, rrev, cpc, locals, faults>>

(* _fail_closed: force_stop terminates the child, unless it fails, and     *)
(* settles the child ledger as well as it can ...                          *)
ForceStop(a) ==
  /\ ResidentGoes(a, "fail", "settle")
  /\ kids' \in {kids, kids \ {a}}
  /\ UNCHANGED <<authority, mutex, holders, doomed, rrev, cpc, locals, faults>>

SettleChild(a) ==
  /\ ResidentGoes(a, "settle", "fence")
  /\ child' \in {child} \cup (IF ~Owned(a) THEN {}
                              ELSE IF a \notin kids THEN {MarkClean}
                              ELSE IF MayMarkUncertain(child, a) THEN {MarkUncertain(child)}
                              ELSE {})
  /\ UNCHANGED <<desired, gate, ledger, ready, request, os, rrev, cpc, locals, faults>>

(* ... and, under the transition mutex, the fence.                         *)
FailClosed(a) ==
  /\ ResidentGoes(a, "fence", "leave")
  /\ \/ /\ ledger' = IF MayMarkUncertain(ledger, a) THEN MarkUncertain(ledger) ELSE ledger
        /\ Fence(desired.revision)
        /\ UNCHANGED faults
     \/ Fault /\ UNCHANGED <<ledger, gate>>
  /\ UNCHANGED <<desired, child, ready, request, os, rrev, cpc, locals>>

(* The finally clause: ready.json, the mutex, the Anchor handle; then the  *)
(* process ends.                                                           *)
Leave(a) ==
  /\ ResidentGoes(a, "leave", "exiting")
  /\ ready' = NoAttempt
  /\ mutex' = IF mutex = a THEN NoAttempt ELSE mutex
  /\ UNCHANGED <<desired, gate, ledger, child, request, holders, kids, doomed,
                 rrev, cpc, locals, faults>>

Exit(a) ==
  /\ rpc[a] = "exiting"
  /\ ProcessEnds(a)
  /\ UNCHANGED faults

ResidentDies(a) ==
  /\ Running(a)
  /\ ProcessEnds(a)
  /\ Fault

-----------------------------------------------------------------------------
(* Control commands.  CommandGoes moves command c; Returns ends it, and    *)
(* what it has read goes with it.                                          *)

CommandGoes(c, from, to) == cpc[c] = from /\ cpc' = [cpc EXCEPT ![c] = to]

Forget(c) ==
  /\ target' = [target EXCEPT ![c] = NoAttempt]
  /\ crev' = [crev EXCEPT ![c] = 0]
  /\ answer' = [answer EXCEPT ![c] = FALSE]

Returns(c, from) == CommandGoes(c, from, "idle") /\ Forget(c)

NoSnapshot == [ledger |-> CleanDocument, child |-> CleanDocument]

(* control.apply_desired with an enabled payload: under a recovery fence   *)
(* only the same payload or a reduction, and the fence stays; otherwise    *)
(* desired state, gate, and the shutdown request is withdrawn.             *)
ApplyEnabled(c) ==
  \E revision \in 0 .. setting.revisions :
    LET payload == [enabled |-> TRUE, revision |-> revision] IN
    /\ "apply" \in setting.asked[c] /\ cpc[c] = "idle"
    /\ revision >= desired.revision
    /\ revision = desired.revision => payload = desired
    /\ gate.state = "recovery_required" => desired.enabled
    /\ desired' = payload
    /\ IF gate.state = "recovery_required"
       THEN UNCHANGED <<gate, request, faults>>
       ELSE \/ /\ gate' = [state |-> "enabled", revision |-> revision]
               /\ request' = NoAttempt
               /\ UNCHANGED faults
            \/ Fault /\ UNCHANGED <<gate, request>>
            \/ /\ Fault
               /\ gate' = [state |-> "enabled", revision |-> revision]
               /\ UNCHANGED request
    /\ UNCHANGED <<ledger, child, ready, os, residents, cpc, locals>>

(* ... with a disabled payload: the gate first, then the desired state.    *)
ApplyDisabled(c) ==
  \E revision \in 0 .. setting.revisions :
    LET payload == [enabled |-> FALSE, revision |-> revision] IN
    /\ "apply" \in setting.asked[c] /\ cpc[c] = "idle"
    /\ revision >= desired.revision
    /\ revision = desired.revision => payload = desired
    /\ gate' = [state |-> "disabled", revision |-> revision]
    /\ \/ desired' = payload /\ UNCHANGED faults
       \/ Fault /\ UNCHANGED desired
    /\ UNCHANGED <<ledger, child, ready, request, os, residents, cpc, locals>>

DisableGate(c) ==
  /\ "disable_gate" \in setting.asked[c] /\ cpc[c] = "idle"
  /\ gate' = [gate EXCEPT !.state = "disabled"]
  /\ UNCHANGED <<desired, ledger, child, ready, request, os, residents, cpc,
                 locals, faults>>

-----------------------------------------------------------------------------
(* ensure_running                                                          *)

EnsureRunning(c) ==
  /\ "ensure_running" \in setting.asked[c]
  /\ CommandGoes(c, "idle", "probe")
  /\ Admits(desired.revision)
  /\ crev' = [crev EXCEPT ![c] = desired.revision]
  /\ UNCHANGED <<authority, os, residents, target, answer, snapshot, used, faults>>

(* mutex_is_locked: a free mutex is taken, and released a moment later.    *)
Probe(c) ==
  /\ answer' = [answer EXCEPT ![c] = (mutex = NoAttempt)]
  /\ IF mutex = NoAttempt
     THEN CommandGoes(c, "probe", "probing") /\ mutex' = c
     ELSE CommandGoes(c, "probe", "read") /\ UNCHANGED mutex
  /\ UNCHANGED <<authority, holders, kids, doomed, residents, target, crev,
                 snapshot, used, faults>>

ProbeDone(c) ==
  /\ CommandGoes(c, "probing", "read")
  /\ mutex' = NoAttempt
  /\ UNCHANGED <<authority, holders, kids, doomed, residents, locals, faults>>

ReadLedger(c) ==
  /\ CommandGoes(c, "read", IF RequiresRecovery(ledger) THEN "existing"
                            ELSE IF answer[c] THEN "arm" ELSE "ambiguous")
  /\ answer' = [answer EXCEPT ![c] = FALSE]
  /\ UNCHANGED <<authority, os, residents, target, crev, snapshot, used, faults>>

LockAmbiguous(c) ==
  /\ Returns(c, "ambiguous")
  /\ FenceUnlessFault(crev[c])
  /\ UNCHANGED <<desired, ledger, child, ready, request, os, residents, snapshot, used>>

(* Under the transition mutex everything is asked again.  The Anchor comes *)
(* before the ledger that names it.                                        *)
ArmResident(c) ==
  /\ used < setting.attempts
  /\ Admits(desired.revision)
  /\ IF MayArm(ledger)
     THEN LET a == used + 1 IN
          /\ CommandGoes(c, "arm", "spawn")
          /\ used' = a
          /\ target' = [target EXCEPT ![c] = a]
          /\ crev' = [crev EXCEPT ![c] = desired.revision]
          /\ holders' = [holders EXCEPT ![a] = {c}]
          /\ ledger' = Arm(a, desired.revision)
     ELSE /\ CommandGoes(c, "arm", "existing")
          /\ UNCHANGED <<used, target, crev, holders, ledger>>
  /\ UNCHANGED <<desired, gate, child, ready, request, mutex, kids, doomed,
                 residents, answer, snapshot, faults>>

(* It is refused, or the write raises; the local "armed" stays false, so   *)
(* that a ledger that was replaced all the same stays armed.               *)
ArmResidentFails(c) ==
  /\ Returns(c, "arm")
  /\ \/ ~Admits(desired.revision) /\ UNCHANGED <<ledger, used, faults>>
     \/ used = setting.attempts /\ UNCHANGED <<ledger, used, faults>>
     \/ Fault /\ UNCHANGED <<ledger, used>>
     \/ /\ used < setting.attempts /\ MayArm(ledger) /\ Fault
        /\ used' = used + 1
        /\ ledger' = Arm(used', desired.revision)
  /\ UNCHANGED <<desired, gate, child, ready, request, os, residents, snapshot>>

(* The resident is put into its Anchor before it runs.  The call fails     *)
(* before the process is created, or terminates it, still suspended.       *)
SpawnResident(c) ==
  /\ CommandGoes(c, "spawn", "confirm")
  /\ rpc' = [rpc EXCEPT ![target[c]] = "starting"]
  /\ UNCHANGED <<authority, os, rrev, locals, faults>>

SpawnResidentFails(c) ==
  /\ CommandGoes(c, "spawn", "abort")
  /\ Fault
  /\ \/ UNCHANGED <<rpc, doomed>>
     \/ /\ rpc' = [rpc EXCEPT ![target[c]] = "suspended"]
        /\ doomed' = doomed \cup {target[c]}
  /\ UNCHANGED <<authority, mutex, holders, kids, rrev, locals>>

Mine(c) == ledger.attempt = target[c]

(* Under the transition mutex again: a bootstrap whose desired state has   *)
(* moved is contained, whatever its resident does by now.                  *)
Superseded(c) ==
  \/ ~desired.enabled \/ gate.state # "enabled"
  \/ gate.revision # desired.revision \/ desired.revision # crev[c]

ConfirmResident(c) ==
  /\ Mine(c)
  /\ CommandGoes(c, "confirm", IF Superseded(c) THEN "stale" ELSE "ready")
  /\ ledger' = IF Superseded(c) /\ ledger.state # "stopping"
               THEN MarkStopping(ledger) ELSE ledger
  /\ UNCHANGED <<desired, gate, child, ready, request, os, residents, locals, faults>>

ConfirmResidentFails(c) ==
  /\ CommandGoes(c, "confirm", "abort")
  /\ Unless(Mine(c))
  /\ UNCHANGED <<authority, os, residents, locals>>

(* The except clause: is the Anchor empty?  Then it is closed.             *)
AbortBootstrap(c) ==
  /\ CommandGoes(c, "abort", "settle")
  /\ \/ /\ answer' = [answer EXCEPT ![c] = ~Members(target[c])]
        /\ UNCHANGED faults
     \/ Fault /\ answer' = [answer EXCEPT ![c] = FALSE]
  /\ CloseAnchor(c, target[c])
  /\ UNCHANGED <<authority, mutex, kids, residents, target, crev, snapshot, used>>

(* ... and the ledger settled: clean if the Anchor was empty and is gone;  *)
(* uncertain and fenced if not.  An error in here is swallowed.            *)
SettleBootstrap(c) ==
  /\ Returns(c, "settle")
  /\ \/ /\ Mine(c) /\ answer[c] /\ ~AnchorExists(target[c])
        /\ ledger' = MarkClean
        /\ UNCHANGED <<gate, faults>>
     \/ /\ ~answer[c] \/ AnchorExists(target[c])
        /\ MayMarkUncertain(ledger, target[c])
        /\ ledger' = MarkUncertain(ledger)
        /\ FenceUnlessFault(crev[c])
     \/ /\ ~(Mine(c) /\ answer[c] /\ ~AnchorExists(target[c]))
        /\ ~MayMarkUncertain(ledger, target[c])
        /\ UNCHANGED <<ledger, gate, faults>>
     \/ Fault /\ UNCHANGED <<ledger, gate>>
  /\ UNCHANGED <<desired, child, ready, request, os, residents, snapshot, used>>

(* _wait_for_ready: ready.json names this attempt, or the ledger says that *)
(* there is nothing to wait for, or the time is over.                      *)
WaitReady(c) ==
  /\ ready = target[c]
  /\ CommandGoes(c, "ready", "close")
  /\ UNCHANGED <<authority, os, residents, locals, faults>>

NotReadyOnceSettled(c) ==
  /\ ledger.state \in {"clean", "uncertain"}
  /\ CommandGoes(c, "ready", "unready")
  /\ Doom({target[c]})
  /\ UNCHANGED <<authority, mutex, holders, kids, residents, locals, faults>>

NotReady(c) ==
  /\ CommandGoes(c, "ready", "unready")
  /\ Doom({target[c]})
  /\ UNCHANGED <<authority, mutex, holders, kids, residents, locals, faults>>

(* An error of the termination leaves the ledger and the gate as they are. *)
NotReadyFails(c) ==
  /\ Returns(c, "ready")
  /\ Fault
  /\ CloseAnchor(c, target[c])
  /\ UNCHANGED <<authority, mutex, kids, residents, snapshot, used>>

(* The Anchor was terminated; its handle is closed and its absence waited  *)
(* for, in vain if somebody else still holds one.                          *)
StillThere(c) == AnchorExists(target[c])

CloseUnready(c) ==
  /\ CommandGoes(c, "unready", "contained")
  /\ CloseAnchor(c, target[c])
  /\ UNCHANGED <<authority, mutex, kids, residents, locals, faults>>

AwaitContained(c) ==
  /\ CommandGoes(c, "contained", "unready_settle")
  /\ answer' = [answer EXCEPT ![c] = ~StillThere(c)]
  /\ UNCHANGED <<authority, os, residents, target, crev, snapshot, used, faults>>

(* mark_uncertain refuses a ledger that is uncertain already, and then the *)
(* fence is not reached.                                                   *)
SettleUnready(c) ==
  /\ Returns(c, "unready_settle")
  /\ \/ /\ ~Mine(c) \/ answer[c] \/ MayMarkUncertain(ledger, target[c])
        /\ ledger' = IF ~Mine(c) THEN ledger
                     ELSE IF answer[c] THEN MarkClean ELSE MarkUncertain(ledger)
        /\ FenceUnlessFault(crev[c])
     \/ /\ Mine(c) /\ ~answer[c] /\ ~MayMarkUncertain(ledger, target[c])
        /\ UNCHANGED <<ledger, gate, faults>>
     \/ Fault /\ UNCHANGED <<ledger, gate>>
  /\ UNCHANGED <<desired, child, ready, request, os, residents, snapshot, used>>

CloseStarted(c) ==
  /\ Returns(c, "close")
  /\ CloseAnchor(c, target[c])
  /\ UNCHANGED <<authority, mutex, kids, residents, snapshot, used, faults>>

(* _contain_stale_bootstrap.  If it fails it fences at the revision it has *)
(* read, or at 0 if it did not come to that.                               *)
ContainStale(c) ==
  /\ CommandGoes(c, "stale", "stale_absent")
  /\ Mine(c)
  /\ ledger' = IF ledger.state = "stopping" THEN ledger ELSE MarkStopping(ledger)
  /\ crev' = [crev EXCEPT ![c] = desired.revision]
  /\ doomed' = doomed \cup ({target[c]} \cap {a \in Attempt : Members(a)})
  /\ holders' = [holders EXCEPT ![target[c]] = @ \ {c}]
  /\ UNCHANGED <<desired, gate, child, ready, request, mutex, kids, residents,
                 target, answer, snapshot, used, faults>>

ContainStaleFails(c) ==
  /\ CommandGoes(c, "stale", "stale_fence")
  /\ \E revision \in {0, desired.revision} :
       /\ crev' = [crev EXCEPT ![c] = revision]
       /\ \/ ~Mine(c) /\ revision = 0 /\ UNCHANGED <<ledger, faults>>
          \/ Fault /\ UNCHANGED ledger
          \/ /\ Mine(c) /\ ledger.state # "stopping" /\ revision = desired.revision
             /\ Fault /\ ledger' = MarkStopping(ledger)
  /\ CloseAnchor(c, target[c])
  /\ UNCHANGED <<desired, gate, child, ready, request, mutex, kids, residents,
                 target, answer, snapshot, used>>

StaleAbsent(c) ==
  /\ CommandGoes(c, "stale_absent",
                 IF StillThere(c) THEN "stale_fence" ELSE "stale_clean")
  /\ UNCHANGED <<authority, os, residents, locals, faults>>

SettleStale(c) ==
  /\ CommandGoes(c, "stale_clean", "unlink")
  /\ ledger' = IF Mine(c) THEN MarkClean ELSE ledger
  /\ UNCHANGED <<desired, gate, child, ready, request, os, residents, locals, faults>>

(* ready.json is removed outside the transition mutex.                     *)
UnlinkReady(c) ==
  /\ Returns(c, "unlink")
  /\ ready' = NoAttempt
  /\ UNCHANGED <<desired, gate, ledger, child, request, os, residents, snapshot, used, faults>>

(* _wait_for_existing_resident.                                            *)
AlreadyRunning(c) ==
  /\ Returns(c, "existing")
  /\ ledger.state = "resident_active"
  /\ mutex # NoAttempt
  /\ AnchorExists(ledger.attempt) /\ Members(ledger.attempt)
  /\ ready = ledger.attempt
  /\ UNCHANGED <<authority, os, residents, snapshot, used, faults>>

EndedWithoutResident(c) ==
  /\ Returns(c, "existing")
  /\ ~RequiresRecovery(ledger)
  /\ UNCHANGED <<authority, os, residents, snapshot, used, faults>>

(* A wait without the deadline: only an uncertain ledger ends it.         *)
ExistingWithoutDeadline(c) ==
  \/ /\ CommandGoes(c, "existing", "fence")
     /\ ledger.state = "uncertain"
     /\ target' = [target EXCEPT ![c] = ledger.attempt]
     /\ crev' = [crev EXCEPT ![c] = ledger.revision]
     /\ UNCHANGED <<authority, os, residents, answer, snapshot, used, faults>>
  \/ cpc[c] = "existing" /\ RequiresRecovery(ledger) /\ UNCHANGED vars

(* The ledger is uncertain, or nothing was proved in time.                 *)
ExistingAmbiguous(c) ==
  /\ CommandGoes(c, "existing", "fence")
  /\ RequiresRecovery(ledger)
  /\ target' = [target EXCEPT ![c] = ledger.attempt]
  /\ crev' = [crev EXCEPT ![c] = ledger.revision]
  /\ UNCHANGED <<authority, os, residents, answer, snapshot, used, faults>>

(* _mark_recovery_required, unless another attempt owns the ledger by now. *)
FenceAttempt(c) ==
  /\ cpc[c] \in {"fence", "stale_fence"}
  /\ Returns(c, cpc[c])
  /\ \/ ledger.attempt \in {target[c], NoAttempt} /\ Fence(crev[c]) /\ UNCHANGED faults
     \/ ledger.attempt \notin {target[c], NoAttempt} /\ UNCHANGED <<gate, faults>>
     \/ Fault /\ UNCHANGED gate
  /\ UNCHANGED <<desired, ledger, child, ready, request, os, residents, snapshot, used>>

-----------------------------------------------------------------------------
(* shutdown                                                                *)

(* The gate must be closed.  A clean ledger means that there is nothing to *)
(* stop; otherwise the attempt it names is the one to stop.                *)
Shutdown(c) ==
  /\ "shutdown" \in setting.asked[c]
  /\ gate.state # "enabled"
  /\ CommandGoes(c, "idle", IF RequiresRecovery(ledger) THEN "request" ELSE "unlink")
  /\ target' = [target EXCEPT ![c] = ledger.attempt]
  /\ UNCHANGED <<authority, os, residents, crev, answer, snapshot, used, faults>>

Stoppable(c) == gate.state # "enabled" /\ Mine(c)

RequestShutdown(c) ==
  /\ CommandGoes(c, "request", "graceful")
  /\ Stoppable(c)
  /\ request' = target[c]
  /\ UNCHANGED <<desired, gate, ledger, child, ready, os, residents, locals, faults>>

(* The gate was opened or the identity changed: an error for the caller.   *)
ShutdownRefused(c) ==
  /\ cpc[c] \in {"request", "hard"}
  /\ Returns(c, cpc[c])
  /\ Unless(Stoppable(c))
  /\ UNCHANGED <<authority, os, residents, snapshot, used>>

AwaitGraceful(c) ==
  /\ CommandGoes(c, "graceful", IF StillThere(c) THEN "hard" ELSE "recover")
  /\ UNCHANGED <<authority, os, residents, locals, faults>>

(* Hard stop: the exact Anchor is terminated, if it is still there.        *)
HardStop(c) ==
  /\ CommandGoes(c, "hard", "hard_absent")
  /\ Stoppable(c)
  /\ IF StillThere(c) THEN Doom({target[c]}) ELSE UNCHANGED doomed
  /\ UNCHANGED <<authority, mutex, holders, kids, residents, locals, faults>>

(* The fence of a hard stop that was not confirmed is written without the  *)
(* transition mutex.                                                       *)
AwaitHard(c) ==
  /\ IF StillThere(c)
     THEN Returns(c, "hard_absent") /\ Fence(gate.revision)
     ELSE CommandGoes(c, "hard_absent", "recover") /\ UNCHANGED <<gate, memory>>
  /\ UNCHANGED <<desired, ledger, child, ready, request, os, residents, snapshot,
                 used, faults>>

-----------------------------------------------------------------------------
(* RuntimeRecovery                                                         *)

Recover(c) ==
  /\ "recover" \in setting.asked[c]
  /\ CommandGoes(c, "idle", "recover")
  /\ UNCHANGED <<authority, os, residents, locals, faults>>

Unresolved == RequiresRecovery(ledger) \/ RequiresRecovery(child)

(* _commit_stopped.                                                        *)
CommitStopped ==
  /\ gate' = [gate EXCEPT !.state = "disabled"]
  /\ ready' = NoAttempt /\ request' = NoAttempt
  /\ ledger' = (IF RequiresRecovery(ledger) THEN MarkClean ELSE ledger)
  /\ child' = (IF RequiresRecovery(child) THEN MarkClean ELSE child)
  /\ UNCHANGED desired

(* The first section holds the transition mutex and takes the resident     *)
(* mutex, which it keeps to the end.  Nothing unresolved: it commits.      *)
(* Otherwise the recorded Jobs that still exist are terminated.            *)
RecoverClean(c) ==
  /\ Returns(c, "recover")
  /\ mutex = NoAttempt /\ gate.state # "enabled" /\ ~Unresolved
  /\ CommitStopped
  /\ UNCHANGED <<os, residents, snapshot, used, faults>>

TerminateRecorded(c) ==
  /\ CommandGoes(c, "recover", "absence")
  /\ mutex = NoAttempt /\ gate.state # "enabled" /\ Unresolved
  /\ mutex' = c
  /\ snapshot' = [ledger |-> ledger, child |-> child]
  /\ Doom({a \in Attempt : RequiresRecovery(ledger) /\ a = ledger.attempt})
  /\ kids' = IF ChildJobExists THEN kids \ {child.attempt} ELSE kids
  /\ UNCHANGED <<authority, holders, residents, target, crev, answer, used, faults>>

RecoverRefused(c) ==
  /\ Returns(c, "recover")
  /\ Unless(mutex = NoAttempt /\ gate.state # "enabled")
  /\ UNCHANGED <<authority, os, residents, snapshot, used>>

(* Every Job recorded in the snapshot is gone ...                          *)
AnchorAbsent == RequiresRecovery(ledger) => ~AnchorExists(ledger.attempt)

AbsentChildOnly == ~ChildJobExists

RecordedAbsent == AnchorAbsent /\ ~ChildJobExists

(* ... and, under the transition mutex again, nothing has changed: the     *)
(* ledgers are made clean and the gate is closed.                          *)
CommitRecovery(c) ==
  /\ Returns(c, "absence")
  /\ RecordedAbsent
  /\ gate.state # "enabled"
  /\ snapshot = [ledger |-> ledger, child |-> child]
  /\ CommitStopped
  /\ mutex' = NoAttempt /\ snapshot' = NoSnapshot
  /\ UNCHANGED <<holders, kids, doomed, residents, used, faults>>

(* A Job that does not disappear in time, a gate that was opened, a ledger *)
(* that moved, a write that fails: an error; the guard is released.        *)
RecoveryFails(c) ==
  /\ Returns(c, "absence")
  /\ Unless(/\ RecordedAbsent /\ gate.state # "enabled"
            /\ snapshot = [ledger |-> ledger, child |-> child])
  /\ mutex' = NoAttempt /\ snapshot' = NoSnapshot
  /\ UNCHANGED <<authority, holders, kids, doomed, residents, used>>

(* The process of command c dies: its handles and its mutex go with it.    *)
CommandDies(c) ==
  /\ cpc[c] # "idle" /\ Fault
  /\ cpc' = [cpc EXCEPT ![c] = "idle"] /\ Forget(c)
  /\ snapshot' = IF cpc[c] = "absence" THEN NoSnapshot ELSE snapshot
  /\ mutex' = IF mutex = c THEN NoAttempt ELSE mutex
  /\ holders' = [a \in Attempt |-> holders[a] \ {c}]
  /\ Doom({a \in Attempt : holders[a] = {c}})
  /\ UNCHANGED <<authority, kids, residents, used>>

-----------------------------------------------------------------------------
(* The system                                                              *)

(* The termination of the members of Anchor a is completed, one by one.    *)
ChildGone(a) ==
  /\ a \in kids
  /\ kids' = kids \ {a}
  /\ doomed' = IF Running(a) THEN doomed ELSE doomed \ {a}
  /\ UNCHANGED <<authority, mutex, holders, residents, cpc, locals, faults>>

Kill(a) ==
  /\ a \in doomed
  /\ \/ Running(a) /\ ProcessEnds(a) /\ UNCHANGED faults
     \/ ChildGone(a)

(* A child ends by itself or because the slot stops it.                    *)
ChildExits(a) == ChildGone(a)

Init ==
  /\ setting \in Settings
  /\ desired = [enabled |-> FALSE, revision |-> 0]
  /\ gate = [state |-> "disabled", revision |-> 0]
  /\ ledger = CleanDocument /\ child = CleanDocument
  /\ ready = NoAttempt /\ request = NoAttempt
  /\ mutex = NoAttempt
  /\ holders = [a \in Attempt |-> {}]
  /\ kids = {} /\ doomed = {}
  /\ rpc = [a \in Attempt |-> "none"]
  /\ rrev = [a \in Attempt |-> 0]
  /\ cpc = [c \in Control |-> "idle"]
  /\ target = [c \in Control |-> NoAttempt]
  /\ crev = [c \in Control |-> 0]
  /\ answer = [c \in Control |-> FALSE]
  /\ snapshot = [ledger |-> CleanDocument, child |-> CleanDocument]
  /\ used = 0
  /\ faults = MaxFaults

Bootstrap(a) ==
  \/ Attach(a) \/ AttachFails(a) \/ AcquireSingleton(a) \/ SingletonBusy(a)
  \/ Activate(a) \/ ActivateFails(a)

Loop(a) ==
  \/ Snapshot(a) \/ SnapshotFails(a)
  \/ FinishChild(a) \/ ArmChild(a) \/ StartChild(a) \/ StartChildFails(a)
  \/ NoChild(a) \/ SlotUnresolved(a)
  \/ BeginShutdown(a) \/ BeginShutdownFails(a)
  \/ DrainChild(a) \/ FinishCleanShutdown(a)

Ending(a) == ForceStop(a) \/ SettleChild(a) \/ FailClosed(a) \/ Leave(a) \/ Exit(a)

Resident(a) == Bootstrap(a) \/ Loop(a) \/ Ending(a)

Publish(c) == ApplyEnabled(c) \/ ApplyDisabled(c) \/ DisableGate(c)

Invoke(c) == EnsureRunning(c) \/ Shutdown(c) \/ Recover(c)

EnsureStep(c) ==
  \/ Probe(c) \/ ProbeDone(c) \/ ReadLedger(c) \/ LockAmbiguous(c)
  \/ ArmResident(c) \/ ArmResidentFails(c)
  \/ SpawnResident(c) \/ SpawnResidentFails(c)
  \/ ConfirmResident(c) \/ ConfirmResidentFails(c)
  \/ AbortBootstrap(c) \/ SettleBootstrap(c)
  \/ WaitReady(c) \/ NotReady(c) \/ NotReadyFails(c) \/ CloseUnready(c) \/ AwaitContained(c)
  \/ SettleUnready(c) \/ CloseStarted(c)
  \/ ContainStale(c) \/ ContainStaleFails(c) \/ StaleAbsent(c)
  \/ SettleStale(c) \/ UnlinkReady(c)
  \/ AlreadyRunning(c) \/ EndedWithoutResident(c) \/ ExistingAmbiguous(c)
  \/ FenceAttempt(c)

ShutdownStep(c) ==
  \/ RequestShutdown(c) \/ ShutdownRefused(c) \/ AwaitGraceful(c)
  \/ HardStop(c) \/ AwaitHard(c)

RecoverStep(c) ==
  \/ RecoverClean(c) \/ TerminateRecorded(c) \/ RecoverRefused(c)
  \/ CommitRecovery(c) \/ RecoveryFails(c)

CommandStep(c) == EnsureStep(c) \/ ShutdownStep(c) \/ RecoverStep(c)

Next ==
  /\ UNCHANGED setting
  /\ \/ \E a \in Attempt : Resident(a) \/ ResidentDies(a) \/ Kill(a) \/ ChildExits(a)
     \/ \E c \in Control : Publish(c) \/ Invoke(c) \/ CommandStep(c) \/ CommandDies(c)

Spec == Init /\ [][Next]_vars

(* Residents and commands that were started keep running; the system       *)
(* completes a termination; a child that is asked to stop is stopped       *)
(* (Slot.tla).  Nobody has to run a command.                               *)
Fairness ==
  /\ \A a \in Attempt :
       /\ WF_vars(Resident(a) /\ UNCHANGED setting)
       /\ WF_vars(Kill(a) /\ UNCHANGED setting)
       /\ WF_vars(child.state = "stopping" /\ ChildExits(a) /\ UNCHANGED setting)
  /\ \A c \in Control : WF_vars(CommandStep(c) /\ UNCHANGED setting)

FairSpec == Spec /\ Fairness

-----------------------------------------------------------------------------
(* Safety                                                                  *)

(* ready.json never speaks for a resident that is still being armed: a     *)
(* command that reads it was not answered by a file left behind by an      *)
(* earlier incarnation (resident.py:150-169, control.py:547-571).          *)
ReadyNamesActivated ==
  ready # NoAttempt /\ ready = ledger.attempt => ledger.state # "spawn_armed"

(* Between the two sections of a recovery, while it waits without the      *)
(* transition mutex, no resident goes round its loop and none that is      *)
(* starting gets through (recovery.py:63-105, 151-158; resident.py:90-98). *)
RecoveryAlone ==
  \A c \in Control, a \in Attempt :
    cpc[c] = "absence" => rpc[a] \in Gone \cup {"suspended", "starting", "attached", "exiting"}

(* What Ownership sees of either ledger.                                   *)
NamedOwner(document) ==
  IF RequiresRecovery(document) THEN document.attempt ELSE NoAttempt

LiveAnchors  == {a \in Attempt : Live(a)}
LiveChildren == kids \ doomed

AnchorOwner == INSTANCE Ownership
  WITH Nobody <- NoAttempt, owner <- NamedOwner(ledger), alive <- LiveAnchors

ChildOwner == INSTANCE Ownership
  WITH Nobody <- NoAttempt, owner <- NamedOwner(child), alive <- LiveChildren

(* Each of the two ledgers implements the abstract ownership: the bootstrap *)
(* is armed, the resident lives under it and dies, and only then is it      *)
(* given up (control.py:170-354, 436-495); and so is its child, which is    *)
(* never given up by a resident or a recovery that could not see it         *)
(* (recovery.py:59-147).  So there is one resident at most, and a ledger    *)
(* names whatever a crash leaves behind.                                    *)
OwnsWhatLives == AnchorOwner!Spec /\ ChildOwner!Spec

-----------------------------------------------------------------------------
(* Liveness                                                                *)

(* Once the gate stays closed everything ends: a resident that was running *)
(* or starting, a bootstrap caught in the middle, their children           *)
(* (resident.py:104-114, 150-157; control.py:279-294).                     *)
ClosedGateStopsResident ==
  <>[](gate.state # "enabled") => <>[](\A a \in Attempt : ~Members(a))

(* Every command returns, whatever became of the process it waits for      *)
(* (control.py:497-571; recovery.py:99-104).                               *)
CommandsReturn == \A c \in Control : cpc[c] # "idle" ~> cpc[c] = "idle"

-----------------------------------------------------------------------------
(* What the repository says and the code does not do                       *)

(* tests/test_resident_stress.py:24-52: of two concurrent ensure_running   *)
(* one starts the resident and the other finds it running.                 *)
NeverAmbiguous == \A c \in Control : cpc[c] # "ambiguous"
=============================================================================
