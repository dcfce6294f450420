------------------------ MODULE SupervisorRefinement ------------------------
(***************************************************************************)
(* Supervisor implements Ownership twice: with the ledger of the resident  *)
(* and the members of its Anchor, and with the ledger of the child and the *)
(* child.                                                                  *)
(*                                                                         *)
(* For each of the two: an invariant by which whatever lives is named by   *)
(* the ledger, and for each step one of four things it may do to the owner *)
(* and to what lives, of which each is a step of Ownership or none.        *)
(***************************************************************************)
EXTENDS SupervisorProofs

(* What a step does to an owner and to what lives.                         *)
Fades(owner, next, alive, left)   == next = owner /\ left \subseteq alive
Takes(owner, next, alive, left)   == owner = NoAttempt /\ next \in Attempt /\ left = alive
Runs(owner, next, alive, left)    == /\ owner \in Attempt /\ next = owner
                                     /\ left \subseteq {owner}
GivesUp(owner, next, alive, left) == next = NoAttempt /\ alive = {} /\ left = {}

Allowed(owner, next, alive, left) ==
  \/ Fades(owner, next, alive, left) \/ Takes(owner, next, alive, left)
  \/ Runs(owner, next, alive, left) \/ GivesUp(owner, next, alive, left)

AnchorStep == Allowed(NamedOwner(ledger), NamedOwner(ledger)', LiveAnchors, LiveAnchors')
ChildStep  == Allowed(NamedOwner(child), NamedOwner(child)', LiveChildren, LiveChildren')

(* All of it is a step of Ownership when only the owner can be alive.      *)
LEMMA AnchorStepImplements ==
  ASSUME LiveAnchors \subseteq {NamedOwner(ledger)}, LiveAnchors \subseteq Attempt, AnchorStep
  PROVE  [AnchorOwner!Next]_<<NamedOwner(ledger), LiveAnchors>>
BY Identities
   DEF AnchorStep, Allowed, Fades, Takes, Runs, GivesUp, AnchorOwner!Next, AnchorOwner!Acquire,
       AnchorOwner!Start, AnchorOwner!Die, AnchorOwner!Release

LEMMA ChildStepImplements ==
  ASSUME LiveChildren \subseteq {NamedOwner(child)}, LiveChildren \subseteq Attempt, ChildStep
  PROVE  [ChildOwner!Next]_<<NamedOwner(child), LiveChildren>>
BY Identities
   DEF ChildStep, Allowed, Fades, Takes, Runs, GivesUp, ChildOwner!Next, ChildOwner!Acquire,
       ChildOwner!Start, ChildOwner!Die, ChildOwner!Release

-----------------------------------------------------------------------------
(* The child                                                               *)

(* A child whose resident is gone is being killed; one that is not is      *)
(* named by its ledger, and is not there yet while it is launched.         *)
ChildInv ==
  /\ \A a \in kids : Running(a) \/ a \in doomed
  /\ \A a \in kids \ doomed : Owned(a)
  /\ \A a \in Attempt : rpc[a] = "launch" => Owned(a) /\ a \notin kids \ doomed

(* The ledger d says of its owner what it said before.                     *)
SameOwner(d) ==
  \/ d' = d
  \/ RequiresRecovery(d) /\ RequiresRecovery(d)' /\ d'.attempt = d.attempt

Shape ==
  /\ rpc \in [Attempt -> ResidentPlace] /\ holders \in [Attempt -> SUBSET Process]
  /\ kids \subseteq Attempt /\ doomed \subseteq Attempt
  /\ ledger \in Document /\ child \in Document
  /\ cpc \in [Control -> CommandPlace] /\ answer \in [Control -> BOOLEAN]
  /\ target \in [Control -> Attempt \cup {NoAttempt}] /\ used \in 0 .. MaxAttempts

(* Most steps leave the child's ledger alone, or its owner, let no child   *)
(* in, spare nobody that was being killed, and launch nothing.             *)
LEMMA ChildStays ==
  ASSUME ChildInv, Shape, SameOwner(child), kids' \subseteq kids, doomed \subseteq doomed',
         \/ rpc' = rpc
         \/ \E a \in Attempt, p \in ResidentPlace \ (Gone \cup {"launch"}) :
              rpc' = [rpc EXCEPT ![a] = p]
  PROVE  ChildInv' /\ ChildStep
<1>1. ChildInv'
  BY DEF ChildInv, Shape, SameOwner, Running, Owned
<1>2. Fades(NamedOwner(child), NamedOwner(child)', LiveChildren, LiveChildren')
  BY DEF Fades, NamedOwner, LiveChildren, SameOwner
<1> QED BY <1>1, <1>2 DEF ChildStep, Allowed

LEMMA MarksKeepOwner ==
  /\ \A d \in Document :
       MarkStopping(d).attempt = d.attempt /\ RequiresRecovery(MarkStopping(d))
  /\ \A d \in Document :
       MarkUncertain(d).attempt = d.attempt /\ RequiresRecovery(MarkUncertain(d))
  /\ \A d \in Document, s \in ActiveState :
       MarkActive(d, s).attempt = d.attempt /\ RequiresRecovery(MarkActive(d, s))
BY DEF MarkStopping, MarkUncertain, MarkActive, RequiresRecovery, Document, Ledger, ActiveState,
       LifecycleState

LEMMA CleanedOwnsNothing == ~RequiresRecovery(MarkClean)
BY DEF MarkClean, CleanDocument, RequiresRecovery

(* A ledger that names an attempt is cleaned when its child is not alive.  *)
LEMMA ChildIsGivenUp ==
  ASSUME ChildInv, Shape, child' = MarkClean, \A a \in kids : Owned(a) => a \in doomed,
         UNCHANGED <<kids, doomed>>,
         \/ rpc' = rpc
         \/ \E a \in Attempt, p \in ResidentPlace \ (Gone \cup {"launch"}) :
              rpc' = [rpc EXCEPT ![a] = p],
         \A a \in Attempt : rpc'[a] # "launch" \/ ~Owned(a)
  PROVE  ChildInv' /\ ChildStep
<1>1. LiveChildren = {} /\ LiveChildren' = {}
  BY DEF LiveChildren, ChildInv
<1>2. ChildInv'
  BY <1>1, CleanedOwnsNothing DEF ChildInv, Shape, Running, Owned, LiveChildren
<1>3. GivesUp(NamedOwner(child), NamedOwner(child)', LiveChildren, LiveChildren')
  BY <1>1, CleanedOwnsNothing DEF GivesUp, NamedOwner
<1> QED BY <1>2, <1>3 DEF ChildStep, Allowed

(* The process of a resident ends, and its child is killed.                *)
LEMMA ChildAfterEnd ==
  ASSUME ChildInv, Shape, NEW a \in Attempt, ProcessEnds(a)
  PROVE  ChildInv' /\ ChildStep
<1>1. ChildInv'
  BY DEF ChildInv, Shape, ProcessEnds, Running, Owned, Gone, authority
<1>2. Fades(NamedOwner(child), NamedOwner(child)', LiveChildren, LiveChildren')
  BY DEF Fades, NamedOwner, LiveChildren, ProcessEnds, authority
<1> QED BY <1>1, <1>2 DEF ChildStep, Allowed

LEMMA ChildAfterChild ==
  ASSUME ChildInv, Shape, NEW a \in Attempt, ChildGone(a)
  PROVE  ChildInv' /\ ChildStep
<1>1. ChildInv'
  BY DEF ChildInv, Shape, ChildGone, Running, Owned, authority, residents
<1>2. Fades(NamedOwner(child), NamedOwner(child)', LiveChildren, LiveChildren')
  BY DEF Fades, NamedOwner, LiveChildren, ChildGone, authority
<1> QED BY <1>1, <1>2 DEF ChildStep, Allowed

(* A resident arms, starts and settles its own child.                      *)
LEMMA ResidentKeepsChild ==
  ASSUME ChildInv, Shape, NEW a \in Attempt,
         Resident(a) \/ ResidentDies(a) \/ Kill(a) \/ ChildExits(a)
  PROVE  ChildInv' /\ ChildStep
<1>. USE DEF ResidentGoes, Gone, ResidentPlace
<1>1. CASE AttachFails(a) \/ SingletonBusy(a) \/ Exit(a) \/ ResidentDies(a)
  BY <1>1, ChildAfterEnd DEF AttachFails, SingletonBusy, Exit, ResidentDies
<1>2. CASE Kill(a) \/ ChildExits(a)
  BY <1>2, ChildAfterEnd, ChildAfterChild DEF Kill, ChildExits
<1>3. CASE Attach(a) \/ AcquireSingleton(a) \/ Activate(a) \/ ActivateFails(a)
  BY <1>3, ChildStays
     DEF Attach, AcquireSingleton, Activate, ActivateFails, authority, os, SameOwner
<1>4. CASE Snapshot(a) \/ SnapshotFails(a) \/ NoChild(a) \/ SlotUnresolved(a)
  BY <1>4, ChildStays
     DEF Snapshot, SnapshotFails, NoChild, SlotUnresolved, authority, os, SameOwner
<1>5. CASE FinishChild(a)
  <2>1. CASE a \in kids
    BY <1>5, <2>1, ChildStays DEF FinishChild, os, SameOwner
  <2>2. CASE a \notin kids
    BY <1>5, <2>2, ChildIsGivenUp DEF FinishChild, os, Owned, Shape
  <2> QED BY <2>1, <2>2
<1>6. CASE ArmChild(a)
  <2>1. ~RequiresRecovery(child) /\ LiveChildren = {}
    BY <1>6 DEF ArmChild, MayArm, RequiresRecovery, ChildInv, LiveChildren, Owned
  <2>2. RequiresRecovery(child') /\ child'.attempt = a
    BY <1>6 DEF ArmChild, Arm, RequiresRecovery
  <2>3. /\ rpc' = [rpc EXCEPT ![a] = "launch"] /\ UNCHANGED <<kids, doomed>>
    BY <1>6 DEF ArmChild, os
  <2>4. ChildInv'
    BY <2>1, <2>2, <2>3 DEF ChildInv, Shape, Running, Owned, LiveChildren
  <2>5. Takes(NamedOwner(child), NamedOwner(child)', LiveChildren, LiveChildren')
    BY <2>1, <2>2, <2>3 DEF Takes, NamedOwner, LiveChildren
  <2> QED BY <2>4, <2>5 DEF ChildStep, Allowed
<1>7. CASE StartChild(a)
  <2>1. Owned(a) /\ rpc' = [rpc EXCEPT ![a] = "loop"]
    BY <1>7 DEF StartChild, ChildInv
  <2>2. RequiresRecovery(child') /\ child'.attempt = child.attempt
    BY <1>7, MarksKeepOwner DEF StartChild, Shape, ActiveState
  <2>3. kids' = kids \cup {a} /\ doomed' = doomed
    BY <1>7 DEF StartChild
  <2>4. ChildInv'
    BY <2>1, <2>2, <2>3 DEF ChildInv, Shape, Running, Owned
  <2>5. Runs(NamedOwner(child), NamedOwner(child)', LiveChildren, LiveChildren')
    BY <2>1, <2>2, <2>3 DEF Runs, NamedOwner, LiveChildren, ChildInv, Owned
  <2> QED BY <2>4, <2>5 DEF ChildStep, Allowed
<1>8. CASE StartChildFails(a)
  <2>1. rpc[a] = "launch" /\ UNCHANGED <<kids, doomed>>
    BY <1>8 DEF StartChildFails, os
  <2>2. CASE child' = MarkClean /\ rpc' = [rpc EXCEPT ![a] = "loop"]
    BY <2>1, <2>2, ChildIsGivenUp DEF ChildInv, Owned, Shape
  <2>3. CASE child' = MarkUncertain(child) /\ rpc' = [rpc EXCEPT ![a] = "fail"]
    BY <2>1, <2>3, ChildStays, MarksKeepOwner DEF ChildInv, Owned, Shape, SameOwner
  <2> QED BY <1>8, <2>2, <2>3 DEF StartChildFails
<1>9. CASE BeginShutdown(a) \/ BeginShutdownFails(a)
  BY <1>9, ChildStays, MarksKeepOwner
     DEF BeginShutdown, BeginShutdownFails, authority, os, SameOwner, Shape, MayMarkStopping,
         RequireAttempt, RequiresRecovery, ActiveState
<1>10. CASE DrainChild(a)
  <2>1. CASE a \notin kids /\ child' = MarkClean /\ rpc' = rpc
    BY <1>10, <2>1, ChildIsGivenUp DEF DrainChild, os, Owned
  <2>2. CASE child' = MarkUncertain(child) \/ child' = child
    BY <1>10, <2>2, ChildStays, MarksKeepOwner DEF DrainChild, os, Owned, SameOwner, Shape
  <2> QED BY <1>10, <2>1, <2>2 DEF DrainChild
<1>11. CASE FinishCleanShutdown(a)
  BY <1>11, ChildStays DEF FinishCleanShutdown, os, SameOwner
<1>12. CASE ForceStop(a) \/ FailClosed(a) \/ Leave(a)
  BY <1>12, ChildStays DEF ForceStop, FailClosed, Leave, authority, os, SameOwner
<1>13. CASE SettleChild(a)
  <2>1. rpc' = [rpc EXCEPT ![a] = "fence"] /\ UNCHANGED <<kids, doomed>>
    BY <1>13 DEF SettleChild, os
  <2>2. CASE Owned(a) /\ a \notin kids /\ child' = MarkClean
    BY <1>13, <2>1, <2>2, ChildIsGivenUp DEF SettleChild, Owned, Shape
  <2>3. CASE child' = child \/ (Owned(a) /\ child' = MarkUncertain(child))
    BY <2>1, <2>3, ChildStays, MarksKeepOwner DEF SameOwner, Owned, Shape
  <2> QED BY <1>13, <2>2, <2>3 DEF SettleChild
<1> QED
  BY <1>1, <1>2, <1>3, <1>4, <1>5, <1>6, <1>7, <1>8, <1>9, <1>10, <1>11, <1>12, <1>13
     DEF Resident, Bootstrap, Loop, Ending

(* A command touches the child's ledger only when it commits a recovery,   *)
(* and then neither a resident launches anything nor lives the one named.  *)
LEMMA CommandKeepsChild ==
  ASSUME ChildInv, Shape, MutexInv, Named, NEW c \in Control,
         Publish(c) \/ Invoke(c) \/ CommandStep(c) \/ CommandDies(c)
  PROVE  ChildInv' /\ ChildStep
<1>. USE DEF authority, os, residents, SameOwner
<1>1. CASE Publish(c) \/ Invoke(c)
  BY <1>1, ChildStays
     DEF Publish, ApplyEnabled, ApplyDisabled, DisableGate, Invoke, EnsureRunning, Shutdown,
         Recover
<1>2. CASE Probe(c) \/ ProbeDone(c) \/ ReadLedger(c) \/ LockAmbiguous(c)
  BY <1>2, ChildStays DEF Probe, ProbeDone, ReadLedger, LockAmbiguous
<1>3. CASE ArmResident(c) \/ ArmResidentFails(c)
  BY <1>3, ChildStays DEF ArmResident, ArmResidentFails
<1>4. CASE SpawnResident(c) \/ SpawnResidentFails(c)
  <2>1. target[c] \in Attempt
    BY <1>4 DEF SpawnResident, SpawnResidentFails, CommandGoes, Named, Bootstrapping
  <2> QED
    BY <1>4, <2>1, ChildStays DEF SpawnResident, SpawnResidentFails, ResidentPlace, Gone
<1>5. CASE ConfirmResident(c) \/ ConfirmResidentFails(c)
  BY <1>5, ChildStays DEF ConfirmResident, ConfirmResidentFails
<1>6. CASE AbortBootstrap(c) \/ SettleBootstrap(c)
  BY <1>6, ChildStays DEF AbortBootstrap, SettleBootstrap, CloseAnchor, Doom
<1>7. CASE WaitReady(c) \/ NotReady(c) \/ NotReadyFails(c)
  BY <1>7, ChildStays DEF WaitReady, NotReady, NotReadyFails, CloseAnchor, Doom
<1>8. CASE CloseUnready(c) \/ AwaitContained(c) \/ SettleUnready(c) \/ CloseStarted(c)
  BY <1>8, ChildStays
     DEF CloseUnready, AwaitContained, SettleUnready, CloseStarted, CloseAnchor, Doom
<1>9. CASE ContainStale(c) \/ ContainStaleFails(c) \/ StaleAbsent(c)
  BY <1>9, ChildStays DEF ContainStale, ContainStaleFails, StaleAbsent, CloseAnchor, Doom
<1>10. CASE SettleStale(c) \/ UnlinkReady(c) \/ AlreadyRunning(c)
  BY <1>10, ChildStays DEF SettleStale, UnlinkReady, AlreadyRunning
<1>11. CASE EndedWithoutResident(c) \/ ExistingAmbiguous(c) \/ FenceAttempt(c)
  BY <1>11, ChildStays DEF EndedWithoutResident, ExistingAmbiguous, FenceAttempt
<1>12. CASE ShutdownStep(c)
  BY <1>12, ChildStays
     DEF ShutdownStep, RequestShutdown, ShutdownRefused, AwaitGraceful, HardStop, AwaitHard, Doom
<1>13. CASE RecoverClean(c) \/ RecoverRefused(c)
  BY <1>13, ChildStays DEF RecoverClean, RecoverRefused, CommitStopped, Unresolved
<1>14. CASE TerminateRecorded(c) \/ RecoveryFails(c)
  BY <1>14, ChildStays DEF TerminateRecorded, RecoveryFails, Doom
<1>15. CASE CommitRecovery(c)
  <2>1. UNCHANGED <<kids, doomed, rpc>> /\ cpc[c] = "absence"
    BY <1>15 DEF CommitRecovery, Returns, CommandGoes
  <2>2. CASE ~RequiresRecovery(child)
    BY <1>15, <2>1, <2>2, ChildStays DEF CommitRecovery, CommitStopped
  <2>3. CASE RequiresRecovery(child)
    <3>1. child' = MarkClean /\ ~Running(child.attempt)
      BY <1>15, <2>3 DEF CommitRecovery, CommitStopped, RecordedAbsent, ChildJobExists
    <3>2. \A a \in Attempt : rpc[a] # "launch"
      BY <2>1, Identities DEF MutexInv, Inside, Guarded
    <3> QED
      BY <2>1, <3>1, <3>2, ChildIsGivenUp DEF ChildInv, Owned
  <2> QED BY <2>2, <2>3
<1>16. CASE CommandDies(c)
  BY <1>16, ChildStays DEF CommandDies, Doom
<1> QED
  BY <1>1, <1>2, <1>3, <1>4, <1>5, <1>6, <1>7, <1>8, <1>9, <1>10, <1>11, <1>12, <1>13, <1>14,
     <1>15, <1>16
     DEF CommandStep, EnsureStep, RecoverStep

-----------------------------------------------------------------------------
(* The Anchor                                                              *)

(* Whatever lives is named by the ledger, and somebody has its Anchor.     *)
NamedInv ==
  /\ \A a \in Attempt : Live(a) => /\ RequiresRecovery(ledger) /\ ledger.attempt = a
                                  /\ holders[a] # {}
  /\ ledger.state = "clean" => ledger.attempt = NoAttempt

(* An attempt that was not drawn has no process.                           *)
FreshInv == \A a \in Attempt : a > used => rpc[a] = "none" /\ a \notin kids

(* Who is about to spawn is alone with the ledger's attempt and holds its  *)
(* Anchor, so that nobody can settle that ledger meanwhile.                *)
SpawnInv ==
  \A c \in Control : cpc[c] = "spawn" =>
    /\ target[c] \in Attempt /\ c \in holders[target[c]]
    /\ RequiresRecovery(ledger) /\ ledger.attempt = target[c]
    /\ rpc[target[c]] = "none" /\ target[c] \notin kids
    /\ \A d \in Control : cpc[d] = "spawn" => d = c

(* Who is about to settle a ledger for good has seen that the Anchor is    *)
(* gone, and no Anchor comes back.                                         *)
Settling(c) == cpc[c] = "stale_clean" \/ (cpc[c] = "unready_settle" /\ answer[c])

GoneInv == \A c \in Control : Settling(c) => ~AnchorExists(target[c])

AnchorInv ==
  NamedInv /\ FreshInv /\ SpawnInv /\ GoneInv /\ \A c \in Control : target[c] <= used

(* A step of a resident that is running: nobody comes to life by it, and   *)
(* it takes a handle of an Anchor only if there is one already.            *)
LEMMA ResidentStays ==
  ASSUME AnchorInv, Shape, NEW a \in Attempt, Running(a), SameOwner(ledger),
         UNCHANGED <<cpc, target, answer, used>>,
         \/ rpc' = rpc
         \/ \E p \in ResidentPlace \ Gone : rpc' = [rpc EXCEPT ![a] = p],
         kids' \subseteq kids \cup {a}, doomed \subseteq doomed', holders' \in [Attempt -> SUBSET Process],
         \A b \in Attempt : holders[b] \subseteq holders'[b] /\ (holders[b] = {} => holders'[b] = {})
  PROVE  AnchorInv' /\ AnchorStep
<1>1. \A b \in Attempt : Live(b)' => Live(b)
  BY DEF Live, Members, Running, Shape
<1>2. NamedInv'
  BY <1>1 DEF AnchorInv, NamedInv, SameOwner, RequiresRecovery, Shape
<1>3. FreshInv'
  BY DEF AnchorInv, FreshInv, Running, Gone, Shape
<1>4. SpawnInv'
  BY DEF AnchorInv, SpawnInv, Running, Gone, Shape, SameOwner
<1>5. GoneInv' /\ \A c \in Control : target'[c] <= used'
  BY DEF AnchorInv, GoneInv, Settling, AnchorExists, Shape, Attempt, NoAttempt
<1>6. Fades(NamedOwner(ledger), NamedOwner(ledger)', LiveAnchors, LiveAnchors')
  BY <1>1 DEF Fades, NamedOwner, LiveAnchors, SameOwner
<1> QED BY <1>2, <1>3, <1>4, <1>5, <1>6 DEF AnchorInv, AnchorStep, Allowed

(* Its process ends, and what was alive in its Anchor is being killed.     *)
LEMMA AnchorAfterEnd ==
  ASSUME AnchorInv, Shape, NEW a \in Attempt, Running(a), ProcessEnds(a)
  PROVE  AnchorInv' /\ AnchorStep
<1>. USE DEF ProcessEnds, authority, locals, memory
<1>1. \A b \in Attempt : Live(b)' => Live(b) /\ b # a
  BY DEF Live, Members, Running, Shape, Gone
<1>2. NamedInv'
  BY <1>1 DEF AnchorInv, NamedInv, Shape
<1>3. FreshInv'
  BY DEF AnchorInv, FreshInv, Running, Gone, Shape
<1>4. SpawnInv'
  BY Identities DEF AnchorInv, SpawnInv, Running, Gone, Shape
<1>5. GoneInv' /\ \A c \in Control : target'[c] <= used'
  BY DEF AnchorInv, GoneInv, Settling, AnchorExists, Shape, Attempt, NoAttempt
<1>6. Fades(NamedOwner(ledger), NamedOwner(ledger)', LiveAnchors, LiveAnchors')
  BY <1>1 DEF Fades, NamedOwner, LiveAnchors
<1> QED BY <1>2, <1>3, <1>4, <1>5, <1>6 DEF AnchorInv, AnchorStep, Allowed

LEMMA AnchorAfterChild ==
  ASSUME AnchorInv, Shape, NEW a \in Attempt, ChildGone(a)
  PROVE  AnchorInv' /\ AnchorStep
<1>. USE DEF ChildGone, authority, locals, memory, residents
<1>1. \A b \in Attempt : Live(b)' => Live(b)
  BY DEF Live, Members, Running, Shape
<1>2. NamedInv' /\ FreshInv'
  BY <1>1 DEF AnchorInv, NamedInv, FreshInv, Shape
<1>3. SpawnInv' /\ GoneInv' /\ \A c \in Control : target'[c] <= used'
  BY DEF AnchorInv, SpawnInv, GoneInv, Settling, AnchorExists, Shape
<1>4. Fades(NamedOwner(ledger), NamedOwner(ledger)', LiveAnchors, LiveAnchors')
  BY <1>1 DEF Fades, NamedOwner, LiveAnchors
<1> QED BY <1>2, <1>3, <1>4 DEF AnchorInv, AnchorStep, Allowed

LEMMA ResidentKeepsAnchor ==
  ASSUME AnchorInv, Shape, NEW a \in Attempt,
         Resident(a) \/ ResidentDies(a) \/ Kill(a) \/ ChildExits(a)
  PROVE  AnchorInv' /\ AnchorStep
<1>. USE DEF ResidentGoes, Gone, ResidentPlace, Running, locals, memory
<1>1. CASE AttachFails(a) \/ SingletonBusy(a) \/ Exit(a) \/ ResidentDies(a)
  BY <1>1, AnchorAfterEnd DEF AttachFails, SingletonBusy, Exit, ResidentDies
<1>2. CASE Kill(a) \/ ChildExits(a)
  BY <1>2, AnchorAfterEnd, AnchorAfterChild DEF Kill, ChildExits
<1>3. CASE Attach(a)
  BY <1>3, ResidentStays DEF Attach, authority, SameOwner, Shape, AnchorExists, Process
<1>4. CASE Activate(a)
  BY <1>4, ResidentStays, MarksKeepOwner
     DEF Activate, os, SameOwner, Shape, ActiveState, RequiresRecovery
<1>5. CASE AcquireSingleton(a) \/ ActivateFails(a) \/ Snapshot(a) \/ SnapshotFails(a)
  BY <1>5, ResidentStays
     DEF AcquireSingleton, ActivateFails, Snapshot, SnapshotFails, authority, os, SameOwner, Shape
<1>6. CASE FinishChild(a) \/ ArmChild(a) \/ StartChild(a) \/ StartChildFails(a)
  BY <1>6, ResidentStays
     DEF FinishChild, ArmChild, StartChild, StartChildFails, os, SameOwner, Shape
<1>7. CASE NoChild(a) \/ SlotUnresolved(a) \/ BeginShutdownFails(a)
  BY <1>7, ResidentStays
     DEF NoChild, SlotUnresolved, BeginShutdownFails, authority, os, SameOwner, Shape
<1>8. CASE BeginShutdown(a)
  BY <1>8, ResidentStays, MarksKeepOwner
     DEF BeginShutdown, os, SameOwner, Shape, RequiresRecovery
<1>9. CASE DrainChild(a) \/ FinishCleanShutdown(a)
  BY <1>9, ResidentStays DEF DrainChild, FinishCleanShutdown, os, SameOwner, Shape
<1>10. CASE ForceStop(a) \/ SettleChild(a) \/ Leave(a)
  BY <1>10, ResidentStays DEF ForceStop, SettleChild, Leave, authority, os, SameOwner, Shape
<1>11. CASE FailClosed(a)
  BY <1>11, ResidentStays, MarksKeepOwner
     DEF FailClosed, os, SameOwner, Shape, RequiresRecovery, MayMarkUncertain, RequireAttempt,
         ActiveState
<1> QED
  BY <1>1, <1>2, <1>3, <1>4, <1>5, <1>6, <1>7, <1>8, <1>9, <1>10, <1>11
     DEF Resident, Bootstrap, Loop, Ending

(* A command moves, and the others stay where they are.                    *)
Moves(c) ==
  /\ cpc'[c] # "spawn" /\ (Settling(c)' => ~AnchorExists(target[c])')
  /\ target'[c] <= used
  /\ \A d \in Control \ {c} :
       cpc'[d] = cpc[d] /\ target'[d] = target[d] /\ answer'[d] = answer[d]

(* It closes handles of its own, and the last one kills.                   *)
Closes(c) ==
  /\ doomed \subseteq doomed'
  /\ \A b \in Attempt :
       /\ holders'[b] \subseteq holders[b] /\ holders[b] \ {c} \subseteq holders'[b]
       /\ holders[b] # {} /\ holders'[b] = {} /\ Members(b) => b \in doomed'

(* Closing one handle does so, and so does the end of the process.         *)
LEMMA ClosingCloses ==
  ASSUME Shape, NEW c \in Control,
         \/ \E b \in Attempt \cup {NoAttempt} : CloseAnchor(c, b)
         \/ /\ holders' = [b \in Attempt |-> holders[b] \ {c}]
            /\ Doom({b \in Attempt : holders[b] = {c}})
  PROVE  Closes(c)
<1>1. ASSUME NEW b \in Attempt \cup {NoAttempt}, CloseAnchor(c, b)
      PROVE  Closes(c)
  <2>1. doomed \subseteq doomed' /\ (b \in Attempt /\ holders[b] = {c} /\ Members(b) => b \in doomed')
    BY <1>1 DEF CloseAnchor, Doom
  <2>2. \A a \in Attempt : holders'[a] = IF a = b THEN holders[a] \ {c} ELSE holders[a]
    BY <1>1 DEF CloseAnchor, Shape
  <2>3. \A a \in Attempt : holders[a] # {} /\ holders'[a] = {} => a = b /\ holders[a] = {c}
    BY <2>2
  <2> QED BY <2>1, <2>2, <2>3 DEF Closes
<1>2. ASSUME holders' = [b \in Attempt |-> holders[b] \ {c}],
             Doom({b \in Attempt : holders[b] = {c}})
      PROVE  Closes(c)
  <2>1. \A a \in Attempt : holders'[a] = holders[a] \ {c}
    BY <1>2
  <2>2. \A a \in Attempt : holders[a] # {} /\ holders'[a] = {} => holders[a] = {c}
    BY <2>1
  <2> QED BY <1>2, <2>1, <2>2 DEF Closes, Doom
<1> QED BY <1>1, <1>2

(* Most steps of a command leave the ledger its owner and spawn nothing.   *)
LEMMA CommandStays ==
  ASSUME AnchorInv, Shape, NEW c \in Control, SameOwner(ledger), UNCHANGED <<rpc, used>>,
         kids' \subseteq kids, Moves(c), Closes(c)
  PROVE  AnchorInv' /\ AnchorStep
<1>1. \A b \in Attempt : Live(b)' => Live(b)
  BY DEF Live, Members, Running, Closes
<1>2. NamedInv'
  BY <1>1 DEF AnchorInv, NamedInv, SameOwner, RequiresRecovery, Closes, Live, Members, Running
<1>3. FreshInv'
  BY DEF AnchorInv, FreshInv
<1>4. SpawnInv'
  BY DEF AnchorInv, SpawnInv, SameOwner, Moves, Closes
<1>5. GoneInv' /\ \A d \in Control : target'[d] <= used'
  <2>1. ASSUME NEW d \in Control \ {c}, Settling(d)'
        PROVE  ~AnchorExists(target[d])'
    <3>1. ~AnchorExists(target[d]) /\ target'[d] = target[d]
      BY <2>1 DEF AnchorInv, GoneInv, Settling, Moves
    <3> QED
      BY <3>1 DEF AnchorExists, Closes, Shape
  <2> QED
    BY <2>1 DEF AnchorInv, GoneInv, Moves
<1>6. Fades(NamedOwner(ledger), NamedOwner(ledger)', LiveAnchors, LiveAnchors')
  BY <1>1 DEF Fades, NamedOwner, LiveAnchors, SameOwner
<1> QED BY <1>2, <1>3, <1>4, <1>5, <1>6 DEF AnchorInv, AnchorStep, Allowed

(* It settles the ledger of an Anchor that is gone.                        *)
LEMMA AnchorIsGivenUp ==
  ASSUME AnchorInv, Shape, NEW c \in Control, ledger' = MarkClean, ~AnchorExists(ledger.attempt),
         UNCHANGED <<rpc, used, kids, doomed, holders>>, Moves(c)
  PROVE  AnchorInv' /\ AnchorStep
<1>1. \A a \in Attempt : ~Live(a) /\ ~Live(a)'
  BY Identities DEF AnchorInv, NamedInv, Live, Members, Running, AnchorExists
<1>2. \A d \in Control : cpc'[d] # "spawn"
  BY Identities DEF AnchorInv, SpawnInv, AnchorExists, Moves
<1>3. NamedInv' /\ FreshInv' /\ SpawnInv'
  BY <1>1, <1>2 DEF AnchorInv, NamedInv, FreshInv, SpawnInv, MarkClean, CleanDocument
<1>4. GoneInv' /\ \A d \in Control : target'[d] <= used'
  BY DEF AnchorInv, GoneInv, Settling, AnchorExists, Moves
<1>5. GivesUp(NamedOwner(ledger), NamedOwner(ledger)', LiveAnchors, LiveAnchors')
  BY <1>1, CleanedOwnsNothing DEF GivesUp, NamedOwner, LiveAnchors
<1> QED BY <1>3, <1>4, <1>5 DEF AnchorInv, AnchorStep, Allowed

(* It arms the ledger for an attempt nobody has heard of, and holds its    *)
(* Anchor if the call returns.                                             *)
LEMMA AnchorIsTaken ==
  ASSUME AnchorInv, Shape, NEW c \in Control, NEW a \in Attempt, NEW r, a = used + 1,
         MayArm(ledger), ledger' = Arm(a, r), used' = a, UNCHANGED <<rpc, kids, doomed>>,
         \A d \in Control \ {c} :
           cpc'[d] = cpc[d] /\ target'[d] = target[d] /\ answer'[d] = answer[d],
         \A b \in Attempt \ {a} : holders'[b] = holders[b],
         target'[c] \in {NoAttempt, a}, ~Settling(c)',
         cpc'[c] = "spawn" => target'[c] = a /\ holders'[a] = {c}
  PROVE  AnchorInv' /\ AnchorStep
<1>0. used \in Nat /\ \A d \in Control : target[d] \in Nat
  BY SupervisorAssumption DEF Shape, SupervisorAssumption, Attempt, NoAttempt
<1>1. \A b \in Attempt : ~Live(b) /\ ~Live(b)'
  BY DEF AnchorInv, NamedInv, MayArm, RequiresRecovery, Live, Members, Running
<1>2. NamedInv'
  BY <1>1 DEF NamedInv, Arm
<1>3. FreshInv'
  BY <1>0 DEF AnchorInv, FreshInv, Attempt
<1>4. SpawnInv'
  <2>1. \A d \in Control : cpc'[d] = "spawn" => d = c
    BY DEF AnchorInv, SpawnInv, MayArm, RequiresRecovery
  <2>2. rpc[a] = "none" /\ a \notin kids
    BY <1>0 DEF AnchorInv, FreshInv
  <2>3. RequiresRecovery(ledger') /\ ledger'.attempt = a
    BY DEF Arm, RequiresRecovery
  <2> QED BY <2>1, <2>2, <2>3 DEF SpawnInv
<1>5. GoneInv'
  <2>1. ASSUME NEW d \in Control \ {c}, Settling(d)'
        PROVE  ~AnchorExists(target[d])'
    <3>1. ~AnchorExists(target[d]) /\ target'[d] = target[d] /\ target[d] <= used
      BY <2>1 DEF AnchorInv, GoneInv, Settling
    <3>2. target[d] # a /\ target[d] \in Attempt \cup {NoAttempt}
      BY <1>0, <3>1 DEF Shape
    <3> QED
      BY <3>1, <3>2 DEF AnchorExists
  <2> QED
    BY <2>1 DEF GoneInv
<1>6. \A d \in Control : target'[d] <= used'
  BY <1>0 DEF AnchorInv, NoAttempt
<1>7. Takes(NamedOwner(ledger), NamedOwner(ledger)', LiveAnchors, LiveAnchors')
  BY <1>1 DEF Takes, NamedOwner, LiveAnchors, Arm, RequiresRecovery, MayArm
<1> QED BY <1>2, <1>3, <1>4, <1>5, <1>6, <1>7 DEF AnchorInv, AnchorStep, Allowed

(* It spawns the resident, in the Anchor it holds.                         *)
LEMMA AnchorComesAlive ==
  ASSUME AnchorInv, Shape, NEW c \in Control, cpc[c] = "spawn",
         NEW p \in ResidentPlace \ Gone, rpc' = [rpc EXCEPT ![target[c]] = p],
         doomed \subseteq doomed', UNCHANGED <<ledger, used, kids, holders, target, answer>>,
         cpc'[c] # "spawn", ~Settling(c)', \A d \in Control \ {c} : cpc'[d] = cpc[d]
  PROVE  AnchorInv' /\ AnchorStep
<1>0. /\ target[c] \in Attempt /\ holders[target[c]] # {}
      /\ RequiresRecovery(ledger) /\ ledger.attempt = target[c]
      /\ \A d \in Control : cpc[d] = "spawn" => d = c
  BY DEF AnchorInv, SpawnInv
<1>1. \A b \in Attempt : Live(b)' => Live(b) \/ b = target[c]
  BY <1>0 DEF Live, Members, Running, Shape
<1>2. NamedInv'
  BY <1>0, <1>1 DEF AnchorInv, NamedInv
<1>3. FreshInv'
  <2>1. \A b \in Attempt : b > used => b # target[c]
    BY <1>0, SupervisorAssumption DEF AnchorInv, Shape, Attempt, SupervisorAssumption
  <2> QED BY <2>1 DEF AnchorInv, FreshInv, Shape
<1>4. SpawnInv'
  BY <1>0 DEF SpawnInv
<1>5. GoneInv' /\ \A d \in Control : target'[d] <= used'
  BY DEF AnchorInv, GoneInv, Settling, AnchorExists
<1>6. \A b \in Attempt : Live(b)' => b = target[c]
  BY <1>0, <1>1 DEF AnchorInv, NamedInv
<1>7. Runs(NamedOwner(ledger), NamedOwner(ledger)', LiveAnchors, LiveAnchors')
  BY <1>0, <1>6 DEF Runs, NamedOwner, LiveAnchors
<1> QED BY <1>2, <1>3, <1>4, <1>5, <1>7 DEF AnchorInv, AnchorStep, Allowed

(* A command arms and spawns with everybody else kept out by the ledger,   *)
(* and settles only the ledger of an Anchor it has seen to be gone.        *)
LEMMA CommandKeepsAnchor ==
  ASSUME AnchorInv, Shape, Named, ledger.attempt <= used, setting \in Settings, NEW c \in Control,
         Publish(c) \/ Invoke(c) \/ CommandStep(c) \/ CommandDies(c)
  PROVE  AnchorInv' /\ AnchorStep
<1>0. 0 <= used /\ target[c] <= used
  BY SupervisorAssumption DEF AnchorInv, Shape, SupervisorAssumption
<1>. USE <1>0 DEF authority, os, residents, locals, memory, SameOwner, Shape, Moves, Settling,
       CommandGoes, Returns, Forget, NoAttempt
<1>m. Mine(c) /\ cpc[c] \in Bootstrapping => RequiresRecovery(ledger)
  BY Identities DEF Named, Mine, AnchorInv, NamedInv, RequiresRecovery
<1>1. CASE Publish(c) \/ Invoke(c)
  <2>1. CASE Publish(c)
    BY <2>1, CommandStays
       DEF Publish, ApplyEnabled, ApplyDisabled, DisableGate, Closes, AnchorInv, SpawnInv, GoneInv
  <2>2. CASE Invoke(c)
    BY <2>2, CommandStays DEF Invoke, EnsureRunning, Shutdown, Recover, Closes
  <2> QED BY <1>1, <2>1, <2>2
<1>2. CASE Probe(c) \/ ProbeDone(c) \/ ReadLedger(c) \/ LockAmbiguous(c)
  BY <1>2, CommandStays DEF Probe, ProbeDone, ReadLedger, LockAmbiguous, Closes
<1>3. CASE ArmResident(c) /\ MayArm(ledger)
  <2>1. used + 1 \in Attempt
    BY <1>3, SupervisorAssumption DEF ArmResident, SupervisorAssumption, Attempt
  <2> QED
    BY <1>3, <2>1, AnchorIsTaken DEF ArmResident
<1>4. CASE ArmResident(c) /\ ~MayArm(ledger)
  BY <1>4, CommandStays DEF ArmResident, Closes
<1>5. CASE ArmResidentFails(c)
  <2>1. CASE UNCHANGED <<ledger, used>>
    BY <1>5, <2>1, CommandStays DEF ArmResidentFails, Closes
  <2>2. CASE used < setting.attempts /\ MayArm(ledger) /\ used' = used + 1
             /\ ledger' = Arm(used', desired.revision)
    <3>1. used' \in Attempt
      BY <2>2, SupervisorAssumption DEF SupervisorAssumption, Attempt
    <3> QED
      BY <1>5, <2>2, <3>1, AnchorIsTaken DEF ArmResidentFails
  <2> QED BY <1>5, <2>1, <2>2 DEF ArmResidentFails
<1>6. CASE SpawnResident(c)
  BY <1>6, AnchorComesAlive DEF SpawnResident, ResidentPlace, Gone
<1>7. CASE SpawnResidentFails(c)
  <2>1. CASE UNCHANGED <<rpc, doomed>>
    BY <1>7, <2>1, CommandStays DEF SpawnResidentFails, Closes
  <2>2. CASE rpc' = [rpc EXCEPT ![target[c]] = "suspended"]
             /\ doomed' = doomed \cup {target[c]}
    BY <1>7, <2>2, AnchorComesAlive DEF SpawnResidentFails, ResidentPlace, Gone
  <2> QED BY <1>7, <2>1, <2>2 DEF SpawnResidentFails
<1>8. CASE ConfirmResident(c) \/ ConfirmResidentFails(c)
  BY <1>8, <1>m, CommandStays, MarksKeepOwner
     DEF ConfirmResident, ConfirmResidentFails, Bootstrapping, Closes
<1>9. CASE AbortBootstrap(c) \/ CloseUnready(c) \/ CloseStarted(c)
  <2>1. CloseAnchor(c, target[c]) /\ Closes(c)
    BY <1>9, ClosingCloses DEF AbortBootstrap, CloseUnready, CloseStarted
  <2> QED
    BY <1>9, <2>1, CommandStays DEF AbortBootstrap, CloseUnready, CloseStarted
<1>10. CASE SettleBootstrap(c)
  <2>1. CASE ledger' = MarkClean /\ Mine(c) /\ ~AnchorExists(target[c])
    BY <1>10, <2>1, AnchorIsGivenUp DEF SettleBootstrap, Mine
  <2>2. CASE ledger' = ledger \/ (ledger' = MarkUncertain(ledger) /\ RequiresRecovery(ledger))
    BY <1>10, <2>2, CommandStays, MarksKeepOwner DEF SettleBootstrap, Closes
  <2> QED
    BY <1>10, <2>1, <2>2
       DEF SettleBootstrap, MayMarkUncertain, RequireAttempt, RequiresRecovery, ActiveState
<1>11. CASE WaitReady(c) \/ NotReady(c)
  BY <1>11, CommandStays DEF WaitReady, NotReady, Doom, Closes
<1>12. CASE NotReadyFails(c)
  BY <1>12, ClosingCloses, CommandStays DEF NotReadyFails
<1>13. CASE AwaitContained(c) \/ StaleAbsent(c)
  BY <1>13, CommandStays DEF AwaitContained, StaleAbsent, StillThere, AnchorExists, Closes
<1>14. CASE SettleUnready(c)
  <2>1. CASE ledger' = MarkClean /\ Mine(c) /\ answer[c]
    BY <1>14, <2>1, AnchorIsGivenUp DEF SettleUnready, Mine, AnchorInv, GoneInv
  <2>2. CASE ledger' = ledger \/ (ledger' = MarkUncertain(ledger) /\ RequiresRecovery(ledger))
    BY <1>14, <2>2, CommandStays, MarksKeepOwner DEF SettleUnready, Closes
  <2> QED
    BY <1>14, <2>1, <2>2
       DEF SettleUnready, MayMarkUncertain, RequireAttempt, RequiresRecovery, ActiveState
<1>15. CASE ContainStale(c) \/ ContainStaleFails(c)
  <2>1. Closes(c)
    <3>1. CASE ContainStale(c)
      BY <3>1 DEF ContainStale, Closes
    <3>2. CASE ContainStaleFails(c)
      BY <3>2, ClosingCloses DEF ContainStaleFails
    <3> QED BY <1>15, <3>1, <3>2
  <2>2. ledger' = ledger \/ (Mine(c) /\ ledger' = MarkStopping(ledger))
    BY <1>15 DEF ContainStale, ContainStaleFails
  <2>3. SameOwner(ledger)
    BY <1>15, <1>m, <2>2, MarksKeepOwner DEF ContainStale, ContainStaleFails, Bootstrapping
  <2> QED
    BY <1>15, <2>1, <2>3, CommandStays DEF ContainStale, ContainStaleFails, CloseAnchor
<1>16. CASE SettleStale(c)
  <2>1. CASE Mine(c)
    BY <1>16, <2>1, AnchorIsGivenUp DEF SettleStale, Mine, AnchorInv, GoneInv
  <2>2. CASE ~Mine(c)
    BY <1>16, <2>2, CommandStays DEF SettleStale, Closes
  <2> QED BY <2>1, <2>2
<1>17. CASE UnlinkReady(c) \/ AlreadyRunning(c) \/ EndedWithoutResident(c)
  BY <1>17, CommandStays DEF UnlinkReady, AlreadyRunning, EndedWithoutResident, Closes
<1>18. CASE ExistingAmbiguous(c) \/ FenceAttempt(c)
  BY <1>18, CommandStays DEF ExistingAmbiguous, FenceAttempt, Closes
<1>19. CASE ShutdownStep(c)
  BY <1>19, CommandStays
     DEF ShutdownStep, RequestShutdown, ShutdownRefused, AwaitGraceful, HardStop, AwaitHard, Doom,
         Closes
<1>20. CASE RecoverClean(c) \/ RecoverRefused(c)
  BY <1>20, CommandStays DEF RecoverClean, RecoverRefused, CommitStopped, Unresolved, Closes
<1>21. CASE TerminateRecorded(c) \/ RecoveryFails(c)
  BY <1>21, CommandStays DEF TerminateRecorded, RecoveryFails, Doom, Closes
<1>22. CASE CommitRecovery(c)
  <2>1. CASE RequiresRecovery(ledger)
    BY <1>22, <2>1, AnchorIsGivenUp
       DEF CommitRecovery, CommitStopped, RecordedAbsent, AnchorAbsent
  <2>2. CASE ~RequiresRecovery(ledger)
    BY <1>22, <2>2, CommandStays DEF CommitRecovery, CommitStopped, Closes
  <2> QED BY <2>1, <2>2
<1>23. CASE CommandDies(c)
  <2>1. Closes(c)
    BY <1>23, ClosingCloses DEF CommandDies
  <2> QED
    BY <1>23, <2>1, CommandStays DEF CommandDies
<1> QED
  BY <1>1, <1>2, <1>3, <1>4, <1>5, <1>6, <1>7, <1>8, <1>9, <1>10, <1>11, <1>12, <1>13, <1>14,
     <1>15, <1>16, <1>17, <1>18, <1>19, <1>20, <1>21, <1>22, <1>23
     DEF CommandStep, EnsureStep, RecoverStep

-----------------------------------------------------------------------------
(* The refinement                                                          *)

Known == TypeOK /\ Named /\ MutexInv /\ ReadyInv

OwnerInv == ChildInv /\ AnchorInv

LEMMA Shapes == TypeOK => Shape
BY DEF TypeOK, Shape

LEMMA NothingMoves ==
  ASSUME OwnerInv, UNCHANGED vars PROVE OwnerInv' /\ AnchorStep /\ ChildStep
<1>. USE DEF vars, authority, os, residents, memory, locals
<1>1. ChildInv'
  BY DEF OwnerInv, ChildInv, Running, Owned
<1>2. AnchorInv'
  BY DEF OwnerInv, AnchorInv, NamedInv, FreshInv, SpawnInv, GoneInv, Settling, AnchorExists,
         Live, Members, Running
<1>3. LiveAnchors' = LiveAnchors /\ LiveChildren' = LiveChildren
  BY DEF LiveAnchors, LiveChildren, Live, Members, Running
<1>4. AnchorStep /\ ChildStep
  BY <1>3 DEF AnchorStep, ChildStep, Allowed, Fades, NamedOwner
<1> QED BY <1>1, <1>2, <1>4 DEF OwnerInv

LEMMA EveryStep ==
  ASSUME Known, OwnerInv, [Next]_vars PROVE OwnerInv' /\ AnchorStep /\ ChildStep
<1>0. Shape /\ setting \in Settings /\ ledger.attempt <= used
  BY Shapes DEF Known, TypeOK, ReadyInv
<1>1. ASSUME NEW a \in Attempt, Resident(a) \/ ResidentDies(a) \/ Kill(a) \/ ChildExits(a)
      PROVE  OwnerInv' /\ AnchorStep /\ ChildStep
  BY <1>0, <1>1, ResidentKeepsAnchor, ResidentKeepsChild DEF OwnerInv
<1>2. ASSUME NEW c \in Control, Publish(c) \/ Invoke(c) \/ CommandStep(c) \/ CommandDies(c)
      PROVE  OwnerInv' /\ AnchorStep /\ ChildStep
  BY <1>0, <1>2, CommandKeepsAnchor, CommandKeepsChild DEF OwnerInv, Known
<1> QED BY <1>1, <1>2, NothingMoves DEF Next

(* Each of the two ledgers implements the abstract ownership: what it      *)
(* names is taken while nothing lives, lives under it, and is given up     *)
(* only when nothing lives any more, whoever dies in between               *)
(* (control.py:170-354, 436-495; recovery.py:59-147).                      *)
THEOREM Refinement == Spec => OwnsWhatLives
<1>1. Init => OwnerInv /\ AnchorOwner!Init /\ ChildOwner!Init
  <2>1. Init => ChildInv
    BY DEF Init, ChildInv
  <2>2. Init => AnchorInv
    BY DEF Init, AnchorInv, NamedInv, FreshInv, SpawnInv, GoneInv, Settling, Live, Members, Running,
           Gone, CleanDocument, NoAttempt
  <2>3. Init => AnchorOwner!Init /\ ChildOwner!Init
    BY DEF Init, AnchorOwner!Init, ChildOwner!Init, NamedOwner, LiveAnchors, LiveChildren, Live,
           Members, Running, Gone, RequiresRecovery, CleanDocument
  <2> QED BY <2>1, <2>2, <2>3 DEF OwnerInv
<1>2. Known /\ OwnerInv /\ [Next]_vars =>
        /\ OwnerInv'
        /\ [AnchorOwner!Next]_<<NamedOwner(ledger), LiveAnchors>>
        /\ [ChildOwner!Next]_<<NamedOwner(child), LiveChildren>>
  <2>1. OwnerInv => LiveAnchors \subseteq {NamedOwner(ledger)} /\ LiveAnchors \subseteq Attempt
    BY DEF OwnerInv, AnchorInv, NamedInv, LiveAnchors, NamedOwner
  <2>2. Known /\ OwnerInv =>
          LiveChildren \subseteq {NamedOwner(child)} /\ LiveChildren \subseteq Attempt
    BY DEF Known, TypeOK, OwnerInv, ChildInv, LiveChildren, NamedOwner, Owned
  <2> QED BY <2>1, <2>2, EveryStep, AnchorStepImplements, ChildStepImplements
<1>3. Spec => []Known
  BY TypeInvariant, MutexInvariant, ReadyInvariant, PTL DEF Known
<1> QED
  BY <1>1, <1>2, <1>3, PTL DEF Spec, OwnsWhatLives, AnchorOwner!Spec, ChildOwner!Spec
=============================================================================
