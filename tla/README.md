# Process supervisor: specifications, model checking and proofs

These modules specify the engine of `src/src/py_laravel_supervisor/`: a supervisor
for the long-lived, queue and scheduler processes of a Laravel installation on
Windows. Paths below are relative to that directory, documents are those of
`src/z-docs/`.

The promise the engine makes is about *ownership*: every managed process is in a
Job Object and is named by a durable ledger written before the process exists;
nobody starts a second one while the first may live; a crash at any point leaves
enough behind for recovery to find out what may be alive; and what cannot be
settled becomes `uncertain` and waits for recovery instead of being called clean.
Most of the code, and most of these modules, is about keeping that promise while
commands, the resident, its children and the operating system take their steps in
any order and fail between any two of them.

## 1. Inventory

### Components

| component | source | state it keeps | operations |
|---|---|---|---|
| lifecycle ledger | `lifecycle.py` | one JSON document per owner: state, attempt, revision, ownership id | arm, mark active / stopping / uncertain / clean, initialize |
| child slot | `slot.py` | process and Job handle, attempt id, stop deadline, crashes in the window, fatal, next spawn time, reader threads | spawn, request_stop, tick, force_stop, finish, replace_group |
| resident | `resident.py` | the slots, singleton mutex, Anchor handle, shutting_down | attach, activate, snapshot, reconcile, drain, clean shutdown, fail closed |
| control | `control.py` | nothing between commands; the attempt it drew within one | apply_desired, disable_gate, ensure_running, shutdown, recover, status |
| recovery | `recovery.py`, `recovery_authority.py` | the ownership it read first | terminate what is recorded, wait, re-read, repair or salvage, commit |
| runtime files | `runtime_files.py` | desired state, gate, ledgers, manifest, claims, ready, shutdown; a backup of the authoritative ones | write (primary, then backup), create exclusively, restore, clear |
| locks | `locks.py` | named mutexes `transition`, `resident`, `recovery` | acquire with timeout, probe |
| Windows backend | `windows.py`, `backend.py` | Jobs, processes, handles | create/open/terminate Job, spawn suspended and assign, poll, wait |
| scheduler trigger | `scheduler.py` | the claim file: one generation and minute | due_minute, claim, the five cron fields |
| queue protocol | `queue_protocol.py` | frames of one run | consume_line, completion |
| channels | `duplex.py`, `framed_channel.py` | two bounded queues, three threads, a failure event, two locks | exchange, write, read, assert_usable, assert_idle, close |
| MCP container | `mcp_docker.py` | one container or volume in somebody else's engine, the attached CLI | spawn, prepare_state, terminate_tree, close |
| MCP exchange | the other `mcp_*.py` | one launch of a frozen plan | start, relay, prove the state |
| manifest, names, commands, status, events, redaction, command line, detached launch | the remaining files | none that decides anything | parse, format, publish |

`PROJECT.json` lists every source file under its component, with what is modelled
of it.

### How they interact

* **Commands and the resident** share no memory. They meet in the durable
  documents and in named mutexes. Every write to a ledger, to the gate and to the
  desired state is made under the *transition* mutex, held for one short section.
  Some reads, the removal of `ready.json`, the creation of missing documents and
  the start of every process are made *without* it.
* **ensure_running** probes the *resident* mutex, arms the resident ledger, creates
  the Anchor Job, starts the resident suspended in it, confirms under the
  transition mutex that nothing newer was published meanwhile, lets it run, and
  waits for `ready.json`.
* **The resident** attaches to the Anchor, takes the resident mutex, activates its
  ledger and loops: read desired state and gate, tick the slots, reconcile. A
  closed gate, a disabled state or a shutdown request turns the loop into a drain;
  any exception leads to `_fail_closed`.
* **A slot** starts a child with the same write-ahead protocol, one level down: Job,
  ledger, process, second look at the published state, confirmation.
* **Recovery** holds the *recovery* mutex throughout, and works in two sections under
  the transition mutex with a wait between them in which it holds only the former.
* **The operating system** kills the members of a Job when it is terminated or when
  its last handle closes, some time later.
* **Reader threads** of a slot take the lines of the child, hand those of a queue
  worker to the classifier, and leave flags for the resident thread, which joins them
  for two seconds at the end.
* **A channel** has a thread per pipe; its callers meet the threads in two bounded
  queues and in an event that means failure, and each other in two locks.
* **The MCP container** is reached only through runs of the Docker CLI, whose engine
  may be exchanged and whose other users may do anything to it in between.

### What is hard

1. Steps of a command, of the resident and of recovery interleave, and state read in
   one section is used in the next (`control.py:226-263`, `slot.py:150-171`,
   `recovery.py:95-119`).
2. Any process may die between any two steps, and a slot, a resident or a recovery
   that starts afterwards has only the documents to go by.
3. One step of several fails: a ledger that cannot be written after the process
   runs, a reader thread that cannot be started, a Job that does not become empty.
4. Ends race with ends: stop deadline, watchdog, exit of the root, descendants that
   survive it, forced stop.
5. A document is two files. A writer dies between them, one is damaged later, and
   the other is all that says what lives.
6. Everything that was started has to end, although each participant waits for
   another.
7. What the output of a process says is taken apart by threads that may outlive the
   process, and decides whether its end counts as a crash.
8. A command to the engine that fails, or is late, may have had its effect all the
   same, or may have it later.

`PROJECT.json` lists the hazards line by line under `hazards`, each with the
properties that would catch it or the reason why none does yet.

### What makes each part correct

* Ledger and slot: a live process is named by the ledger and held in a Job; the
  ledger is cleaned only when the Job is empty; nothing unresolved is resumed;
  a stop that was asked for is never lost, and is carried out.
* Commands and resident: one live Anchor at a time, always named; recovery runs
  alone; every command returns; a closed gate ends everything.
* Durable authority: what recovery reads always names what lives, or cannot be read
  and is refused; a repair ends in valid authority wherever an earlier one died.
* Rounds of a slot: a minute is run once, and only on its claim; an expression means
  what its fields say; the verdict on a worker is the one its own output deserves; the
  slot gives up exactly when the crashes of a window are spent; the status it shows
  tells how its last process ended.
* Channels: frames come in order or not at all, an answer is that to its own request,
  idle means that everything was read, a closed channel has nothing left, every call
  returns, and a channel that has failed is closed in the end.
* MCP container: whoever is told to try again finds nothing made and nothing under way;
  the local CLI goes only after the container; the container is sent one stop.

## 2. Modules

| module | models | uses |
|---|---|---|
| `Lifecycle` | the ledger document and its transitions, as operators | |
| `Ownership` | the abstract promise: acquire, start, die, release | |
| `Slot` | one slot, the resident loop around it, the system below, control and recovery as environment | `Lifecycle`, instance of `Ownership` |
| `Supervisor` | commands, residents and recovery over the shared authority | `Lifecycle`, two instances of `Ownership` |
| `Authority` | the same authority file by file, recovery and salvage at that grain | |
| `Cron` | the five fields of an expression, as functions | |
| `QueueProtocol` | the lines of a queue worker and the verdict on them, as functions | |
| `Rounds` | the rounds of one slot: time, minutes, claims, readers, verdicts, restarts | `Cron`, `QueueProtocol` |
| `Channel` | both classes of channel: threads, queues, deadlines, close | |
| `Docker` | one container or volume of the MCP runtime and its owner | |
| `SlotProofs`, `SupervisorProofs`, `AuthorityProofs`, `RoundsProofs`, `ChannelProofs`, `DockerProofs` | theorems about the module they are named after | that module, `TLAPS` |
| `SupervisorRefinement` | the theorem that `Supervisor` implements `Ownership` | `SupervisorProofs` |
| `ChannelAnswers` | the theorems about idle channels and about whose answer a request gets | `ChannelProofs` |
| `MCSlot`, `MCSupervisor`, `MCRounds`, `MCChannel` | values of the constants for TLC | |

`Slot` has the whole life of one child and takes control and recovery for single
steps; `Supervisor` has every step of the commands and takes the child for a ledger
and a process; `Authority` has every file and takes the commands for the documents
they write; `Rounds` has the same slot as `Slot`, seen from its clock and its output,
and takes the process for something that is there until it has ended. What one module
abstracts another one refines, and the boundary is the same in all of them: a section
under the transition mutex is one step in `Slot` and `Supervisor`, and a sequence of
file replacements in `Authority`. `Channel` and `Docker` stand for themselves: the MCP
runtime shares no state with the supervisor.

### Ownership

An attempt *acquires* the ownership when nobody has it, may *start* while it has it
and nothing is alive, what is alive may *die* at any time, and the ownership is
*released* only when nothing is alive. `Slot`, and the resident and the child of
`Supervisor`, implement it: `owner` is the attempt an unresolved ledger names,
`alive` the attempts with a process that nothing has begun to kill.

A process that is being killed does not count as alive: Windows completes the
termination by itself, and the code, too, treats an accepted `TerminateJobObject`,
or the closing of the last handle, as the point of no return, *unless* it goes on to
clean the ledger: there it asks the Job (`CleanedOnlyWhenEmpty`).

### Slot

| state | code |
|---|---|
| `desired`, `gate`, `ledger` | `desired-state.json`, `spawn-gate.json`, the ledger of the slot |
| `handles`, `procs`, `doomed` | Job handles of the resident, members of each Job, Jobs being killed |
| `pc`, `seen`, `shutting`, `failing` | the resident thread, its snapshot, `shutting_down`, inside `_fail_closed` |
| `proc`, `job`, `attempt`, `stopping`, `due`, `overrun`, `err` | fields of `ManagedSlot`; a deadline is a flag that time raises |
| `fatal`, `crashes`, `backoff`, `exists`, `generation` | restart state, presence in `resident.slots`, `group.generation` |
| `used`, `armed`, `quiet` | locals of `spawn` |

`pc` goes through `top` (`run`), `tick`/`poll` (`tick`), `finish`/`contain`/`clean`
(`_finish`, at its three waits), `drain` or `reconcile`/`launch` (`_reconcile`),
`arm`/`start`/`confirm`/`readers` (`spawn`), `abort`/`unwind` (its except clause) and
`fail`/`await`/`fence`/`exit` (`_fail_closed` and the finally clause). Each action has
the name of the place or of the function it models; the `...Fails` actions are the
error paths, which draw on the stock of faults where the cause is outside the model.
`ResidentDies` may strike at every place. `Fork` and `MemberExits` are the child.
`ApplyEnabled`, `ApplyDisabled`, `DisableGate` and `Recover` happen at any time.

### Supervisor

| state | code |
|---|---|
| `desired`, `gate`, `ledger`, `child`, `ready`, `request` | the shared documents; `child` is the ledger of the one child slot |
| `mutex`, `holders`, `kids`, `doomed` | resident mutex, handles of each Anchor, live children, Anchors being killed |
| `rpc`, `rrev` | for each resident attempt: its place in `run`, the revision it read last |
| `cpc`, `target`, `crev`, `answer` | for each control process: its place, the attempt and revision it holds, the answer to its last question |
| `snapshot` | both ledgers as recovery read them in its first section |

An attempt id stands for the identity drawn by one `ensure_running`. Control
processes run any sequence of the commands they are asked for, one step of the code
under one lock, or one call to the system, at a time. Which commands, and how many
attempts and revisions there may be, is fixed for a behaviour by its `setting`, so that
one run asks several questions. The probe of the
resident mutex is two steps (`Probe`, `ProbeDone`), because it *acquires* the mutex.
`ensure_running` has its whole body: the three outcomes of the probe, arming,
spawning, confirming, being superseded, the readiness wait and its timeout, stale
bootstraps, the wait for an existing resident, with the order in which handles are
closed, absence is awaited, ledgers are settled and the gate is fenced.

### Authority

`file` maps each copy (primary or backup, per document) to what a reader makes of it:
missing, corrupt, of another installation, or a valid document. The holder of the
transition mutex has a queue of replacements to make (`writes`), one file at a time,
each of which may be the last one it makes. A command that creates a missing document
has a queue of its own (`fresh`), as that part of the code holds no lock. `Selected`,
`OwnershipUnreadable`, `PlanRefused` and `MustSalvage` are `lifecycle_ownership_locked`,
`assert_recovery_gate_locked` and `_plan`; `ClearNext`, `ClearStray`, `CreateClean` the
salvage, in its order; `CommitRecovery` what `_recover_serialized` writes in the end.

### Rounds

| state | code |
|---|---|
| `wanted`, `minute`, `claim` | the group's generation in `desired-state.json`, the wall clock, the claim file |
| `output`, `code` | lines of each process no reader has taken yet, its exit code |
| `place`, `due` | where `_reconcile` is, the minute `due_minute` returned |
| `generation`, `process`, `stopping`, `fatal`, `crashes`, `delay`, `recycling` | fields of `ManagedSlot`; timestamps are ages and remaining delays |
| `runtimeError`, `protocolError`, `classifier`, `frames` | the flags and the classifier the readers write to |
| `reader`, `held` | the stdout reader of each attempt, and the classifier it fetched for the line in its hand |
| `used`, `runs`, `written`, `failures`, `verdict`, ... | history: what the properties compare with |

`FindDue` and `ClaimMinute` are `due_minute` and `claim` of the trigger with a death
possible between them and `Spawn`; `Fetch` and `Observe` are the two halves of
`_observe_protocol`; `Finish` is `_finish` from the exit code to `_record_crash` or the
healthy delay; `Tick` is the monotonic clock, `WallClock` the other one.

### Channel

| state | code |
|---|---|
| `root`, `helper`, `killed`, `stdin`, `stdout`, `owed` | the child, a descendant, its Job, its pipes |
| `out`, `chunk`, `pending`, `err`, `in`, `writing` | the reader of stdout and its buffer, the stderr reader, the writer |
| `frames`, `writes`, `failed`, `closed`, `done` | `_frames`, `_writes`, `_failed`, `_closed`, the event of each request |
| `io`, `closing` | holders of `_io_lock` and `_close_lock` |
| `op`, `pc`, `request`, `expired`, `kept` | of each caller: operation, place, request, whether its deadline has passed, the frame it is about to return |

The actions of a caller are the turns of its loops: `Check`, `IdleCheck`, `Submit`,
`AwaitDone`, `Recheck`, `Get`, `Got`; those of `close` are `Lock`, `Kill`, `Wait`, `Join`,
`Quiet`.

### Docker

| state | code |
|---|---|
| `engine`, `object`, `inflight` | the engine behind the endpoint, the container or volume in it, effects that may still come |
| `pc`, `call`, `result` | the command that is next, the operation of the owner, what the last call returned or raised |
| `cli`, `owned`, `containerStopped`, `localClosed`, `recovery` | the attached process and the fields of `DockerOwnedProcess` |
| `made`, `stops`, `revived` | history |

Every command is an action, with `Ask` and `After` for those that only read; `Wrong` sorts
an unexpected answer into the three kinds of error the code distinguishes.
`LateEffect`, `Switch`, `Exits` and `Meddle` are the engine and its other users.

## 3. What is checked

Every run finishes within five minutes on two workers, most within one or two.

| run | instance | properties | shows |
|---|---|---|---|
| `SlotSafety` | 2 attempts, revisions 0-2, 2 generations, 2 faults, service | `TypeOK` `WriteAhead` `Contained` `NoHandleLeak` `StopsAreKept` `CleanedOnlyWhenEmpty` `OwnsWhatLives` | the safety of one slot, that no stop of its child is lost, and that it implements `Ownership` |
| `SlotLiveness` | 2 attempts, 1 revision, 2 faults, scheduler (with a watchdog), fair | `StopCompletes` `ClosedGateStopsAll` `LoopReturns` | stops are carried out though children hang and fork, and the loop never wedges |
| `SupervisorSafety` | 2 control processes with all commands but shutdown, 2 attempts, 1 fault, symmetric | `TypeOK` `ReadyNamesActivated` `RecoveryAlone` `OwnsWhatLives` | concurrent bootstraps and recoveries never lose or share an ownership |
| `SupervisorStop` | two settings, 1 fault, fair: one process bootstraps while another applies and shuts down (1 attempt, 2 revisions); one process with all commands (2 attempts, 1 revision) | `ClosedGateStopsResident` `CommandsReturn` `OwnsWhatLives` | a bootstrap that is overtaken, both forms of shutdown, and that everything ends once the gate stays closed, also across a second attempt and recovery |
| `AuthoritySafety` | 2 attempts, 2 damaged files and 2 faults, but 3 of all together | `TypeOK` `EvidenceKept` `NothingLivesAfterRecovery` `NoStartUnderRepair` `RepairSuffices` | one lost file and one death never hide what lives; with both copies lost recovery refuses rather than guesses |
| `RoundsSafety` | the groups of `MCRounds`: six expressions, a claimer, four conversations, two workers in a row, two services, a poller | `TypeOK` `MinuteRunsOnce` `StartsOnItsClaim` `RunsWhenWritten` `VerdictDeserved` `GivesUpWhenSpent` `StatusTellsTheEnd` | when the next process starts, what its output is taken for, and what follows from its end |
| `ChannelFair` | seven channels of `MCChannel`, a queue of 1, up to 3 calls and 3 frames, fair | `TypeOK` `InOrder` `AnswersItsRequest` `IdleMeansRead` `ClosedMeansQuiet` `CallsReturn` `FailedThenClosed` | callers that compete with a closing thread, closes that fail half way, and children that are late, silent, noisy or flooding |
| `DockerSafety` | container and volume, 2 calls, 2 failing commands, 2 changes of engine, 2 interferences | `TypeOK` `RetryIsSafe` `ContainerFirst` `StopsOnce` | every error path of creating, attaching, stopping and closing |
| `SlotClosedHandle`, `SupervisorProbeRace`, `AuthorityStaleBackup`, `RoundsLateReader` | small | one each | the disagreements of section 5 |

Every property is stated in its module after a comment that says what it means and
which lines it is about. For each property of a passing run `PROJECT.json` names a
mutant: a plausible slip in the code (a write-ahead record without its name, an exit
of the root taken for quiescence, a fence not asked, a wait without a deadline, a
clean-up out of order) under which TLC finds the property violated. The mutated
operators stand beside the originals in the modules.

### Bounds

* *Attempts.* Two let an old attempt meet a new one: stale ledgers, backups, ready
  files and handles. `Rounds` has up to five where crashes add up.
* *Revisions.* Two published revisions and the initial one let a state be read,
  overtaken, and overtaken by a disabled one. With revision 1 alone a state and its
  successor are still distinct (0 and 1); the first setting of `SupervisorStop` has two
  because being superseded *and* disabled takes both.
* *Faults.* One or two busy mutexes, I/O errors or crashes, at any place. Crashes of
  a resident and of a command draw on the same stock. The error paths are short and
  return to a state the model reaches without faults, or to one that is `uncertain`,
  where nothing goes on without recovery.
* *Generations, crashes.* Two generations of one group; a restart budget of two or
  three, so that a failed spawn may lead to backoff and to fatal.
* *Damage* (`Authority`). A document is two files; with both lost there is no evidence
  left, and `EvidenceKept` then says that recovery knows it. `MaxTrouble` bounds attempts,
  damaged files and faults together; what can go wrong takes an attempt, a writer that
  dies between its two files and a damaged one, or an attempt and two damaged files. For
  more of each there are the proofs.
* *Calendar* (`Rounds`). Four minutes of the wall clock: a local minute that comes
  twice, as when summer time ends, a Sunday, a Monday, and a first of the month. The
  six expressions use every form of a field. Delays and the crash window are a few
  ticks of the monotonic clock; what has left the window is not told apart further, so
  that the model is finite.
* *Conversations* (`Rounds`). Up to three lines: enough for a start, an end and one
  line too many, of the same job or another.
* *Queue of one, three calls* (`Channel`). With 1 for 16, a second frame finds the queue
  full, and a third call can meet the answer to the first. As calls of two threads
  exclude each other by `_io_lock`, one thread makes them and the same or another one
  closes. Of the steps of a close, one in a channel may fail.
* *Engine* (`Docker`). It may go away and come back as another one, so that a command
  can be answered by either, or by none.
* *Symmetry* is used in `SupervisorSafety` only, over two control processes with the
  same commands, where no temporal property is checked that is not a step property.
* *`LateInitialization`* (`Authority`). Missing documents are created without a lock.
  The passing run lets that happen as one uninterrupted sequence and rules out that
  another command overtakes it; `AuthorityStaleBackup` shows what happens when one
  does.
* *Deadlock* is checked in `Slot` and `Supervisor`. It is not in `Authority`, where a
  document of another installation makes every command and recovery refuse, for
  ever, by design; nor in `Rounds`, `Channel` and `Docker`, which come to an end when the
  slot has given up or the processes and calls of the instance are used up, and when
  the channel or the owner is closed.

### Fairness

`Slot`: weak fairness of the resident thread (an ordinary thread that sleeps a bounded
time each round and has timeouts on every wait), of the clock reaching a deadline or
the end of a backoff, and of the system completing a termination. No fairness for the
child (it may hang), for forks, faults, `apply`, `disable` or `recover`.
`Supervisor`: weak fairness of each started resident and of each step of a command
that has begun, of terminations, and of the exit of a child that was asked to stop,
which is what `Slot` shows of it (`StopCompletes`). Nobody has to run a command.
`Channel`: weak fairness of the three threads and of every call that can go on, of
deadlines, of the end of a Job that was terminated, and of a host that closes a channel
that has failed, again and again: `06-owned-mcp-frames.md` leaves that to the host.
Nothing is expected of the child. `Rounds`, `Docker` and `Authority` have safety
properties only and no fairness.

## 4. What is proved

Every theorem holds for all values of the constants that satisfy the assumption of its
module: naturals for the bounds, a crash budget of at least one, kinds and commands the
code knows, a queue that holds something. No theorem assumes that an instance is
small, and none that faults are rare.

`SlotProofs`, from `SlotAssumption`:

* `Invariance`: `Spec => []IInv`. `WriteAhead` is not inductive: that the ledger names
  whatever starts rests on what `spawn` and `_finish` have established before. `IInv`
  is `TypeOK`, `Contained`, `WriteAhead` and, place by place, `SpawnInv` (ids above
  `used` have no Job, no process and no handle; the attempt about to be started is
  named by the ledger and its Job is empty; after an abort its Job is being killed)
  and `FinishInv` (an active slot has an attempt; its handle is that of its attempt;
  at the clean transition the Job is empty). `ValuesStep`, `FlagsStep`, `PlaceStep`
  and `OwnStep` prove the conjuncts, one step per action.
* `TypeCorrect`, `WriteAheadHolds`, `ContainedHolds` follow.
* `Refinement`: `Spec => OwnsWhatLives`. `KindStep` sorts every action into one of four
  kinds (nothing alive appears and the owner stays; an empty ledger is armed; a
  process starts under the attempt named; nothing is alive and the ledger is
  cleaned), and `KindSimulates` shows that each is a step of `Ownership` or a stutter.
* `NoHandleLeaks`, from `HandleInv`: which Jobs the resident holds at every place it
  comes by on its way back to the loop.
* `KeepsItsStops`, from `StopInv`: besides the property itself, that a resident which
  shuts down launches nothing more, so that whoever it has asked is all there is.
  `RequestStopKeeps` has the three outcomes of a stop (asked before, written down,
  failed and noted), `StopStep` the actions, of which the confirmation of a spawn that was
  overtaken and the first round of a shutdown are the ones that could lose a stop.
* `CleansWhatIsEmpty`: `LedgerStep` names the four actions that may clean a ledger; it needs `QuietInv`, that a Job found empty in an abort stays empty until the ledger is
  settled.

`SupervisorProofs`, from `SupervisorAssumption`:

* `TypeCorrect`. `TypeOK` needs `Named`: a command that is bootstrapping has a target; and
  `Written`, what `TypeOK` says of every document a step writes.
* `ReadySpeaksTruly`, from `ReadyInv`: neither `ready.json`, nor the ledger, nor a command
  names an attempt that was not drawn, and a resident that serves is not armed any more.
* `RecoveryIsAlone`, from `MutexInv`: the places of a resident and of a command at which it
  holds the resident mutex.

`SupervisorRefinement`, from the same assumption and the invariants above: `Refinement`,
`Spec => OwnsWhatLives`, for the ledger of the resident and for that of the child.

* The invariant. `ChildInv`: a child whose resident is gone is being killed, any other is
  named by its ledger, and is not there yet while it is launched. `AnchorInv`: whatever
  lives is named by the resident ledger and somebody holds its Anchor (`NamedInv`); an
  attempt that was not drawn has no process (`FreshInv`); a command about to spawn is alone
  with the attempt the ledger names and holds its Anchor, so that nobody can settle that
  ledger meanwhile (`SpawnInv`); a command about to settle a ledger for good has seen that
  the Anchor is gone, and no Anchor comes back, because no step takes a handle of an
  Anchor nobody holds, except the one that draws a new attempt (`GoneInv`).
* The steps. `Allowed` is what a step may do to an owner and to what lives: it fades, it is
  taken, it runs, it is given up. `ChildStays`, `CommandStays` and `ResidentStays` deal with the
  many steps that only let something fade; `AnchorIsTaken`, `AnchorComesAlive`,
  `AnchorIsGivenUp` and `ChildIsGivenUp` with the few others, and that a recovery commits
  while no resident launches a child comes from `MutexInv`. `AnchorStepImplements` and
  `ChildStepImplements` turn what is allowed into steps of `Ownership`.

`RoundsProofs`, from `RoundsAssumption`: every property `RoundsSafety` checks.

* `MinuteOnce` and `StartClaimed`. The runs they speak of are kept apart by the claim, which is
  all a new resident finds of the earlier ones. `ClaimInv` says that, as long as the clock is not
  set back, no run is ahead of the claim, the claim is not ahead of the clock and the group, and
  a minute about to be run has not been; `ClaimedInv` that between claim and process the claim
  is that of the process; `ClockInv` is what both need of the types.
* `RunsAsWritten`. `SaysWhatIsListed` compares the numbers `_parse_field` lists with what a field
  says (`Multiples` has the arithmetic of the steps), `MatchesAsWritten` the case distinctions of
  `matches` with what an expression says, `DueInvariant` carries the minute to the process. Its
  hypothesis `StarsMeanAll`, that the day fields with a star are those that restrict nothing, is
  the one under which the code is right (section 5); TLC evaluates it for the expressions of
  `MCRounds`.
* `VerdictIsDeserved`. What the property compares, the verdict and the lines of a process, are far
  apart: between them are the pipe, the line in the hand of the reader and the frames.
  `AloneInv` relates them at every step: the frames are what the lines that were taken amount
  to (`Heard`), or there is a protocol error and no continuation of these lines is a job any
  more (`Hopeless`, `WrongForGood`), and the reader is done only when no line is left.
  `HearsNext` is the induction step over the lines, `JudgedAsHeard` the verdict.
* `GivesUpOnTime`. `Counted` relates the list the slot keeps to the list of all failures: it is
  the end of it, in the order of time, and whatever was dropped is out of the window, so that
  its length is the number of failures within it (`WindowDrops`, `CountsRecent`).
* `StatusTruly`, from `WaitInv`: a slot waits or has given up only between two processes, and why
  is in the last verdict. `TypeCorrect`, from `Shape`, in which the lines left in a pipe are the
  last ones written.

`ChannelProofs`, from `ChannelAssumption`: `ClosedIsQuiet`, `TypeCorrect` and `DeliversInOrder`.

* `CloseInv` says what each step of `close` has established, and that nothing undoes it: no
  process is born in a terminated Job, no thread that has ended starts again.
* As long as nothing was lost, the queue goes on where the callers are, the chunk of the reader
  where the queue ends and the pipe where the chunk ends (`Orderly`). A frame that finds the
  queue full is lost, and the ones behind it may find room again; the channel has failed then,
  and nobody asks for a frame who has not looked before (`Spoilt`). There is at most one who has
  (`LockInv`), he finds a queue that is not empty, and its first frame is still the right one.
  So it matters that `_put` leaves a full queue as it is.

`ChannelAnswers`, from the same assumption and the invariants above.

* `IdleIsRead`. `assert_idle` looks twice, at the queue and at what reader and pipe hold, and both
  go on in between. `IdleInv` says that a caller at the second look finds that everything was
  passed on without loss, or sees that it was not; `OwedInv` that an answer once begun can be
  seen until it is complete.
* `AnswersBelong`. An answer carries no number of its request. It belongs to the caller because
  nothing is under way when he puts his request (`Settled`), and because whoever leaves
  something behind closes the channel to the others (`AnswerInv`).

`DockerProofs`, from `DockerAssumption`: `TypeCorrect`, `RetrySafe`, `ContainerGoesFirst` and
`StoppedOnce`. `AttemptInv` says what there is to be found at each command of an attempt
(nothing made and nothing under way before the creation; at most one object at all),
`OwnerInv` what the owner knows when it reaches the local process, `StartInv` that no
start is on its way by then, `StopInv` at which places no stop has been sent yet.

`AuthorityProofs`, from `BoundsAssumption`: every property `AuthoritySafety` checks. All but
`TypeCorrect` have the hypothesis `~LateInitialization`, that no command is overtaken while it
creates a document: without it they are false (section 5), and the run has it too.

* A queue of replacements is proved about as the set of what is in it (`Puts`): `PutsOfWrite`,
  `PutsOfTwo` and `PutsInOrder` say what is in the queues the actions put together, `HeadOf`
  what one replacement takes out of them.
* `EvidenceIsKept`. `EvidenceKept` is not inductive: it speaks of processes that run, and says
  nothing of a ledger whose process is about to start, nor of what is still to be written.
  `EvidenceInv` says it of every ledger with a launcher at work, of every copy (it names the
  attempt, is damaged, or will be overwritten before the start), of every replacement in a
  queue, and that no recovery is under way. Each of these needs the others: a recovery has not
  begun because `NamedOrUnreadable` lets it find the attempt, and finds it because no recovery
  has written. `RecoveredMeansStopped` and `NothingStartsUnderRepair` follow at once.
* `RepairIsEnough`. What the next recovery meets is whatever an earlier one has left, and it is
  judged only after its last file. `MendInv` says of a repair under way that there are documents
  with which the authority is valid and resolved, and that every copy holds its own or has it in
  the queue. `RepairMends` shows it for a repair, with what was selected of the two copies,
  `SalvageMends` for a salvage; `MendingLasts` carries it from file to file, and
  `MendedIsRepaired` reads it at the end.

Only model-checked: all liveness, which needs `ENABLED` and fairness and is beyond the
prover. No module that is proved about declares or reaches a recursive operator. The provers
cannot use induction over data, so what a recursive computation yields for every input would
be model-checked; where a theorem needs a first element of a set of numbers, the library's
`WFMin` gives it, and everything that is computed line by line, file by file or crash by crash
is proved along the steps of the specification. The power of two in the delay of a backoff is
unknown to the provers: `Rounds` caps it, and what is proved of the delay is that it is a number.

## 5. Where the code and what is said of it differ

* **A failed spawn keeps a closed process** (`slot.py:187`, run `SlotClosedHandle`). When
  starting the reader threads or publishing the event fails, the except clause closes
  the process but leaves it in `self.process`. If the Job is empty the failure is
  counted, and the next tick polls a closed handle, which raises: the resident fails
  closed instead of backing off as `02-process-lifecycle.md` says.
* **A probe is taken for a resident** (`control.py:187`, run `SupervisorProbeRace`).
  `mutex_is_locked` takes the mutex for a moment; a second `ensure_running` that meets
  it finds a clean ledger, calls the state ambiguous and fences the gate. The test
  `tests/test_resident_stress.py` expects one of the two to start and the other to
  report a running resident.
* **A late backup hides an armed ledger** (`runtime_files.py:303`, run
  `AuthorityStaleBackup`). The backup of a newly created ledger is written without a
  lock and may land on that of an armed one. If the primary is then damaged, recovery
  goes by the clean backup and reports success while the process lives.
* **A late reader spoils the next worker** (`slot.py:329`, run `RoundsLateReader`). A reader
  fetches `self.classifier` when a line arrives. One that outlived its two-second join
  hands the line of an earlier worker to the classifier of the next, whose own frames
  are then rejected, and whose success is counted as a crash, against
  `02-process-lifecycle.md:63` ("A healthy exit is not a crash") and `:77`, which speak of
  queue workers. `VerdictDeserved` holds for every worker beside which no such
  reader was at work.

Seen while modelling and not given a run of their own:

* Disable and enable bypass recovery (`control.py:104`). A disabled payload replaces
  `recovery_required` by `disabled`; the next enabled payload opens the gate though the
  resident ledger is `uncertain`. Ownership is not lost by it: `ensure_running` arms
  nothing before it has contained what the ledger names (`control.py:436-495`), but the
  demand for a recovery is gone.
* A salvage that dies can be undone (`runtime_files.py:389`). Primaries are removed before
  backups. What is left after a death in between is valid backups without primaries,
  which the next recovery restores, the desired state included, against
  `03-recovery-and-safety.md:95`.
* The unlocked creation of documents may also write a disabled gate over one that was
  enabled meanwhile (`runtime_files.py:111`); the next `apply_desired` repairs it.
* `_finish_clean_shutdown` asks the slots for unresolved ledgers after the drain has
  removed every slot (`resident.py:110`, `300`), so that its refusal cannot happen.
  The child ledger stays unresolved, and the next resident that reaches the slot
  fails closed (`resident.py:210`).
* The sequence diagram of `02-process-lifecycle.md` marks the ledger active before the
  child may execute; the code resumes it first (`windows.py:528`, `slot.py:171`). It is
  named and contained by then, which is what `WriteAhead` and `Contained` are about.
* A day field that begins with a star counts as no restriction even with a step after
  it (`scheduler.py`): `*/2` in the day of the month, together with a day of the week,
  means both. `RunsWhenWritten` is checked for expressions without such a field.
* A minute that was claimed by a resident that died before the start is not run any
  more; the documents say so ("missed minutes are intentionally not backfilled").
  Where the clock is set back, or local time repeats an hour, a minute of the same
  name may run again: the claim is by UTC minute, and only the last one is kept.
* The crashes of a window are kept in memory only: a new resident starts with none.
* `put_nowait` of the stop mark in `close` and the turn of a caller that has just found
  the writer queue empty can meet: `queue.Full` then leaves `exchange` as it is
  (`duplex.py:117`), though the channel is failed and closed all the same.
* Errors of the CLI's streams and of `poll` and `wait` leave `mcp_docker.py` as they are
  (lines 256, 398, 976), and not as `DockerRecoveryRequired` as
  `07-owned-docker-runtime.md:36` has it. They are `raw` in `Docker`.

## 6. What is not modelled, and why

* Validation of manifests, names, command building, redaction, status and events as
  documents, the command line and its seal: pure functions or projections that no
  lifecycle decision reads.
* The detached launch: what it promises its caller is part of `SpawnResident`.
* The Windows API itself: its guarantees, as the callers use them, are the actions
  `Kill`, `CloseJob`, `TerminateExactJob`, `StartProcess` and their counterparts.
* Time in `Slot`, `Supervisor`, `Channel` and `Docker`: a deadline, a watchdog, a backoff
  and a readiness timeout may expire at any moment, which includes every moment of the
  real clock. `Rounds` has the clock, for the crash window and the delays.
* The heartbeat of `ready.json`, the reverb restart signal (never taken for proof of
  exit), and the check of process kinds in `apply_desired` (`control.py:71-79`).
* Several slots at once: a slot shares nothing with another one but the resident
  thread, its failure and the Anchor.
* The entry point of an MCP launch with its pipe, its state proof and its utilities
  (`mcp_exchange.py`, `mcp_pipe.py`, `mcp_state_proof.py`, `mcp_utility.py`): sequential
  input and output around a `Channel` and a `Docker`. In `Docker` itself the text of plans
  and of what the engine prints is a choice of what its validation makes of it.
* Seven hazards have no property, each with its reason in `PROJECT.json`: the gate of the
  unlocked creation (`runtime_files.py:111`), a copy of a ledger deleted from outside
  (`recovery_authority.py:73`), errors of another type (`mcp_docker.py:398`), the other slots
  after one `force_stop` raised (`resident.py:313`), the refusal that never fires
  (`resident.py:300`), the fence that is skipped (`control.py:335`) and the removal of
  somebody else's `ready.json` (`control.py:490`).

Where a definition is coarser than its lines:

* `Supervisor`. The probe of a waiting command (`control.py:519`) is a mere look: unlike
  that of `ensure_running` it does not hold the mutex for a moment; the handles `open_job` and `job_exists` take for a moment do not
  count as holders. `apply_desired` is one step, and so is each section under a lock.
* `Authority`. The number of the attempt stands for the revision of the gate, and `stopping`
  is one of the active modes: recovery asks whether a ledger is resolved, and whom it names.
* `Rounds`. A spawn that is refused or fails leaves a fresh classifier behind, which the model
  takes for none: a late reader may feed it, nobody asks it, and the flags it may raise are
  reset by the next spawn. After a line the classifier rejects, the redaction between them
  (`redaction.py:57-74`) drops the rest of its chunk, while the model goes on line by line; the verdict is unhealthy in both.
* `Channel`. The reader takes all that is in the pipe, the code at most 4096 bytes: a shorter
  chunk is one that was read before the child had written the rest.
* `Docker`. A volume whose name was taken between the look and the creation is an error at once;
  `docker volume create` would succeed, and leave it to the inspection that follows. In the
  model nobody else takes the name.

## 7. Plan

Done, in this order: `Lifecycle`, `Ownership`, `Slot` with its proofs; `Supervisor`;
`Authority`; `Rounds` with `Cron` and `QueueProtocol`; `Channel`; `Docker`; the proofs of the
last four and of `Supervisor`, the refinement of `Ownership` and every safety property of
`Authority`, `Rounds` and `Channel` among them.

Left, in the order of what it would add:

1. Two slots under one resident: one that fails closed while the other is between two
   steps of a spawn.
2. The MCP exchange as a client of `Channel` and `Docker` together.
