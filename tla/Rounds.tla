------------------------------- MODULE Rounds -------------------------------
(***************************************************************************)
(* The rounds of one slot: when the resident starts its next process, what *)
(* the reader threads make of the output, and what follows from the end    *)
(* (_reconcile in resident.py, scheduler.py, queue_protocol.py, the        *)
(* readers, _finish and _record_crash in slot.py).                         *)
(*                                                                         *)
(* Slot.tla has the ownership of the same process and leaves out the time, *)
(* the minutes and the output; here the process is simply there until it   *)
(* has ended, with everything in its Job.                                  *)
(*                                                                         *)
(* The monotonic clock ticks, and what it measures is kept as ages and     *)
(* remaining delays.  The wall clock is read by the scheduler alone: it    *)
(* goes on by minutes, may skip some and may be set back.                  *)
(***************************************************************************)
EXTENDS Naturals, SequencesExt, Cron, QueueProtocol

CONSTANTS
  Workload,       \* the groups a behaviour may be about
  LocalTime,      \* the local time of each minute of the wall clock
  Cooldown,       \* the healthy delay, 0.05 s
  EmptyCooldown,  \* the least of it after an empty queue, 0.25 s
  MaxAttempts,    \* bound on the processes started
  MaxGenerations  \* bound on the generations of the group

Kind == {"service", "queue_once", "scheduler"}

(* A group: its kind, cron expression, restart policy and queue.sleep, the *)
(* lines its worker may write and how many of them; and what may happen to *)
(* it: processes, generations, I/O errors and refused starts, readers that *)
(* outlive their join, residents that die, and times the wall clock is set *)
(* back.                                                                   *)
ASSUME RoundsAssumption ==
  /\ \A w \in Workload :
       /\ w.kind \in Kind
       /\ {w.sleep, w.writes, w.faults, w.late, w.deaths, w.setBacks} \subseteq Nat
       /\ w.attempts \in 0..MaxAttempts /\ w.generations \in 1..MaxGenerations
       /\ w.restart.enabled \in BOOLEAN
       /\ w.restart.base \in Nat /\ w.restart.max \in Nat
       /\ w.restart.base <= w.restart.max
       /\ w.restart.window \in Nat /\ w.restart.crashes \in Nat \ {0}
       /\ \A line \in w.lines : IsLine(line)
       /\ ValidCron(w.cron)
  /\ {Cooldown, EmptyCooldown, MaxAttempts, MaxGenerations} \subseteq Nat
  /\ LocalTime \in Seq(ClockTime) /\ LocalTime # <<>>

Attempt    == 1..MaxAttempts
Generation == 1..MaxGenerations
Minute     == 1..Len(LocalTime)

VARIABLES
  workload,      \* one of Workload, for ever
  \* outside the resident
  wanted,        \* the generation of the group in desired-state.json
  minute,        \* the wall clock
  claim,         \* the claim file: generation and minute, or Unclaimed
  output,        \* the lines of each process that no reader has taken yet
  code,          \* whether the process runs, or the code it has ended with
  \* the resident thread
  place,         \* in _reconcile: idle, about to claim or to spawn
  due,           \* the minute that was found due
  \* the ManagedSlot object
  generation,    \* self.group.generation
  process,       \* the attempt whose process it has, or 0
  stopping,      \* self.stop_requested_at is set
  runtimeError, protocolError,
  classifier,    \* the attempt for which self.classifier was made, or 0
  frames,        \* the frames of each classifier
  crashes,       \* self.crashes, as ages
  fatal,
  delay,         \* what is left until self.next_spawn_at
  recycling,     \* self.healthy_recycle_pending
  \* reader threads
  reader,        \* of the stdout of each attempt
  held,          \* the classifier it has fetched for its next line
  \* history
  used,          \* attempts so far
  runs,          \* the generation and minute each scheduler process ran for
  written,       \* all lines of each process
  failures,      \* ages of all failures of this generation under this resident
  verdict,       \* on the last process that was finished
  mixed,         \* a reader of an earlier process was alive beside this one
  troubled,      \* something but its output and its code failed in this process
  faults, late, deaths, setBacks

fixed    == workload
world    == <<wanted, minute, claim>>
child    == <<output, code, written>>
resident == <<place, due>>
slot     == <<generation, process, stopping>>
errors   == <<runtimeError, protocolError>>
parser   == <<classifier, frames>>
restart  == <<crashes, fatal, delay, recycling, failures>>
readers  == <<reader, held>>
budget   == <<faults, late, deaths, setBacks>>
past     == <<used, runs, verdict, mixed, troubled>>
vars     == <<fixed, world, child, resident, slot, errors, parser, restart,
              readers, past, budget>>

NoAttempt == 0
Unclaimed == [generation |-> 0, minute |-> 0]
Claim(g, m) == [generation |-> g, minute |-> m]
Running == 2   \* no exit code

Policy      == workload.restart
IsQueue     == workload.kind = "queue_once"
IsScheduler == workload.kind = "scheduler"

Due(m) == Matches(workload.cron, LocalTime[m])

Capped(n, most) == IF n \in 0..most THEN n ELSE most
Larger(a, b)    == IF a < b THEN b ELSE a

-----------------------------------------------------------------------------
(* The slot object of a resident that has just started.                    *)
NewSlot ==
  /\ generation' = wanted
  /\ process' = NoAttempt /\ stopping' = FALSE
  /\ runtimeError' = FALSE /\ protocolError' = FALSE
  /\ classifier' = NoAttempt
  /\ crashes' = <<>> /\ fatal' = FALSE /\ delay' = 0 /\ recycling' = FALSE
  /\ failures' = <<>>
  /\ place' = "idle" /\ due' = 0

Init ==
  /\ workload \in Workload
  /\ wanted = 1
  /\ minute = 1
  /\ claim = Unclaimed
  /\ output = [a \in Attempt |-> <<>>] /\ written = output
  /\ code = 0
  /\ place = "idle" /\ due = 0
  /\ generation = 1 /\ process = NoAttempt /\ stopping = FALSE
  /\ runtimeError = FALSE /\ protocolError = FALSE
  /\ classifier = NoAttempt /\ frames = [a \in Attempt |-> <<>>]
  /\ crashes = <<>> /\ fatal = FALSE /\ delay = 0 /\ recycling = FALSE
  /\ failures = <<>>
  /\ reader = [a \in Attempt |-> "none"] /\ held = [a \in Attempt |-> NoAttempt]
  /\ used = 0 /\ runs = <<>>
  /\ verdict = [of |-> NoAttempt, healthy |-> TRUE, outcome |-> "unknown", code |-> 0,
                stopped |-> TRUE, late |-> FALSE, alone |-> TRUE, troubled |-> FALSE]
  /\ mixed = FALSE /\ troubled = FALSE
  /\ faults = 0 /\ late = 0 /\ deaths = 0 /\ setBacks = 0

Fault == faults < workload.faults /\ faults' = faults + 1

-----------------------------------------------------------------------------
(* _reconcile: an idle slot takes the generation that is wanted, ...       *)
ReplaceGroup ==
  /\ place = "idle" /\ process = NoAttempt
  /\ generation # wanted
  /\ generation' = wanted
  /\ stopping' = FALSE
  /\ crashes' = <<>> /\ failures' = <<>>
  /\ fatal' = FALSE /\ delay' = 0 /\ recycling' = FALSE
  /\ UNCHANGED <<fixed, world, child, resident, process, errors, parser, readers,
                 past, budget>>

(* ... and may start a process when nothing is in its way.                 *)
MayStart ==
  /\ place = "idle" /\ process = NoAttempt
  /\ generation = wanted
  /\ ~fatal /\ delay = 0
  /\ used < workload.attempts

StartDirectly ==
  /\ MayStart /\ ~IsScheduler
  /\ place' = "spawn"
  /\ UNCHANGED <<fixed, world, child, due, slot, errors, parser, restart, readers,
                 past, budget>>

(* Mutant: without a look at the claim that is there.                      *)
ClaimedNever(m) == FALSE

Claimed(m) == claim = Claim(generation, m)

(* claim_if_due reads the clock once; what it finds due it claims later.   *)
FindDue ==
  /\ MayStart /\ IsScheduler
  /\ Due(minute) /\ ~Claimed(minute)
  /\ place' = "claim" /\ due' = minute
  /\ UNCHANGED <<fixed, world, child, slot, errors, parser, restart, readers,
                 past, budget>>

ClaimMinute ==
  /\ place = "claim"
  /\ claim' = Claim(generation, due)
  /\ place' = "spawn"
  /\ UNCHANGED <<fixed, wanted, minute, child, due, slot, errors, parser, restart,
                 readers, past, budget>>

-----------------------------------------------------------------------------
(* spawn, and the readers it starts.  A classifier is made and the flags   *)
(* are reset before the process exists.  The classifier of a process that  *)
(* is not started is taken for none: the reader of an earlier process may  *)
(* find it in the code, but nobody asks it, and the flags such a reader    *)
(* raises meanwhile are reset by the next spawn.                           *)

(* Mutant: every process has a classifier.                                 *)
ResetClassified(of) ==
  /\ runtimeError' = FALSE /\ protocolError' = FALSE
  /\ classifier' = of

Reset(of) ==
  /\ runtimeError' = FALSE /\ protocolError' = FALSE
  /\ classifier' = IF IsQueue THEN of ELSE NoAttempt

Stale == \E a \in Attempt : reader[a] \in {"reading", "holding"}

Spawn ==
  LET a == used + 1 IN
  /\ place = "spawn" /\ generation = wanted
  /\ Reset(a) /\ recycling' = FALSE
  /\ place' = "idle" /\ due' = 0
  /\ process' = a /\ used' = a
  /\ code' = Running
  /\ reader' = [reader EXCEPT ![a] = "reading"]
  /\ mixed' = Stale /\ troubled' = FALSE
  /\ runs' = IF IsScheduler THEN Append(runs, Claim(generation, due)) ELSE runs
  /\ UNCHANGED <<fixed, world, output, written, generation, stopping, frames,
                 crashes, fatal, delay, failures, held, verdict, budget>>

(* The desired state moved on between the claim and the spawn: nothing is  *)
(* started, and no crash is counted.                                       *)
SpawnRefused ==
  /\ place = "spawn" /\ generation # wanted
  /\ Reset(NoAttempt) /\ recycling' = FALSE
  /\ place' = "idle" /\ due' = 0
  /\ UNCHANGED <<fixed, world, child, slot, frames, crashes, fatal, delay, failures,
                 readers, past, budget>>

-----------------------------------------------------------------------------
(* The reader threads.  The stdout of a queue worker is parsed: a line is  *)
(* taken from the pipe, the classifier of the slot is fetched, and only    *)
(* then is the line given to it under the observer lock.  Other output is  *)
(* only drained.                                                           *)
Fetch(a) ==
  /\ reader[a] = "reading" /\ output[a] # <<>>
  /\ reader' = [reader EXCEPT ![a] = "holding"]
  /\ held' = [held EXCEPT ![a] = classifier]
  /\ UNCHANGED <<fixed, world, child, resident, slot, errors, parser, restart,
                 past, budget>>

(* _observe_protocol.  Publishing the frame may fail; either error ends up *)
(* in _on_pipe_error.                                                      *)
Observe(a) ==
  LET line == Head(output[a])
      c    == held[a]
  IN
  /\ reader[a] = "holding"
  /\ reader' = [reader EXCEPT ![a] = "reading"]
  /\ held' = [held EXCEPT ![a] = NoAttempt]
  /\ output' = [output EXCEPT ![a] = Tail(@)]
  /\ IF c = NoAttempt
     THEN UNCHANGED <<errors, frames, troubled, faults>>
     ELSE /\ frames' = [frames EXCEPT ![c] = Consume(@, line)]
          /\ protocolError' = (protocolError \/ Raises(frames[c], line))
          /\ \/ /\ runtimeError' = (runtimeError \/ Raises(frames[c], line))
                /\ UNCHANGED <<troubled, faults>>
             \/ /\ frames' # frames /\ Fault
                /\ runtimeError' = TRUE
                /\ troubled' = (troubled \/ a = process)
  /\ UNCHANGED <<fixed, world, code, written, resident, slot, classifier, restart,
                 used, runs, verdict, mixed, late, deaths, setBacks>>

(* The pipe ends once everything that held it has.                         *)
EndOfPipe(a) ==
  /\ reader[a] = "reading" /\ output[a] = <<>>
  /\ a = process => code # Running
  /\ reader' = [reader EXCEPT ![a] = "done"]
  /\ UNCHANGED <<fixed, world, child, resident, slot, errors, parser, restart, held,
                 past, budget>>

(* A pipe cannot be read any further.                                      *)
PipeFails(a) ==
  /\ reader[a] = "reading" /\ Fault
  /\ reader' = [reader EXCEPT ![a] = "done"]
  /\ output' = [output EXCEPT ![a] = <<>>]
  /\ runtimeError' = TRUE
  /\ troubled' = (troubled \/ a = process)
  /\ UNCHANGED <<fixed, world, code, written, resident, slot, protocolError, parser,
                 restart, held, used, runs, verdict, mixed, late, deaths, setBacks>>

-----------------------------------------------------------------------------
(* The process.                                                            *)

Write(line) ==
  /\ IsQueue /\ process # NoAttempt /\ code = Running
  /\ Len(written[process]) < workload.writes
  /\ written' = [written EXCEPT ![process] = Append(@, line)]
  /\ output' = IF reader[process] = "done" THEN output
               ELSE [output EXCEPT ![process] = Append(@, line)]
  /\ UNCHANGED <<fixed, world, code, resident, slot, errors, parser, restart, readers,
                 past, budget>>

Exit ==
  /\ process # NoAttempt /\ code = Running
  /\ code' \in {0, 1}
  /\ UNCHANGED <<fixed, world, output, written, resident, slot, errors, parser,
                 restart, readers, past, budget>>

(* A one-shot process is seen to have run past its watchdog, and is        *)
(* terminated.  The time is looked at before the exit code, so that one    *)
(* that has ended since is overdue, too.                                   *)
Watchdog ==
  /\ workload.kind # "service"
  /\ place = "idle" /\ process # NoAttempt /\ ~troubled
  /\ runtimeError' = TRUE /\ troubled' = TRUE
  /\ code' = IF code = Running THEN 1 ELSE code
  /\ UNCHANGED <<fixed, world, output, written, resident, slot, protocolError,
                 parser, restart, readers, used, runs, verdict, mixed, budget>>

(* The resident asks it to stop: its group has changed.  The ledger may    *)
(* not take the note of it.                                                *)
RequestStop ==
  /\ place = "idle" /\ process # NoAttempt
  /\ generation # wanted /\ ~stopping
  /\ stopping' = TRUE
  /\ \/ UNCHANGED <<runtimeError, troubled, faults>>
     \/ Fault /\ runtimeError' = TRUE /\ troubled' = TRUE
  /\ UNCHANGED <<fixed, world, child, resident, generation, process, protocolError,
                 parser, restart, readers, used, runs, verdict, mixed, late, deaths,
                 setBacks>>

-----------------------------------------------------------------------------
(* The end.  The times of crashes that are out of the window are dropped   *)
(* when the next one is counted.                                           *)

(* Mutant: crashes are never dropped.                                      *)
InWindowEver(ages) == ages

InWindow(ages) ==
  LET first == CHOOSE n \in 1..(Len(ages) + 1) :
                 /\ \A i \in 1..(n - 1) : ages[i] > Policy.window
                 /\ n <= Len(ages) => ages[n] <= Policy.window
  IN  SubSeq(ages, first, Len(ages))

RecordCrash ==
  LET counted == InWindow(Append(crashes, 0))
      broken  == ~Policy.enabled \/ Len(counted) >= Policy.crashes
  IN
  /\ recycling' = FALSE
  /\ crashes' = counted
  /\ fatal' = broken
  /\ delay' = IF broken THEN delay
              ELSE Capped(Policy.base * 2 ^ Larger(0, Len(counted) - 1), Policy.max)
  /\ failures' = Append(failures, 0)

HealthyDelay(outcome) ==
  IF outcome = "empty" THEN Larger(EmptyCooldown, workload.sleep) ELSE Cooldown

(* Mutant: the wait after a healthy end is not marked as one.              *)
RecycleUnmarked(outcome) ==
  /\ delay' = HealthyDelay(outcome)
  /\ UNCHANGED <<crashes, fatal, recycling, failures>>

Recycle(outcome) ==
  /\ recycling' = TRUE
  /\ delay' = HealthyDelay(outcome)
  /\ UNCHANGED <<crashes, fatal, failures>>

SpawnFails ==
  /\ place = "spawn" /\ Fault
  /\ Reset(NoAttempt)
  /\ RecordCrash
  /\ place' = "idle" /\ due' = 0
  /\ verdict' = [verdict EXCEPT !.healthy = FALSE, !.stopped = FALSE, !.of = NoAttempt]
  /\ UNCHANGED <<fixed, world, child, slot, frames, readers, used, runs, mixed,
                 troubled, late, deaths, setBacks>>

(* _classify_completion                                                    *)
Judge(error) ==
  CASE IsQueue -> Completion(frames[process], code, error \/ protocolError)
    [] IsScheduler ->
         LET healthy == code = 0 /\ ~error /\ ~protocolError
         IN  Verdict(healthy, IF healthy THEN "scheduler_completed" ELSE "scheduler_failed")
    [] OTHER -> Unknown

(* Each reader is joined; one that is overdue is left behind and counted   *)
(* as an error.                                                            *)
Joined(overdue) == overdue => late < workload.late

(* _finish, once nothing of the process is left.                           *)
Finish ==
  LET overdue == reader[process] # "done"
      judged  == Judge(runtimeError \/ overdue)
  IN
  /\ place = "idle" /\ process # NoAttempt /\ code # Running
  /\ Joined(overdue)
  /\ late' = IF overdue THEN late + 1 ELSE late
  /\ verdict' = [of |-> process, healthy |-> judged.healthy, outcome |-> judged.outcome,
                 code |-> code, stopped |-> stopping, late |-> overdue,
                 alone |-> ~mixed, troubled |-> troubled]
  /\ IF judged.healthy \/ stopping
     THEN Recycle(IF stopping THEN "unknown" ELSE judged.outcome)
     ELSE RecordCrash
  /\ process' = NoAttempt /\ stopping' = FALSE
  /\ classifier' = NoAttempt
  /\ runtimeError' = FALSE /\ protocolError' = FALSE
  /\ UNCHANGED <<fixed, world, child, resident, generation, frames, readers, used,
                 runs, mixed, troubled, faults, deaths, setBacks>>

-----------------------------------------------------------------------------
(* Outside.                                                                *)

(* The resident dies, or ends because it could not write the claim; its    *)
(* child is killed, its threads and its memory are gone.  Another one      *)
(* starts with the documents.                                              *)
ResidentEnds ==
  /\ NewSlot
  /\ output' = [a \in Attempt |-> <<>>]
  /\ code' = 0
  /\ reader' = [a \in Attempt |-> IF reader[a] = "none" THEN "none" ELSE "done"]
  /\ held' = [a \in Attempt |-> NoAttempt]
  /\ deaths' = deaths + 1
  /\ verdict' = [verdict EXCEPT !.healthy = TRUE, !.of = NoAttempt]

ResidentDies ==
  /\ deaths < workload.deaths
  /\ ResidentEnds
  /\ UNCHANGED <<fixed, world, written, frames, used, runs, mixed, troubled,
                 faults, late, setBacks>>

(* Mutant: a claim that cannot be written is done without.                 *)
ClaimFailsUnnoticed ==
  /\ place = "claim" /\ deaths < workload.deaths
  /\ deaths' = deaths + 1
  /\ place' = "spawn"
  /\ UNCHANGED <<fixed, world, child, due, slot, errors, parser, restart, readers,
                 past, faults, late, setBacks>>

ClaimFails ==
  /\ place = "claim" /\ deaths < workload.deaths
  /\ claim' \in {claim, Claim(generation, due)}
  /\ ResidentEnds
  /\ UNCHANGED <<fixed, wanted, minute, written, frames, used, runs, mixed, troubled,
                 faults, late, setBacks>>

NewGeneration ==
  /\ wanted < workload.generations
  /\ wanted' = wanted + 1
  /\ UNCHANGED <<fixed, minute, claim, child, resident, slot, errors, parser, restart,
                 readers, past, budget>>

WallClock ==
  /\ IsScheduler
  /\ \/ \E m \in Minute : m > minute /\ minute' = m /\ UNCHANGED setBacks
     \/ /\ setBacks < workload.setBacks /\ setBacks' = setBacks + 1
        /\ \E m \in Minute : m < minute /\ minute' = m
  /\ UNCHANGED <<fixed, wanted, claim, child, resident, slot, errors, parser, restart,
                 readers, past, faults, late, deaths>>

Aged(ages) == [i \in DOMAIN ages |-> Capped(ages[i] + 1, Policy.window + 1)]

Tick ==
  /\ delay > 0 \/ crashes # <<>>
  /\ crashes' = Aged(crashes)
  /\ failures' = Aged(failures)
  /\ delay' = IF delay > 0 THEN delay - 1 ELSE 0
  /\ UNCHANGED <<fixed, world, child, resident, slot, errors, parser, fatal, recycling,
                 readers, past, budget>>

-----------------------------------------------------------------------------
Next ==
  \/ ReplaceGroup \/ StartDirectly \/ FindDue \/ ClaimMinute \/ ClaimFails
  \/ Spawn \/ SpawnRefused \/ SpawnFails
  \/ \E a \in Attempt : Fetch(a) \/ Observe(a) \/ EndOfPipe(a) \/ PipeFails(a)
  \/ (\E line \in workload.lines : Write(line)) \/ Exit \/ Watchdog
  \/ RequestStop \/ Finish
  \/ ResidentDies \/ NewGeneration \/ WallClock \/ Tick

Spec == Init /\ [][Next]_vars

-----------------------------------------------------------------------------
Verdicts == [of : 0..MaxAttempts, healthy : BOOLEAN, code : {0, 1},
             outcome : {"unknown", "empty", "success", "released", "failed",
                        "scheduler_completed", "scheduler_failed"},
             stopped : BOOLEAN, late : BOOLEAN, alone : BOOLEAN, troubled : BOOLEAN]

(* The shape of the state, and how its parts go together: a classifier is  *)
(* that of the process there is, a slot about to start has none, and the   *)
(* frames of a classifier are a start, followed or not by its end.         *)
TypeOK ==
  /\ workload \in Workload
  /\ wanted \in Generation /\ generation \in Generation /\ generation <= wanted
  /\ minute \in Minute /\ due \in Minute \union {0}
  /\ claim = Unclaimed \/ claim \in {Claim(g, m) : g \in Generation, m \in Minute}
  /\ place \in {"idle", "claim", "spawn"} /\ (place # "idle" => process = NoAttempt)
  /\ process \in 0..used /\ used \in 0..workload.attempts
  /\ code \in {0, 1, Running} /\ (code = Running => process # NoAttempt)
  /\ classifier = (IF IsQueue THEN process ELSE NoAttempt)
  /\ \A a \in Attempt :
       /\ Len(frames[a]) <= 2 /\ (frames[a] # <<>> => IsStart(frames[a][1]))
       /\ IsSuffix(output[a], written[a]) \/ reader[a] = "done"
       /\ reader[a] \in {"none", "reading", "holding", "done"}
       /\ held[a] \in 0..used
  /\ \A i \in DOMAIN crashes : crashes[i] \in 0..(Policy.window + 1)
  /\ {stopping, runtimeError, protocolError, fatal, recycling, mixed, troubled}
       \subseteq BOOLEAN
  /\ delay \in Nat /\ verdict \in Verdicts

-----------------------------------------------------------------------------
(* The scheduler                                                           *)

(* As long as the wall clock is not set back, a minute is run at most once *)
(* under one generation, whatever becomes of the resident before, between  *)
(* and after the claim and the start (scheduler.py:94-121,                 *)
(* resident.py:217-222; 04-workload-kinds.md: "a resident restart in the   *)
(* same claimed minute does not duplicate the run").                       *)
MinuteRunsOnce ==
  setBacks = 0 => \A i, j \in DOMAIN runs : runs[i] = runs[j] => i = j

(* When a scheduler process starts, the claim file names its generation    *)
(* and the minute it runs for: nothing runs on a claim that did not reach  *)
(* the disk, or that another minute has replaced (resident.py:220-222,     *)
(* scheduler.py:112-121).                                                  *)
StartsOnItsClaim ==
  [][runs' # runs => claim = runs'[Len(runs')]]_vars

(* What the five fields say, read without the code's case distinctions:    *)
(* the numbers of a field are those at whole steps between its ends, 7 and *)
(* 0 are Sunday, and a day has to be in the field that restricts it, or in *)
(* one of them when both do.                                               *)
Says(field, v, minimum, maximum) ==
  \E segment \in field.segments, k \in 0..maximum :
    LET start == IF segment.first = Star THEN minimum ELSE segment.first
        by    == IF segment.step = NoStep THEN 1 ELSE segment.step
    IN  /\ v = start + k * by
        /\ v <= maximum /\ (segment.last # Open => v <= segment.last)
        /\ segment.first # Star /\ segment.last = Open /\ segment.step = NoStep => k = 0

SaysAll(field, minimum, maximum) ==
  \A v \in minimum..maximum : Says(field, v, minimum, maximum)

DueAsWritten(cron, time) ==
  LET sunday == time.weekday = 6
      byDay  == Says(cron.day, time.day, 1, 31)
      byWeek == \/ Says(cron.weekday, (time.weekday + 1) % 7, 0, 7)
                \/ sunday /\ Says(cron.weekday, 7, 0, 7)
      anyDay == SaysAll(cron.day, 1, 31)
      anyWeekday == SaysAll(cron.weekday, 0, 7)
  IN  /\ Says(cron.minute, time.minute, 0, 59)
      /\ Says(cron.hour, time.hour, 0, 23)
      /\ Says(cron.month, time.month, 1, 12)
      /\ anyDay \/ byDay \/ (byWeek /\ ~anyWeekday)
      /\ anyWeekday \/ byWeek \/ (byDay /\ ~anyDay)

(* scheduler.py tells by its star whether a day field restricts anything.  *)
StarsMeanAll ==
  \A w \in Workload : w.kind = "scheduler" =>
    /\ w.cron.day.wildcard = SaysAll(w.cron.day, 1, 31)
    /\ w.cron.weekday.wildcard = SaysAll(w.cron.weekday, 0, 7)

(* A process runs only for a minute the expression names, and an idle slot *)
(* passes no such minute over that is not claimed (scheduler.py:39-55,     *)
(* 124-173).  An expression with a step after the star of a day field is   *)
(* another matter: scheduler.py takes such a field for no restriction.     *)
RunsWhenWritten ==
  [][/\ runs' # runs => DueAsWritten(workload.cron, LocalTime[runs'[Len(runs')].minute])
     /\ IsScheduler /\ MayStart /\ DueAsWritten(workload.cron, LocalTime[minute]) =>
          Claimed(minute) \/ Due(minute)]_vars

-----------------------------------------------------------------------------
(* Queue workers                                                           *)

(* What a worker that wrote these lines and ended with this code has done: *)
(* all it said is the start of one job and then its end, or nothing at all.*)
Job(lines, start, end) ==
  /\ {i \in DOMAIN lines : lines[i].kind # "noise"} = {start, end}
  /\ start < end
  /\ lines[start].kind = "frame" /\ IsStart(lines[start])
  /\ lines[end].kind = "frame" /\ ~IsStart(lines[end])
  /\ lines[start].job = lines[end].job

Silent(lines) == \A i \in DOMAIN lines : lines[i].kind = "noise"

Deserved(lines, c) ==
  CASE c = 0 /\ Silent(lines) -> Verdict(TRUE, "empty")
    [] c = 0 /\ \E i, j \in DOMAIN lines : Job(lines, i, j) ->
         Verdict(TRUE, OutcomeOf(lines[CHOOSE j \in DOMAIN lines :
                                         \E i \in DOMAIN lines : Job(lines, i, j)]))
    [] OTHER -> Unknown

(* The verdict on a worker is the one its own output deserves: no line of  *)
(* it is missed by the time it is judged and none is taken twice, unless   *)
(* reading it failed, in which case it is not healthy.  The exception is a *)
(* worker beside which a reader of an earlier one was still at work        *)
(* (slot.py:328-341, 376-391, 425-431; queue_protocol.py:29-94).           *)
VerdictDeserved ==
  IsQueue /\ verdict.of # NoAttempt /\ verdict.alone =>
    IF verdict.troubled \/ verdict.late
      THEN ~verdict.healthy
      ELSE /\ verdict.healthy = Deserved(written[verdict.of], verdict.code).healthy
           /\ verdict.outcome = Deserved(written[verdict.of], verdict.code).outcome

(* "A healthy exit is not a crash", and "healthy recycle keeps             *)
(* restart_count = 0" (02-process-lifecycle.md:63, 77, of queue workers):  *)
(* a worker that has done its one job, or found none, and has ended with   *)
(* code 0, and with whose watchdog, pipes, threads and ledger nothing is   *)
(* amiss, is not counted as a crash (slot.py:328-341, 413-423).            *)
SuccessIsNoCrash ==
  /\ IsQueue /\ verdict.of # NoAttempt /\ ~verdict.troubled /\ ~verdict.late
  /\ Deserved(written[verdict.of], verdict.code).healthy
  => verdict.healthy

-----------------------------------------------------------------------------
(* Restarts                                                                *)

Recent(ages) == Cardinality({i \in DOMAIN ages : ages[i] <= Policy.window})

(* The slot gives up on exactly the failure that spends its crashes: of    *)
(* processes and of starts that failed, and whatever succeeded in between, *)
(* as many as the policy has within its window.  What lies outside the     *)
(* window is not counted, and neither are healthy ends and requested stops *)
(* (slot.py:413-449, resident.py:218, 236-239).                            *)
GivesUpWhenSpent ==
  [][LET spent == ~Policy.enabled \/ Recent(failures') >= Policy.crashes
     IN  /\ ~fatal /\ fatal' => spent
         /\ Len(failures') > Len(failures) => (fatal' <=> spent)]_vars

(* status                                                                  *)
Status ==
  CASE fatal -> "fatal"
    [] ~fatal /\ stopping -> "stopping"
    [] ~fatal /\ ~stopping /\ process # NoAttempt -> "running"
    [] ~fatal /\ process = NoAttempt /\ delay > 0 /\ recycling -> "idle"
    [] ~fatal /\ process = NoAttempt /\ delay > 0 /\ ~recycling -> "backoff"
    [] OTHER -> "stopped"

(* What the status shows of a slot without a process is how its last one   *)
(* ended: backoff and fatal mean a failure, idle does not                  *)
(* (slot.py:269-283; 04-workload-kinds.md:64).                             *)
StatusTellsTheEnd ==
  LET failed == ~verdict.healthy /\ ~verdict.stopped
  IN  /\ Status \in {"backoff", "fatal"} => failed
      /\ Status = "idle" => ~failed
=============================================================================
