---------------------------- MODULE RoundsProofs ----------------------------
(***************************************************************************)
(* Theorems about Rounds: what the claim file promises of the minutes of a *)
(* scheduler, at which minutes it runs, what the verdict on a queue worker *)
(* says of its output, when a slot gives up and what its status tells.     *)
(* They hold for every calendar and expression, every set of lines, every  *)
(* restart policy and any number of processes, generations and residents   *)
(* that die.                                                               *)
(*                                                                         *)
(* MinuteRunsOnce is not inductive: the two runs it speaks of are kept     *)
(* apart by the claim, which is all that a new resident finds of the       *)
(* earlier ones.  ClaimInv says that the claim is never behind a run, and  *)
(* that a minute on its way to its process is ahead of every run.          *)
(*                                                                         *)
(* AloneInv follows the lines of a worker through the pipe into the        *)
(* frames; Counted relates the crashes a slot remembers to all there were. *)
(***************************************************************************)
EXTENDS Rounds, FiniteSetTheorems, SequenceTheorems, WellFoundedInduction, TLAPS

(* What the actions of the scheduler work with.                            *)
schedule == <<workload, wanted, minute, claim, place, due, generation, runs, setBacks>>

ClockInv ==
  /\ wanted \in Nat /\ generation \in Nat /\ minute \in Nat /\ due \in Nat
  /\ setBacks \in Nat
  /\ generation <= wanted
  /\ claim \in [generation : Nat, minute : Nat]
  /\ runs \in Seq([generation : Nat, minute : Nat])
  /\ workload \in Workload
  /\ place \in {"idle", "claim", "spawn"}

(* Between the claim and the process the claim is that of the process.     *)
ClaimedInv ==
  place = "spawn" /\ IsScheduler => claim = Claim(generation, due)

(* While the wall clock only goes forward: no run is ahead of the claim,   *)
(* the claim is not ahead of the clock and the group, and a minute that is *)
(* about to be run has not been.                                           *)
ClaimInv ==
  setBacks = 0 =>
    /\ \A i \in DOMAIN runs :
         runs[i].generation <= claim.generation /\ runs[i].minute <= claim.minute
    /\ claim.generation <= generation /\ claim.minute <= minute
    /\ place = "claim" =>
         claim # Claim(generation, due) /\ claim.minute <= due /\ due <= minute
    /\ place = "spawn" /\ IsScheduler => \A i \in DOMAIN runs : runs[i] # claim

IInv == ClockInv /\ ClaimedInv /\ ClaimInv /\ MinuteRunsOnce

-----------------------------------------------------------------------------
(* A minute of the calendar is a number.                                   *)
LEMMA MinuteIsNat == Minute \subseteq Nat
BY RoundsAssumption DEF Minute

(* A run is a generation and a minute.                                     *)
LEMMA RunIsClaim ==
  ASSUME NEW S, NEW s \in Seq(S), NEW i \in DOMAIN s PROVE s[i] \in S
OBVIOUS

(* The initial state satisfies the invariant.                              *)
LEMMA InitIInv == Init => IInv
BY RoundsAssumption
   DEF Init, Unclaimed, IInv, ClockInv, ClaimedInv, ClaimInv, MinuteRunsOnce

(* Nothing the process, its readers and its end do concerns the schedule.  *)
LEMMA OtherSteps ==
  ASSUME \/ \E a \in Attempt : Fetch(a) \/ Observe(a) \/ EndOfPipe(a) \/ PipeFails(a)
         \/ (\E line \in workload.lines : Write(line)) \/ Exit \/ Watchdog
         \/ RequestStop \/ Finish \/ Tick \/ UNCHANGED vars
  PROVE  UNCHANGED schedule
<1>. USE DEF schedule, fixed, world, resident, slot, budget, past
<1>1. CASE \E a \in Attempt : Fetch(a) \/ Observe(a) \/ EndOfPipe(a) \/ PipeFails(a)
  BY <1>1 DEF Fetch, Observe, EndOfPipe, PipeFails
<1>2. CASE (\E line \in workload.lines : Write(line)) \/ Exit \/ Watchdog
  BY <1>2 DEF Write, Exit, Watchdog
<1>3. CASE RequestStop \/ Finish
  BY <1>3 DEF RequestStop, Finish
<1>4. CASE Tick \/ UNCHANGED vars
  BY <1>4 DEF Tick, vars
<1> QED BY <1>1, <1>2, <1>3, <1>4

(* A resident that starts takes the group that is wanted.                  *)
LEMMA NewResident ==
  ASSUME IInv, NewSlot, UNCHANGED <<workload, wanted, minute, runs, setBacks>>,
         claim' = claim \/ (place = "claim" /\ claim' = Claim(generation, due))
  PROVE  IInv'
<1>. USE DEF IInv, NewSlot, Claim
<1>1. ClockInv'
  BY DEF ClockInv
<1>2. ClaimedInv'
  BY DEF ClaimedInv
<1>3. ClaimInv'
  <2>. SUFFICES ASSUME setBacks = 0 PROVE ClaimInv'
    BY DEF ClaimInv
  <2>1. \A i \in DOMAIN runs : runs[i] \in [generation : Nat, minute : Nat]
    BY RunIsClaim DEF ClockInv
  <2>2. CASE claim' = claim
    BY <2>2 DEF ClaimInv, ClockInv
  <2>3. CASE place = "claim" /\ claim' = [generation |-> generation, minute |-> due]
    BY <2>1, <2>3 DEF ClaimInv, ClockInv
  <2> QED BY <2>2, <2>3
<1>4. MinuteRunsOnce'
  BY DEF MinuteRunsOnce
<1> QED BY <1>1, <1>2, <1>3, <1>4

(* Every step of the resident and of the world outside keeps it.           *)
LEMMA NextKeeps == ASSUME IInv, [Next]_vars PROVE IInv'
<1>. USE DEF fixed, world, resident, slot, budget, past
<1>1. CASE UNCHANGED schedule
  BY <1>1
     DEF schedule, IInv, ClockInv, ClaimedInv, ClaimInv, MinuteRunsOnce, IsScheduler
<1>2. CASE ReplaceGroup
  BY <1>2
     DEF ReplaceGroup, IInv, ClockInv, ClaimedInv, ClaimInv, MinuteRunsOnce
<1>3. CASE StartDirectly
  BY <1>3
     DEF StartDirectly, IInv, ClockInv, ClaimedInv, ClaimInv, MinuteRunsOnce,
         IsScheduler
<1>4. CASE FindDue
  BY <1>4
     DEF FindDue, MayStart, Claimed, IInv, ClockInv, ClaimedInv, ClaimInv, MinuteRunsOnce
<1>5. CASE ClaimMinute
  <2>1. /\ place = "claim" /\ claim' = Claim(generation, due) /\ place' = "spawn"
        /\ UNCHANGED <<workload, wanted, minute, due, generation, runs, setBacks>>
    BY <1>5 DEF ClaimMinute
  <2>2. ClockInv'
    BY <2>1 DEF IInv, ClockInv, Claim
  <2>3. ClaimedInv'
    BY <2>1 DEF ClaimedInv, Claim
  <2>4. ClaimInv'
    <3>. SUFFICES ASSUME setBacks = 0 PROVE ClaimInv'
      BY <2>1 DEF ClaimInv
    <3>1. \A i \in DOMAIN runs : runs[i] \in [generation : Nat, minute : Nat]
      BY RunIsClaim DEF IInv, ClockInv
    <3>2. /\ claim.generation <= generation /\ claim.minute <= due /\ due <= minute
          /\ claim # [generation |-> generation, minute |-> due]
          /\ claim \in [generation : Nat, minute : Nat] /\ generation \in Nat /\ due \in Nat
      BY <2>1 DEF IInv, ClockInv, ClaimInv, Claim
    <3>3. ASSUME NEW i \in DOMAIN runs
          PROVE  /\ runs[i].generation <= generation /\ runs[i].minute <= due
                 /\ runs[i] # [generation |-> generation, minute |-> due]
      <4>1. runs[i].generation <= claim.generation /\ runs[i].minute <= claim.minute
        BY DEF IInv, ClaimInv
      <4>2. runs[i].generation \in Nat /\ runs[i].minute \in Nat
        BY <3>1
      <4>3. ~(claim.generation = generation /\ claim.minute = due)
        BY <3>2
      <4> QED BY <3>2, <4>1, <4>2, <4>3
    <3> QED BY <2>1, <3>2, <3>3 DEF ClaimInv, Claim
  <2>5. MinuteRunsOnce'
    BY <2>1 DEF IInv, MinuteRunsOnce
  <2> QED BY <2>2, <2>3, <2>4, <2>5 DEF IInv
<1>6. CASE Spawn
  <2>1. /\ place = "spawn" /\ place' = "idle" /\ due' = 0
        /\ runs' = IF IsScheduler THEN Append(runs, Claim(generation, due)) ELSE runs
        /\ UNCHANGED <<workload, wanted, minute, claim, generation, setBacks>>
    BY <1>6 DEF Spawn
  <2>2. CASE IsScheduler
    <3>1. runs' = Append(runs, claim) /\ runs \in Seq([generation : Nat, minute : Nat])
          /\ claim \in [generation : Nat, minute : Nat]
      BY <2>1, <2>2 DEF IInv, ClaimedInv, ClockInv
    <3>2. /\ Len(runs) \in Nat /\ DOMAIN runs = 1..Len(runs)
          /\ DOMAIN runs' = 1..(Len(runs) + 1)
          /\ \A i \in DOMAIN runs : runs'[i] = runs[i]
          /\ runs'[Len(runs) + 1] = claim
      BY <3>1
    <3>3. ClockInv'
      <4>1. runs' \in Seq([generation : Nat, minute : Nat])
        BY <3>1
      <4> QED BY <2>1, <4>1 DEF IInv, ClockInv
    <3>4. ClaimedInv'
      BY <2>1 DEF ClaimedInv
    <3>5. ClaimInv'
      BY <2>1, <3>1, <3>2 DEF IInv, ClockInv, ClaimInv
    <3>6. MinuteRunsOnce'
      BY <2>1, <2>2, <3>2 DEF IInv, ClaimInv, MinuteRunsOnce
    <3> QED BY <3>3, <3>4, <3>5, <3>6 DEF IInv
  <2>3. CASE ~IsScheduler
    BY <2>1, <2>3 DEF IInv, ClockInv, ClaimedInv, ClaimInv, MinuteRunsOnce
  <2> QED BY <2>2, <2>3
<1>7. CASE SpawnRefused \/ SpawnFails
  BY <1>7
     DEF SpawnRefused, SpawnFails, IInv, ClockInv, ClaimedInv, ClaimInv, MinuteRunsOnce
<1>8. CASE ResidentDies \/ ClaimFails
  BY <1>8, NewResident DEF ResidentDies, ClaimFails, ResidentEnds
<1>9. CASE NewGeneration
  BY <1>9
     DEF NewGeneration, IInv, ClockInv, ClaimedInv, ClaimInv, MinuteRunsOnce, IsScheduler
<1>10. CASE WallClock
  BY <1>10, MinuteIsNat
     DEF WallClock, IInv, ClockInv, ClaimedInv, ClaimInv, MinuteRunsOnce, IsScheduler
<1> QED
  BY <1>1, <1>2, <1>3, <1>4, <1>5, <1>6, <1>7, <1>8, <1>9, <1>10, OtherSteps DEF Next

(* So it holds in every reachable state.                                   *)
LEMMA Invariant == Spec => []IInv
<1>1. Init => IInv
  BY InitIInv
<1>2. IInv /\ [Next]_vars => IInv'
  BY NextKeeps
<1> QED BY <1>1, <1>2, PTL DEF Spec

(* A minute is run at most once under one generation, as long as the wall  *)
(* clock is not set back, whatever becomes of the residents between the    *)
(* claim and the start (scheduler.py:94-121, resident.py:217-222).         *)
THEOREM MinuteOnce == Spec => []MinuteRunsOnce
<1>1. IInv => MinuteRunsOnce
  BY DEF IInv
<1> QED BY <1>1, Invariant, PTL

(* A scheduler process starts on the claim of its own minute and           *)
(* generation, which has reached the disk (resident.py:220-222,            *)
(* scheduler.py:112-121).                                                  *)
THEOREM StartClaimed == Spec => StartsOnItsClaim
<1>1. IInv /\ [Next]_vars => [runs' # runs => claim = runs'[Len(runs')]]_vars
  <2>1. ASSUME IInv, Spawn, runs' # runs
        PROVE  claim = runs'[Len(runs')]
    <3>1. runs' = Append(runs, claim) /\ runs \in Seq([generation : Nat, minute : Nat])
      BY <2>1 DEF Spawn, IInv, ClaimedInv, ClockInv
    <3> QED BY <3>1
  <2>2. ASSUME [Next]_vars, ~Spawn
        PROVE  UNCHANGED runs
    <3>. USE DEF past
    <3>1. CASE ReplaceGroup \/ StartDirectly \/ FindDue \/ ClaimMinute
      BY <3>1 DEF ReplaceGroup, StartDirectly, FindDue, ClaimMinute
    <3>2. CASE SpawnRefused \/ SpawnFails
      BY <3>2 DEF SpawnRefused, SpawnFails
    <3>3. CASE ClaimFails \/ ResidentDies
      BY <3>3 DEF ClaimFails, ResidentDies
    <3>4. CASE NewGeneration \/ WallClock
      BY <3>4 DEF NewGeneration, WallClock
    <3> QED BY <2>2, <3>1, <3>2, <3>3, <3>4, OtherSteps DEF Next, schedule
  <2> QED BY <2>1, <2>2
<1> QED BY <1>1, Invariant, PTL DEF Spec, StartsOnItsClaim

-----------------------------------------------------------------------------
(* The numbers at whole steps from a start are those whose distance from   *)
(* it leaves no remainder.                                                 *)
LEMMA Multiples ==
  ASSUME NEW v \in Nat, NEW start \in Nat, NEW by \in Nat \ {0}, NEW maximum \in Nat, v <= maximum
  PROVE  (v >= start /\ (v - start) % by = 0) <=> \E k \in 0..maximum : v = start + k * by
<1>1. ASSUME NEW k \in 0..maximum, v = start + k * by
      PROVE  v >= start /\ (v - start) % by = 0
  <2>1. k * by \in Nat /\ (k * by) % by = 0
    OBVIOUS
  <2> QED BY <1>1, <2>1
<1>2. ASSUME v >= start, (v - start) % by = 0
      PROVE  \E k \in 0..maximum : v = start + k * by
  <2>. DEFINE k == (v - start) \div by
  <2>1. k \in Nat /\ v = start + k * by
    <3>1. \A d \in Nat : d \div by \in Nat /\ d = (d \div by) * by + (d % by)
      OBVIOUS
    <3>2. v - start \in Nat
      BY <1>2
    <3> QED BY <1>2, <3>1, <3>2
  <2>. HIDE DEF k
  <2>2. k <= k * by
    BY <2>1
  <2>3. k \in 0..maximum
    BY <2>1, <2>2
  <2> QED BY <2>1, <2>3
<1> QED BY <1>1, <1>2

(* The numbers the code lists for a field are those that the field says    *)
(* (scheduler.py:132-173).                                                 *)
LEMMA SaysWhatIsListed ==
  ASSUME NEW minimum \in Nat, NEW maximum \in Nat, NEW field,
         ValidField(field, minimum, maximum), NEW v \in Nat
  PROVE  v \in ValuesOf(field, minimum, maximum) <=> Says(field, v, minimum, maximum)
<1>1. ASSUME NEW segment \in field.segments
      PROVE  v \in Listed(segment, minimum, maximum) <=>
               \E k \in 0..maximum :
                 LET start == IF segment.first = Star THEN minimum ELSE segment.first
                     by    == IF segment.step = NoStep THEN 1 ELSE segment.step
                 IN  /\ v = start + k * by
                     /\ v <= maximum /\ (segment.last # Open => v <= segment.last)
                     /\ segment.first # Star /\ segment.last = Open /\ segment.step = NoStep =>
                          k = 0
  <2>. DEFINE start == IF segment.first = Star THEN minimum ELSE segment.first
              by    == IF segment.step = NoStep THEN 1 ELSE segment.step
              single == segment.first # Star /\ segment.last = Open /\ segment.step = NoStep
              end   == IF segment.last # Open THEN segment.last
                       ELSE IF segment.first = Star \/ segment.step # NoStep THEN maximum
                       ELSE start
  <2>1. start \in Nat /\ by \in Nat \ {0} /\ end \in Nat /\ end <= maximum
    BY <1>1 DEF ValidField, Star, Open, NoStep
  <2>2. v <= end <=> /\ v <= maximum /\ (segment.last # Open => v <= segment.last)
                     /\ (single => v <= start)
    BY <1>1 DEF ValidField, Star, Open, NoStep
  <2>3. single => by = 1
    OBVIOUS
  <2>4. v \in Listed(segment, minimum, maximum) <=> v \in start..end /\ (v - start) % by = 0
    BY DEF Listed
  <2>. HIDE DEF start, by, single, end
  <2>5. v \in start..end /\ (v - start) % by = 0 <=>
          \E k \in 0..maximum : v = start + k * by /\ v <= end
    <3>1. CASE v <= maximum
      <4>1. (v >= start /\ (v - start) % by = 0) <=> (\E k \in 0..maximum : v = start + k * by)
        <5>1. \A s \in Nat, b \in Nat \ {0} :
                (v >= s /\ (v - s) % b = 0) <=> (\E k \in 0..maximum : v = s + k * b)
          BY <3>1, Multiples
        <5>2. start \in Nat /\ by \in Nat \ {0}
          BY <2>1
        <5> QED BY <5>1, <5>2, Zenon
      <4>2. v \in start..end <=> v >= start /\ v <= end
        BY <2>1
      <4> QED BY <4>1, <4>2, Zenon
    <3>2. CASE ~(v <= maximum)
      BY <2>1, <3>2
    <3> QED BY <3>1, <3>2
  <2>6. ASSUME NEW k \in 0..maximum, v = start + k * by
        PROVE  v <= end <=> v <= maximum /\ (segment.last # Open => v <= segment.last)
                              /\ (single => k = 0)
    <3>1. single => (v <= start <=> k = 0)
      BY <2>1, <2>3, <2>6
    <3> QED BY <2>2, <3>1
  <2>7. \A k \in 0..maximum : v = start + k * by /\ v <= end <=>
          /\ v = start + k * by
          /\ v <= maximum /\ (segment.last # Open => v <= segment.last) /\ (single => k = 0)
    BY <2>6
  <2> QED BY <2>4, <2>5, <2>7 DEF start, by, single
<1> QED BY <1>1 DEF ValuesOf, Says

(* A time matches as it is written, where stars are for the fields that    *)
(* restrict nothing (scheduler.py:39-55).                                  *)
LEMMA MatchesAsWritten ==
  ASSUME NEW cron, ValidCron(cron), NEW time \in ClockTime,
         cron.day.wildcard = SaysAll(cron.day, 1, 31),
         cron.weekday.wildcard = SaysAll(cron.weekday, 0, 7)
  PROVE  Matches(cron, time) <=> DueAsWritten(cron, time)
<1>. DEFINE day == time.day \in ValuesOf(cron.day, 1, 31)
            weekday == (time.weekday + 1) % 7 \in DaysOfWeek(cron.weekday)
            byWeek == \/ Says(cron.weekday, (time.weekday + 1) % 7, 0, 7)
                      \/ time.weekday = 6 /\ Says(cron.weekday, 7, 0, 7)
<1>1. /\ time.minute \in Nat /\ time.hour \in Nat /\ time.day \in 1..31 /\ time.month \in Nat
      /\ time.weekday \in 0..6
  BY DEF ClockTime
<1>2. /\ time.minute \in ValuesOf(cron.minute, 0, 59) <=> Says(cron.minute, time.minute, 0, 59)
      /\ time.hour \in ValuesOf(cron.hour, 0, 23) <=> Says(cron.hour, time.hour, 0, 23)
      /\ time.month \in ValuesOf(cron.month, 1, 12) <=> Says(cron.month, time.month, 1, 12)
      /\ day <=> Says(cron.day, time.day, 1, 31)
  BY <1>1, SaysWhatIsListed DEF ValidCron
<1>3. weekday <=> byWeek
  <2>1. \A v \in Nat : v \in ValuesOf(cron.weekday, 0, 7) <=> Says(cron.weekday, v, 0, 7)
    BY SaysWhatIsListed DEF ValidCron
  <2>2. (time.weekday + 1) % 7 = IF time.weekday = 6 THEN 0 ELSE time.weekday + 1
    BY <1>1
  <2>3. ValuesOf(cron.weekday, 0, 7) \subseteq Nat
    BY DEF ValuesOf, Listed, ValidCron, ValidField, Star, Open, NoStep
  <2> QED BY <1>1, <2>1, <2>2, <2>3 DEF DaysOfWeek
<1>4. SaysAll(cron.day, 1, 31) => Says(cron.day, time.day, 1, 31)
  BY <1>1 DEF SaysAll
<1>5. SaysAll(cron.weekday, 0, 7) => byWeek
  <2>1. (time.weekday + 1) % 7 \in 0..7
    BY <1>1
  <2> QED BY <2>1 DEF SaysAll
<1>6. DayMatches(cron, time) <=>
        CASE cron.day.wildcard /\ cron.weekday.wildcard -> day /\ weekday
          [] cron.day.wildcard /\ ~cron.weekday.wildcard -> weekday
          [] ~cron.day.wildcard /\ cron.weekday.wildcard -> day
          [] OTHER -> day \/ weekday
  BY DEF DayMatches
<1>7. DueAsWritten(cron, time) <=>
        /\ Says(cron.minute, time.minute, 0, 59) /\ Says(cron.hour, time.hour, 0, 23)
        /\ Says(cron.month, time.month, 1, 12)
        /\ SaysAll(cron.day, 1, 31) \/ Says(cron.day, time.day, 1, 31)
             \/ (byWeek /\ ~SaysAll(cron.weekday, 0, 7))
        /\ SaysAll(cron.weekday, 0, 7) \/ byWeek
             \/ (Says(cron.day, time.day, 1, 31) /\ ~SaysAll(cron.day, 1, 31))
  BY DEF DueAsWritten
<1>. HIDE DEF day, weekday, byWeek
<1>8. SaysAll(cron.day, 1, 31) \in BOOLEAN /\ SaysAll(cron.weekday, 0, 7) \in BOOLEAN
  BY DEF SaysAll
<1> QED BY <1>2, <1>3, <1>4, <1>5, <1>6, <1>7, <1>8 DEF Matches

(* A minute on its way to its process was found due.                       *)
DueInv ==
  /\ workload \in Workload /\ minute \in Minute
  /\ place # "idle" /\ IsScheduler => due \in Minute /\ Due(due)

(* What is on its way to a process was found due.                          *)
LEMMA DueInvariant == Spec => []DueInv
<1>. USE DEF fixed, world, resident, slot, budget, past
<1>1. Init => DueInv
  BY RoundsAssumption DEF Init, DueInv, Minute
<1>2. DueInv /\ [Next]_vars => DueInv'
  <2>. SUFFICES ASSUME DueInv, [Next]_vars PROVE DueInv'
    OBVIOUS
  <2>1. CASE UNCHANGED schedule
    BY <2>1 DEF schedule, DueInv, Due, IsScheduler
  <2>2. CASE ReplaceGroup \/ StartDirectly \/ FindDue \/ ClaimMinute
    BY <2>2 DEF ReplaceGroup, StartDirectly, FindDue, ClaimMinute, MayStart, DueInv, Due,
                IsScheduler
  <2>3. CASE Spawn \/ SpawnRefused \/ SpawnFails
    BY <2>3 DEF Spawn, SpawnRefused, SpawnFails, DueInv, Due, IsScheduler
  <2>4. CASE ResidentDies \/ ClaimFails
    BY <2>4 DEF ResidentDies, ClaimFails, ResidentEnds, NewSlot, DueInv, Due, IsScheduler
  <2>5. CASE NewGeneration \/ WallClock
    BY <2>5 DEF NewGeneration, WallClock, DueInv, Due, IsScheduler
  <2> QED BY <2>1, <2>2, <2>3, <2>4, <2>5, OtherSteps DEF Next
<1> QED BY <1>1, <1>2, PTL DEF Spec

(* A scheduler whose fields with a star are those that restrict nothing is *)
(* run at the minutes its expression names and at no others                *)
(* (scheduler.py:39-55, 94-110, 124-173).                                  *)
THEOREM RunsAsWritten == ASSUME StarsMeanAll PROVE Spec => RunsWhenWritten
<1>1. ASSUME DueInv, IsScheduler, NEW m \in Minute
      PROVE  Due(m) <=> DueAsWritten(workload.cron, LocalTime[m])
  <2>1. LocalTime[m] \in ClockTime
    BY RoundsAssumption DEF Minute
  <2>2. ValidCron(workload.cron)
    BY <1>1, RoundsAssumption DEF DueInv
  <2>3. /\ workload.cron.day.wildcard = SaysAll(workload.cron.day, 1, 31)
        /\ workload.cron.weekday.wildcard = SaysAll(workload.cron.weekday, 0, 7)
    BY <1>1 DEF DueInv, StarsMeanAll, IsScheduler
  <2> QED BY <2>1, <2>2, <2>3, MatchesAsWritten DEF Due
<1>2. ASSUME IInv, DueInv, [Next]_vars, runs' # runs
      PROVE  DueAsWritten(workload.cron, LocalTime[runs'[Len(runs')].minute])
  <2>1. place = "spawn" /\ IsScheduler /\ runs' = Append(runs, Claim(generation, due))
    <3>. USE DEF past
    <3>1. CASE ReplaceGroup \/ StartDirectly \/ FindDue \/ ClaimMinute
      BY <1>2, <3>1 DEF ReplaceGroup, StartDirectly, FindDue, ClaimMinute
    <3>2. CASE SpawnRefused \/ SpawnFails
      BY <1>2, <3>2 DEF SpawnRefused, SpawnFails
    <3>3. CASE ClaimFails \/ ResidentDies
      BY <1>2, <3>3 DEF ClaimFails, ResidentDies
    <3>4. CASE NewGeneration \/ WallClock
      BY <1>2, <3>4 DEF NewGeneration, WallClock
    <3>5. CASE Spawn
      BY <1>2, <3>5 DEF Spawn
    <3> QED BY <1>2, <3>1, <3>2, <3>3, <3>4, <3>5, OtherSteps DEF Next, schedule
  <2>2. runs'[Len(runs')] = Claim(generation, due)
    BY <2>1 DEF IInv, ClockInv
  <2>3. due \in Minute /\ Due(due)
    BY <1>2, <2>1 DEF DueInv
  <2> QED BY <1>1, <1>2, <2>1, <2>2, <2>3 DEF Claim
<1>3. ASSUME DueInv, IsScheduler, MayStart, DueAsWritten(workload.cron, LocalTime[minute])
      PROVE  Due(minute)
  BY <1>1, <1>3 DEF DueInv
<1>4. IInv /\ DueInv /\ [Next]_vars =>
        [/\ runs' # runs => DueAsWritten(workload.cron, LocalTime[runs'[Len(runs')].minute])
         /\ IsScheduler /\ MayStart /\ DueAsWritten(workload.cron, LocalTime[minute]) =>
              Claimed(minute) \/ Due(minute)]_vars
  BY <1>2, <1>3
<1> QED BY <1>4, Invariant, DueInvariant, PTL DEF Spec, RunsWhenWritten

-----------------------------------------------------------------------------
(* The documents, the clock and the claim are in their ranges.             *)
Schedules ==
  /\ workload \in Workload
  /\ wanted \in 1..workload.generations /\ generation \in Generation /\ generation <= wanted
  /\ minute \in Minute /\ due \in Minute \union {0}
  /\ claim = Unclaimed \/ claim \in {Claim(g, m) : g \in Generation, m \in Minute}
  /\ place \in {"idle", "claim", "spawn"}
  /\ place = "claim" => due \in Minute

(* There are as many attempts as processes were started, and the last      *)
(* verdict is on an earlier one than that there is.                        *)
Processes ==
  /\ used \in 0..workload.attempts /\ process \in 0..used
  /\ place # "idle" => process = NoAttempt /\ used < workload.attempts
  /\ code \in {0, 1, Running} /\ (code = Running => process # NoAttempt)
  /\ classifier = IF IsQueue THEN process ELSE NoAttempt
  /\ verdict \in Verdicts /\ verdict.of <= used
  /\ process # NoAttempt => verdict.of < process

(* The frames of a classifier.                                             *)
Understood(fs) ==
  /\ fs \in Seq(workload.lines) /\ \A i \in DOMAIN fs : fs[i].kind = "frame"
  /\ \/ fs = <<>>
     \/ Len(fs) = 1 /\ IsStart(fs[1])
     \/ Len(fs) = 2 /\ IsStart(fs[1]) /\ ~IsStart(fs[2])

(* The lines that are left are the last ones.                              *)
Behind(left, all) ==
  /\ Len(left) <= Len(all)
  /\ \A i \in DOMAIN left : left[i] = all[(Len(all) - Len(left)) + i]

(* A pipe has what is left of the output, and a reader from its process    *)
(* on.                                                                     *)
Readers ==
  /\ frames \in [Attempt -> Seq(workload.lines)]
  /\ output \in [Attempt -> Seq(workload.lines)] /\ written \in [Attempt -> Seq(workload.lines)]
  /\ reader \in [Attempt -> {"none", "reading", "holding", "done"}]
  /\ held \in [Attempt -> 0..used]
  /\ \A a \in Attempt :
       /\ Understood(frames[a])
       /\ Behind(output[a], written[a]) \/ reader[a] = "done"
       /\ reader[a] = "holding" => output[a] # <<>>
       /\ reader[a] = "none" => output[a] = <<>> /\ written[a] = <<>>
       /\ reader[a] = "none" <=> a > used
       /\ a > used => frames[a] = <<>>

(* The flags.                                                              *)
Flags ==
  /\ stopping \in BOOLEAN /\ runtimeError \in BOOLEAN /\ protocolError \in BOOLEAN
  /\ fatal \in BOOLEAN /\ recycling \in BOOLEAN /\ mixed \in BOOLEAN /\ troubled \in BOOLEAN

(* All of it.                                                              *)
Shape == Schedules /\ Processes /\ Readers /\ Flags

(* The numbers of a group.                                                 *)
LEMMA Attempts ==
  ASSUME workload \in Workload
  PROVE  /\ workload.attempts \in Nat /\ workload.attempts <= MaxAttempts /\ MaxAttempts \in Nat
         /\ workload.generations \in Generation /\ MaxGenerations \in Nat
         /\ 0 \in 0..MaxAttempts
         /\ \A line \in workload.lines : IsLine(line)
BY RoundsAssumption DEF Generation

(* The initial state has the shape.                                        *)
LEMMA InitShape == Init => Shape
<1>. SUFFICES ASSUME Init PROVE Shape
  OBVIOUS
<1>1. workload \in Workload
  BY DEF Init
<1>2. Schedules
  BY <1>1, RoundsAssumption DEF Init, Schedules, Generation, Minute
<1>3. Processes
  <2>1. verdict \in Verdicts
    BY RoundsAssumption DEF Init, Verdicts, NoAttempt
  <2>2. workload.attempts \in Nat /\ verdict.of = 0
    BY <1>1, Attempts DEF Init, NoAttempt
  <2> QED BY <2>1, <2>2 DEF Init, Processes, NoAttempt, Running
<1>4. Readers
  <2>1. Understood(<<>>) /\ Behind(<<>>, <<>>)
    BY DEF Understood, Behind
  <2> QED BY <2>1, RoundsAssumption DEF Init, Readers, Attempt, NoAttempt
<1>5. Flags
  BY DEF Init, Flags
<1> QED BY <1>2, <1>3, <1>4, <1>5 DEF Shape

(* Every step keeps the documents, the clock and the claim in their        *)
(* ranges.                                                                 *)
LEMMA KeepsGroups == ASSUME Shape, [Next]_vars PROVE Schedules'
<1>. USE DEF fixed, world, resident, slot, budget, past, Shape
<1>1. CASE UNCHANGED schedule
  BY <1>1 DEF schedule, Schedules
<1>2. CASE ReplaceGroup \/ StartDirectly \/ FindDue
  BY <1>2, Attempts DEF ReplaceGroup, StartDirectly, FindDue, Schedules, Generation
<1>3. CASE ClaimMinute
  BY <1>3 DEF ClaimMinute, Schedules
<1>4. CASE Spawn \/ SpawnRefused \/ SpawnFails
  BY <1>4 DEF Spawn, SpawnRefused, SpawnFails, Schedules
<1>5. CASE ResidentDies \/ ClaimFails
  <2>1. wanted \in Generation
    BY Attempts DEF Schedules, Generation
  <2>2. claim' = claim \/ (place = "claim" /\ claim' = Claim(generation, due))
    BY <1>5 DEF ResidentDies, ClaimFails
  <2>3. /\ UNCHANGED <<workload, wanted, minute>> /\ generation' = wanted /\ place' = "idle"
        /\ due' = 0
    BY <1>5 DEF ResidentDies, ClaimFails, ResidentEnds, NewSlot
  <2> QED BY <2>1, <2>2, <2>3 DEF Schedules, Generation
<1>6. CASE NewGeneration \/ WallClock
  BY <1>6, Attempts DEF NewGeneration, WallClock, Schedules, Generation
<1> QED BY <1>1, <1>2, <1>3, <1>4, <1>5, <1>6, OtherSteps DEF Next

(* The group is the same for ever.                                         *)
LEMMA SameWorkload == ASSUME [Next]_vars PROVE workload' = workload
BY DEF Next, vars, ReplaceGroup, StartDirectly, FindDue, ClaimMinute, ClaimFails, Spawn,
       SpawnRefused, SpawnFails, Fetch, Observe, EndOfPipe, PipeFails, Write, Exit, Watchdog,
       RequestStop, Finish, ResidentDies, NewGeneration, WallClock, Tick,
       fixed, world, child, resident, slot, errors, parser, restart, readers, budget, past

(* What the worker said is judged by the frames.                           *)
LEMMA Judged ==
  ASSUME Shape, process # NoAttempt, NEW error \in BOOLEAN
  PROVE  Judge(error).healthy \in BOOLEAN /\ Judge(error).outcome \in
           {"unknown", "empty", "success", "released", "failed",
            "scheduler_completed", "scheduler_failed"}
<1>1. CASE IsQueue
  <2>1. process \in Attempt /\ Understood(frames[process])
    BY Attempts DEF Shape, Schedules, Processes, Readers, Attempt, NoAttempt
  <2>2. CASE Len(frames[process]) = 2
    <3>1. frames[process][2] \in workload.lines /\ frames[process][2].kind = "frame"
          /\ ~IsStart(frames[process][2])
      BY <2>1, <2>2 DEF Understood
    <3>2. frames[process][2].status \in {"success", "released_after_exception", "failed"}
      BY <3>1, Attempts DEF IsLine, IsStart, FrameStatus, Shape, Schedules
    <3>3. OutcomeOf(frames[process][2]) \in {"success", "released", "failed"}
      BY <3>2 DEF OutcomeOf
    <3> QED BY <1>1, <2>2, <3>3 DEF Judge, Completion, Unknown, Verdict
  <2>3. CASE Len(frames[process]) # 2
    BY <1>1, <2>1, <2>3 DEF Judge, Completion, Unknown, Verdict, Understood
  <2> QED BY <2>2, <2>3
<1>2. CASE IsScheduler /\ ~IsQueue
  BY <1>2 DEF Judge, Verdict
<1>3. CASE ~IsScheduler /\ ~IsQueue
  BY <1>3 DEF Judge, Unknown, Verdict
<1> QED BY <1>1, <1>2, <1>3

(* Every step keeps what is known of the process and of the last verdict.  *)
LEMMA KeepsProcesses == ASSUME Shape, [Next]_vars PROVE Processes'
<1>. USE DEF fixed, world, child, resident, slot, errors, parser, restart, readers, budget, past
<1>1. /\ workload \in Workload /\ used \in Nat /\ process \in Nat /\ process <= used
      /\ verdict \in Verdicts /\ verdict.of \in Nat
  BY Attempts DEF Shape, Schedules, Processes, Verdicts
<1>2. workload' = workload
  BY SameWorkload
<1>. SUFFICES ASSUME workload' = workload, IsQueue' = IsQueue PROVE Processes'
  BY <1>2 DEF IsQueue
<1>3. CASE UNCHANGED <<used, process, place, code, classifier, verdict>>
  BY <1>3 DEF Shape, Processes
<1>4. CASE StartDirectly \/ FindDue
  BY <1>4 DEF StartDirectly, FindDue, MayStart, Shape, Processes
<1>5. CASE ClaimMinute
  BY <1>5 DEF ClaimMinute, Shape, Processes
<1>6. CASE Spawn
  <2>1. /\ place = "spawn" /\ place' = "idle" /\ used' = used + 1 /\ process' = used + 1
        /\ code' = Running /\ classifier' = IF IsQueue THEN used + 1 ELSE NoAttempt
        /\ verdict' = verdict
    BY <1>6 DEF Spawn, Reset
  <2>2. used < workload.attempts /\ workload.attempts \in Nat /\ verdict.of <= used
    BY <1>1, <2>1, Attempts DEF Shape, Processes
  <2> QED BY <1>1, <2>1, <2>2 DEF Processes, NoAttempt, Running
<1>7. CASE SpawnRefused
  BY <1>7 DEF SpawnRefused, Reset, Shape, Processes
<1>8. CASE SpawnFails
  <2>1. /\ place = "spawn" /\ place' = "idle" /\ UNCHANGED <<used, process, code>>
        /\ classifier' = NoAttempt
        /\ verdict' = [verdict EXCEPT !.healthy = FALSE, !.stopped = FALSE, !.of = NoAttempt]
    BY <1>8 DEF SpawnFails, Reset
  <2>2. verdict' \in Verdicts /\ verdict'.of = 0
    BY <1>1, <2>1, Attempts DEF Verdicts, NoAttempt
  <2> QED BY <1>1, <2>1, <2>2 DEF Shape, Processes, NoAttempt
<1>9. CASE ResidentDies \/ ClaimFails
  <2>1. /\ place' = "idle" /\ used' = used /\ process' = NoAttempt /\ code' = 0
        /\ classifier' = NoAttempt
        /\ verdict' = [verdict EXCEPT !.healthy = TRUE, !.of = NoAttempt]
    BY <1>9 DEF ResidentDies, ClaimFails, ResidentEnds, NewSlot
  <2>2. verdict' \in Verdicts /\ verdict'.of = 0
    BY <1>1, <2>1, Attempts DEF Verdicts, NoAttempt
  <2> QED BY <1>1, <2>1, <2>2 DEF Shape, Processes, NoAttempt, Running
<1>10. CASE Exit
  BY <1>10 DEF Exit, Shape, Processes, Running
<1>11. CASE Watchdog
  BY <1>11 DEF Watchdog, Shape, Processes, Running
<1>12. CASE Finish
  <2>. DEFINE overdue == reader[process] # "done"
              judged  == Judge(runtimeError \/ overdue)
  <2>1. /\ place = "idle" /\ process # NoAttempt /\ code # Running /\ place' = place
        /\ verdict' = [of |-> process, healthy |-> judged.healthy, outcome |-> judged.outcome,
                       code |-> code, stopped |-> stopping, late |-> overdue,
                       alone |-> ~mixed, troubled |-> troubled]
        /\ process' = NoAttempt /\ classifier' = NoAttempt /\ UNCHANGED <<used, code>>
    BY <1>12 DEF Finish
  <2>2. judged.healthy \in BOOLEAN /\ judged.outcome \in
           {"unknown", "empty", "success", "released", "failed",
            "scheduler_completed", "scheduler_failed"}
    BY <2>1, Judged DEF Shape, Flags
  <2>. HIDE DEF judged
  <2>3. /\ process \in 0..MaxAttempts /\ code \in {0, 1} /\ stopping \in BOOLEAN
        /\ mixed \in BOOLEAN /\ troubled \in BOOLEAN
    BY <1>1, <2>1, Attempts DEF Shape, Processes, Flags
  <2>4. verdict' \in Verdicts /\ verdict'.of = process
    BY <2>1, <2>2, <2>3 DEF Verdicts
  <2> QED BY <1>1, <2>1, <2>4 DEF Shape, Processes, NoAttempt, Running
<1>13. CASE \E a \in Attempt : Fetch(a) \/ Observe(a) \/ EndOfPipe(a) \/ PipeFails(a)
  BY <1>3, <1>13 DEF Fetch, Observe, EndOfPipe, PipeFails
<1>14. CASE \/ ReplaceGroup \/ (\E line \in workload.lines : Write(line)) \/ RequestStop
            \/ NewGeneration \/ WallClock \/ Tick
  BY <1>3, <1>14 DEF ReplaceGroup, Write, RequestStop, NewGeneration, WallClock, Tick
<1> QED
  BY <1>3, <1>4, <1>5, <1>6, <1>7, <1>8, <1>9, <1>10, <1>11, <1>12, <1>13, <1>14 DEF Next, vars

(* Every step keeps the flags Boolean.                                     *)
LEMMA KeepsFlags == ASSUME Shape, [Next]_vars PROVE Flags'
<1>. USE DEF fixed, world, child, resident, slot, errors, parser, restart, readers, budget, past,
             Shape, Flags
<1>1. CASE ReplaceGroup \/ StartDirectly \/ FindDue \/ ClaimMinute
  BY <1>1 DEF ReplaceGroup, StartDirectly, FindDue, ClaimMinute
<1>2. CASE Spawn \/ SpawnRefused \/ SpawnFails
  BY <1>2 DEF Spawn, SpawnRefused, SpawnFails, Reset, RecordCrash, Stale
<1>3. CASE ResidentDies \/ ClaimFails
  BY <1>3 DEF ResidentDies, ClaimFails, ResidentEnds, NewSlot
<1>4. ASSUME NEW a \in Attempt, Fetch(a) \/ EndOfPipe(a) \/ PipeFails(a) PROVE Flags'
  BY <1>4 DEF Fetch, EndOfPipe, PipeFails
<1>5. ASSUME NEW a \in Attempt, Observe(a) PROVE Flags'
  BY <1>5 DEF Observe, Raises
<1>6. CASE (\E line \in workload.lines : Write(line)) \/ Exit \/ Watchdog \/ RequestStop
  BY <1>6 DEF Write, Exit, Watchdog, RequestStop
<1>7. CASE Finish
  BY <1>7 DEF Finish, Recycle, RecordCrash
<1>8. CASE NewGeneration \/ WallClock \/ Tick \/ UNCHANGED vars
  BY <1>8 DEF NewGeneration, WallClock, Tick, vars
<1> QED BY <1>1, <1>2, <1>3, <1>4, <1>5, <1>6, <1>7, <1>8 DEF Next

(* A line more leaves the frames a start, followed or not by an end.       *)
LEMMA FramesGrow ==
  ASSUME workload \in Workload, NEW fs, Understood(fs), NEW line \in workload.lines
  PROVE  Understood(Consume(fs, line))
<1>1. fs \in Seq(workload.lines) /\ Len(fs) \in Nat
  BY DEF Understood
<1>2. CASE line.kind = "frame" /\ Follows(fs, line)
  <2>. DEFINE more == Append(fs, line)
  <2>1. /\ more \in Seq(workload.lines) /\ Len(more) = Len(fs) + 1
        /\ \A i \in 1..Len(fs) : more[i] = fs[i]
        /\ more[Len(fs) + 1] = line /\ DOMAIN more = 1..(Len(fs) + 1)
    BY <1>1
  <2>2. Consume(fs, line) = more
    BY <1>2 DEF Consume
  <2>. HIDE DEF more
  <2>3. \A i \in DOMAIN more : more[i].kind = "frame"
    BY <1>1, <1>2, <2>1 DEF Understood
  <2>4. CASE IsStart(line)
    <3>1. Len(fs) = 0
      BY <1>2, <2>4 DEF Follows
    <3> QED BY <2>1, <2>2, <2>3, <2>4, <3>1 DEF Understood
  <2>5. CASE ~IsStart(line)
    <3>1. Len(fs) = 1 /\ IsStart(fs[1])
      BY <1>2, <2>5 DEF Follows
    <3> QED BY <2>1, <2>2, <2>3, <2>5, <3>1 DEF Understood
  <2> QED BY <2>4, <2>5
<1>3. CASE ~(line.kind = "frame" /\ Follows(fs, line))
  BY <1>3 DEF Consume
<1> QED BY <1>2, <1>3

(* A line that is taken, and a line that is written, leave the pipe with   *)
(* the last ones.                                                          *)
LEMMA BehindSteps ==
  ASSUME NEW S, NEW left \in Seq(S), NEW all \in Seq(S), NEW x \in S, Behind(left, all)
  PROVE  /\ left # <<>> => Behind(Tail(left), all)
         /\ Behind(Append(left, x), Append(all, x))
<1>1. ASSUME left # <<>> PROVE Behind(Tail(left), all)
  <2>. DEFINE t == Tail(left)
  <2>1. /\ Len(t) = Len(left) - 1 /\ DOMAIN t = 1..(Len(left) - 1) /\ Len(left) \in Nat
        /\ Len(all) \in Nat /\ DOMAIN left = 1..Len(left)
        /\ \A i \in DOMAIN t : t[i] = left[i + 1]
    BY <1>1
  <2>. HIDE DEF t
  <2>2. Behind(t, all)
    BY <2>1 DEF Behind
  <2> QED BY <2>2 DEF t
<1>2. Behind(Append(left, x), Append(all, x))
  <2>. DEFINE l == Append(left, x)
              m == Append(all, x)
  <2>1. /\ Len(l) = Len(left) + 1 /\ DOMAIN l = 1..(Len(left) + 1) /\ Len(left) \in Nat
        /\ Len(m) = Len(all) + 1 /\ Len(all) \in Nat /\ DOMAIN left = 1..Len(left)
        /\ \A i \in 1..Len(left) : l[i] = left[i]
        /\ \A i \in 1..Len(all) : m[i] = all[i]
        /\ l[Len(left) + 1] = x /\ m[Len(all) + 1] = x
    OBVIOUS
  <2>. HIDE DEF l, m
  <2>2. Len(m) - Len(l) = Len(all) - Len(left) /\ Len(left) <= Len(all)
    BY <2>1 DEF Behind
  <2>3. ASSUME NEW i \in DOMAIN l PROVE l[i] = m[(Len(all) - Len(left)) + i]
    <3>1. CASE i = Len(left) + 1
      <4>1. (Len(all) - Len(left)) + i = Len(all) + 1
        BY <2>1, <3>1
      <4> QED BY <2>1, <3>1, <4>1
    <3>2. CASE i \in 1..Len(left)
      <4>1. (Len(all) - Len(left)) + i \in 1..Len(all)
        BY <2>1, <2>2, <3>2
      <4> QED BY <2>1, <3>2, <4>1 DEF Behind
    <3> QED BY <2>1, <3>1, <3>2
  <2>4. Behind(l, m)
    BY <2>1, <2>2, <2>3 DEF Behind
  <2> QED BY <2>4 DEF l, m
<1> QED BY <1>1, <1>2

(* Every step keeps the pipes and the readers as they are described.       *)
LEMMA KeepsReaders == ASSUME Shape, [Next]_vars PROVE Readers'
<1>. USE DEF fixed, world, child, resident, slot, errors, parser, restart, readers, budget, past
<1>1. /\ workload \in Workload /\ used \in Nat /\ process \in Nat /\ process <= used
      /\ Readers
  BY Attempts DEF Shape, Schedules, Processes
<1>2. workload' = workload
  BY SameWorkload
<1>3. CASE UNCHANGED <<frames, output, written, reader, held, used>>
  BY <1>1, <1>2, <1>3 DEF Readers, Understood
<1>4. CASE Spawn
  <2>1. /\ place = "spawn" /\ used' = used + 1 /\ UNCHANGED <<frames, output, written, held>>
        /\ reader' = [reader EXCEPT ![used + 1] = "reading"]
    BY <1>4 DEF Spawn
  <2>2. used + 1 \in Attempt /\ \A a \in Attempt : a \in Nat
    BY <1>1, <2>1, Attempts DEF Shape, Processes, Attempt
  <2>3. \A a \in Attempt : reader'[a] = IF a = used + 1 THEN "reading" ELSE reader[a]
    BY <1>1, <2>1, <2>2 DEF Readers
  <2>4. /\ reader' \in [Attempt -> {"none", "reading", "holding", "done"}]
        /\ held' \in [Attempt -> 0..(used + 1)]
    BY <1>1, <2>1, <2>2 DEF Readers
  <2>5. Behind(output[used + 1], written[used + 1])
    BY <1>1, <2>2 DEF Readers, Behind
  <2>6. ASSUME NEW a \in Attempt
        PROVE  /\ Understood(frames[a])'
               /\ Behind(output[a], written[a]) \/ reader'[a] = "done"
               /\ reader'[a] = "holding" => output[a] # <<>>
               /\ reader'[a] = "none" => output[a] = <<>> /\ written[a] = <<>>
               /\ reader'[a] = "none" <=> a > used + 1
               /\ a > used + 1 => frames[a] = <<>>
    <3>1. Understood(frames[a])'
      BY <1>1, <1>2, <2>1 DEF Readers, Understood
    <3>2. CASE a = used + 1
      BY <1>1, <2>2, <2>3, <2>5, <3>1, <3>2
    <3>3. CASE a # used + 1
      BY <1>1, <2>2, <2>3, <3>1, <3>3 DEF Readers
    <3> QED BY <3>2, <3>3
  <2> QED BY <1>1, <1>2, <2>1, <2>4, <2>6 DEF Readers
<1>5. ASSUME NEW a \in Attempt, Fetch(a) PROVE Readers'
  <2>1. /\ reader[a] = "reading" /\ output[a] # <<>>
        /\ reader' = [reader EXCEPT ![a] = "holding"] /\ held' = [held EXCEPT ![a] = classifier]
        /\ UNCHANGED <<frames, output, written, used>>
    BY <1>5 DEF Fetch
  <2>2. classifier \in 0..used
    BY <1>1 DEF Shape, Processes, NoAttempt
  <2> QED BY <1>1, <1>2, <2>1, <2>2 DEF Readers, Understood
<1>6. ASSUME NEW a \in Attempt, Observe(a) PROVE Readers'
  <2>. DEFINE line == Head(output[a])
              c == held[a]
  <2>1. /\ reader[a] = "holding" /\ reader' = [reader EXCEPT ![a] = "reading"]
        /\ held' = [held EXCEPT ![a] = NoAttempt]
        /\ output' = [output EXCEPT ![a] = Tail(@)]
        /\ UNCHANGED <<written, used>>
        /\ frames' = IF c = NoAttempt THEN frames ELSE [frames EXCEPT ![c] = Consume(@, line)]
    BY <1>6 DEF Observe
  <2>2. output[a] # <<>> /\ output[a] \in Seq(workload.lines) /\ line \in workload.lines
    BY <1>1, <2>1 DEF Readers
  <2>3. Tail(output[a]) \in Seq(workload.lines) /\ Behind(Tail(output[a]), written[a])
    BY <1>1, <2>1, <2>2, BehindSteps DEF Readers
  <2>4. c # NoAttempt => c \in Attempt /\ c <= used
    BY <1>1, Attempts DEF Readers, NoAttempt, Attempt, Shape, Processes
  <2>. HIDE DEF line, c
  <2>5. ASSUME NEW b \in Attempt
        PROVE  /\ Understood(frames'[b]) /\ frames'[b] \in Seq(workload.lines)
               /\ b > used => frames'[b] = <<>>
    <3>1. CASE c # NoAttempt /\ b = c
      <4>1. frames'[b] = Consume(frames[b], line) /\ Understood(frames[b])
        BY <1>1, <2>1, <2>4, <3>1 DEF Readers
      <4>2. Understood(frames'[b])
        BY <1>1, <2>2, <4>1, FramesGrow
      <4> QED BY <1>1, <2>4, <3>1, <4>2 DEF Understood, Attempt
    <3>2. CASE ~(c # NoAttempt /\ b = c)
      <4>1. frames'[b] = frames[b]
        BY <1>1, <2>1, <2>4, <3>2 DEF Readers
      <4> QED BY <1>1, <4>1 DEF Readers
    <3> QED BY <3>1, <3>2
  <2>6. frames' \in [Attempt -> Seq(workload.lines)]
    <3>1. DOMAIN frames' = Attempt /\ frames' = [b \in Attempt |-> frames'[b]]
      BY <1>1, <2>1 DEF Readers
    <3> QED BY <2>5, <3>1
  <2>7. \A b \in Attempt : Understood(frames[b])'
    BY <1>2, <2>5 DEF Understood
  <2>8. \A b \in Attempt :
          /\ output'[b] = IF b = a THEN Tail(output[a]) ELSE output[b]
          /\ reader'[b] = IF b = a THEN "reading" ELSE reader[b]
    BY <1>1, <2>1 DEF Readers
  <2>9. /\ output' \in [Attempt -> Seq(workload.lines)]
        /\ reader' \in [Attempt -> {"none", "reading", "holding", "done"}]
        /\ held' \in [Attempt -> 0..used]
    BY <1>1, <2>1, <2>3 DEF Readers, NoAttempt
  <2>10. \A b \in Attempt :
           /\ Behind(output'[b], written[b]) \/ reader'[b] = "done"
           /\ reader'[b] = "holding" => output'[b] # <<>>
           /\ reader'[b] = "none" => output'[b] = <<>> /\ written[b] = <<>>
           /\ reader'[b] = "none" <=> b > used
    BY <1>1, <2>1, <2>3, <2>8 DEF Readers
  <2> QED BY <1>2, <2>1, <2>5, <2>6, <2>7, <2>9, <2>10, <1>1 DEF Readers
<1>7. ASSUME NEW a \in Attempt, EndOfPipe(a) \/ PipeFails(a) PROVE Readers'
  <2>1. /\ reader[a] = "reading" /\ reader' = [reader EXCEPT ![a] = "done"]
        /\ output' = output \/ output' = [output EXCEPT ![a] = <<>>]
        /\ UNCHANGED <<frames, held, written, used>>
    BY <1>7 DEF EndOfPipe, PipeFails
  <2>2. \A b \in Attempt :
          /\ output'[b] = output[b] \/ (b = a /\ output'[b] = <<>>)
          /\ reader'[b] = IF b = a THEN "done" ELSE reader[b]
    BY <1>1, <2>1 DEF Readers
  <2>3. /\ output' \in [Attempt -> Seq(workload.lines)]
        /\ reader' \in [Attempt -> {"none", "reading", "holding", "done"}]
    <3>1. <<>> \in Seq(workload.lines)
      OBVIOUS
    <3> QED BY <1>1, <2>1, <3>1 DEF Readers
  <2>4. \A b \in Attempt : Understood(frames[b])'
    BY <1>1, <1>2, <2>1 DEF Readers, Understood
  <2>5. \A b \in Attempt :
           /\ Behind(output'[b], written[b]) \/ reader'[b] = "done"
           /\ reader'[b] = "holding" => output'[b] # <<>>
           /\ reader'[b] = "none" => output'[b] = <<>> /\ written[b] = <<>>
           /\ reader'[b] = "none" <=> b > used
    BY <1>1, <2>1, <2>2 DEF Readers
  <2> QED BY <1>1, <1>2, <2>1, <2>3, <2>4, <2>5 DEF Readers
<1>8. ASSUME NEW line \in workload.lines, Write(line) PROVE Readers'
  <2>1. /\ process # NoAttempt
        /\ written' = [written EXCEPT ![process] = Append(@, line)]
        /\ output' = IF reader[process] = "done" THEN output
                     ELSE [output EXCEPT ![process] = Append(@, line)]
        /\ UNCHANGED <<frames, held, reader, used>>
    BY <1>8 DEF Write
  <2>2. process \in Attempt /\ ~(process > used) /\ reader[process] # "none"
    BY <1>1, <2>1, Attempts DEF Attempt, NoAttempt, Readers, Shape, Processes
  <2>3. \A b \in Attempt :
          /\ written'[b] = IF b = process THEN Append(written[b], line) ELSE written[b]
          /\ output'[b] = IF b = process /\ reader[b] # "done" THEN Append(output[b], line)
                          ELSE output[b]
    BY <1>1, <2>1, <2>2 DEF Readers
  <2>4. /\ output' \in [Attempt -> Seq(workload.lines)]
        /\ written' \in [Attempt -> Seq(workload.lines)]
    <3>1. \A s \in Seq(workload.lines) : Append(s, line) \in Seq(workload.lines)
      OBVIOUS
    <3>2. /\ output[process] \in Seq(workload.lines) /\ written[process] \in Seq(workload.lines)
      BY <1>1, <2>2 DEF Readers
    <3> QED BY <1>1, <2>1, <2>2, <3>1, <3>2 DEF Readers
  <2>5. \A b \in Attempt : Understood(frames[b])'
    BY <1>1, <1>2, <2>1 DEF Readers, Understood
  <2>6. reader[process] # "done" =>
          Behind(Append(output[process], line), Append(written[process], line))
    BY <1>1, <2>2, BehindSteps DEF Readers
  <2>7. \A s \in Seq(workload.lines) : Append(s, line) # <<>>
    OBVIOUS
  <2>8. \A b \in Attempt :
           /\ Behind(output'[b], written'[b]) \/ reader[b] = "done"
           /\ reader[b] = "holding" => output'[b] # <<>>
           /\ reader[b] = "none" => output'[b] = <<>> /\ written'[b] = <<>>
    BY <1>1, <2>2, <2>3, <2>6, <2>7 DEF Readers
  <2> QED BY <1>1, <1>2, <2>1, <2>4, <2>5, <2>8 DEF Readers
<1>9. CASE ResidentDies \/ ClaimFails
  <2>1. /\ output' = [a \in Attempt |-> <<>>]
        /\ reader' = [a \in Attempt |-> IF reader[a] = "none" THEN "none" ELSE "done"]
        /\ held' = [a \in Attempt |-> NoAttempt]
        /\ UNCHANGED <<written, frames, used>>
    BY <1>9 DEF ResidentDies, ClaimFails, ResidentEnds
  <2>2. /\ output' \in [Attempt -> Seq(workload.lines)] /\ held' \in [Attempt -> 0..used]
        /\ reader' \in [Attempt -> {"none", "reading", "holding", "done"}]
    BY <1>1, <2>1 DEF NoAttempt
  <2>3. \A b \in Attempt : Understood(frames[b])'
    BY <1>1, <1>2, <2>1 DEF Readers, Understood
  <2>4. \A b \in Attempt :
           /\ Behind(output'[b], written[b]) \/ reader'[b] = "done"
           /\ reader'[b] = "holding" => output'[b] # <<>>
           /\ reader'[b] = "none" => output'[b] = <<>> /\ written[b] = <<>>
           /\ reader'[b] = "none" <=> b > used
    BY <1>1, <2>1 DEF Readers
  <2> QED BY <1>1, <1>2, <2>1, <2>2, <2>3, <2>4 DEF Readers
<1>10. CASE \/ ReplaceGroup \/ StartDirectly \/ FindDue \/ ClaimMinute \/ SpawnRefused \/ SpawnFails
            \/ Exit \/ Watchdog \/ RequestStop \/ Finish \/ NewGeneration \/ WallClock \/ Tick
            \/ UNCHANGED vars
  BY <1>3, <1>10
     DEF ReplaceGroup, StartDirectly, FindDue, ClaimMinute, SpawnRefused, SpawnFails, Exit,
         Watchdog, RequestStop, Finish, NewGeneration, WallClock, Tick, vars
<1> QED BY <1>4, <1>5, <1>6, <1>7, <1>8, <1>9, <1>10 DEF Next

(* Every state has the shape.                                              *)
LEMMA ShapeInvariant == Spec => []Shape
<1>1. Shape /\ [Next]_vars => Shape'
  BY KeepsGroups, KeepsProcesses, KeepsReaders, KeepsFlags DEF Shape
<1> QED BY <1>1, InitShape, PTL DEF Spec

-----------------------------------------------------------------------------
(* A slot waits or has given up only between two processes, and why is in  *)
(* the verdict.                                                            *)
WaitInv ==
  /\ process # NoAttempt \/ place # "idle" => ~fatal /\ ~(delay > 0)
  /\ fatal => ~verdict.healthy /\ ~verdict.stopped
  /\ delay > 0 /\ recycling => verdict.healthy \/ verdict.stopped
  /\ delay > 0 /\ ~recycling => ~verdict.healthy /\ ~verdict.stopped

(* What the steps leave alone of it, that are not about the end.           *)
waiting == <<process, place, fatal, delay, recycling, verdict, crashes, failures, workload>>

(* The other steps leave the waiting alone.                                *)
LEMMA NotWaiting ==
  ASSUME \/ \E a \in Attempt : Fetch(a) \/ Observe(a) \/ EndOfPipe(a) \/ PipeFails(a)
         \/ (\E line \in workload.lines : Write(line)) \/ Exit \/ Watchdog
         \/ RequestStop \/ NewGeneration \/ WallClock \/ UNCHANGED vars
  PROVE  UNCHANGED waiting
<1>. USE DEF waiting, fixed, world, resident, slot, restart, past
<1>1. CASE \E a \in Attempt : Fetch(a) \/ Observe(a) \/ EndOfPipe(a) \/ PipeFails(a)
  BY <1>1 DEF Fetch, Observe, EndOfPipe, PipeFails
<1>2. CASE (\E line \in workload.lines : Write(line)) \/ Exit \/ Watchdog
  BY <1>2 DEF Write, Exit, Watchdog
<1>3. CASE RequestStop \/ NewGeneration \/ WallClock \/ UNCHANGED vars
  BY <1>3 DEF RequestStop, NewGeneration, WallClock, vars
<1> QED BY <1>1, <1>2, <1>3

(* Why a slot waits or has given up is always in the verdict.              *)
LEMMA WaitInvariant == Spec => []WaitInv
<1>. USE DEF fixed, world, resident, slot, restart, past
<1>1. Init => WaitInv
  BY DEF Init, WaitInv
<1>2. Shape /\ WaitInv /\ [Next]_vars => WaitInv'
  <2>. SUFFICES ASSUME Shape, WaitInv, [Next]_vars PROVE WaitInv'
    OBVIOUS
  <2>1. CASE UNCHANGED waiting
    BY <2>1 DEF waiting, WaitInv
  <2>2. CASE ReplaceGroup \/ StartDirectly \/ FindDue \/ ClaimMinute
    BY <2>2 DEF ReplaceGroup, StartDirectly, FindDue, ClaimMinute, MayStart, WaitInv
  <2>3. CASE Spawn \/ SpawnRefused
    BY <2>3 DEF Spawn, SpawnRefused, WaitInv
  <2>4. CASE SpawnFails
    <3>1. process = NoAttempt
      BY <2>4 DEF SpawnFails, Shape, Processes
    <3>2. /\ process' = process /\ place' = "idle" /\ recycling' = FALSE
          /\ verdict' = [verdict EXCEPT !.healthy = FALSE, !.stopped = FALSE, !.of = NoAttempt]
      BY <2>4 DEF SpawnFails, RecordCrash
    <3>3. verdict'.healthy = FALSE /\ verdict'.stopped = FALSE
      BY <3>2 DEF Shape, Processes, Verdicts
    <3> QED BY <3>1, <3>2, <3>3 DEF WaitInv
  <2>5. CASE Finish
    <3>1. /\ place = "idle" /\ process # NoAttempt /\ process' = NoAttempt /\ place' = place
          /\ ~fatal
      BY <2>5 DEF Finish, WaitInv
    <3>2. CASE verdict'.healthy \/ verdict'.stopped
      <4>1. recycling' = TRUE /\ fatal' = fatal
        BY <2>5, <3>2 DEF Finish, Recycle
      <4> QED BY <3>1, <3>2, <4>1 DEF WaitInv
    <3>3. CASE ~(verdict'.healthy \/ verdict'.stopped)
      <4>1. RecordCrash
        BY <2>5, <3>3 DEF Finish
      <4>2. recycling' = FALSE
        BY <4>1 DEF RecordCrash
      <4> QED BY <3>1, <3>3, <4>2 DEF WaitInv
    <3> QED BY <3>2, <3>3
  <2>6. CASE ResidentDies \/ ClaimFails
    BY <2>6 DEF ResidentDies, ClaimFails, ResidentEnds, NewSlot, WaitInv
  <2>7. CASE Tick
    <3>1. /\ delay' = IF delay > 0 THEN delay - 1 ELSE 0
          /\ UNCHANGED <<process, place, fatal, recycling, verdict>>
      BY <2>7 DEF Tick
    <3> QED BY <3>1 DEF WaitInv
  <2> QED BY <2>1, <2>2, <2>3, <2>4, <2>5, <2>6, <2>7, NotWaiting DEF Next
<1> QED BY <1>1, <1>2, ShapeInvariant, PTL DEF Spec

(* A slot without a process shows how its last one ended: backoff and      *)
(* fatal mean a failure, idle does not (slot.py:269-283, 413-449).         *)
THEOREM StatusTruly == Spec => []StatusTellsTheEnd
<1>1. WaitInv => StatusTellsTheEnd
  BY DEF WaitInv, StatusTellsTheEnd, Status
<1> QED BY <1>1, WaitInvariant, PTL

-----------------------------------------------------------------------------
(* A set of numbers has a first one.                                       *)
LEMMA FirstOf ==
  ASSUME NEW T \in SUBSET Nat, NEW n \in T
  PROVE  \E m \in T : \A k \in T : m <= k
<1>1. PICK m \in T : \A k \in T : ~(<<k, m>> \in OpToRel(<, Nat))
  BY NatLessThanWellFounded, WFMin
<1>2. \A k \in T : ~(k < m)
  BY <1>1 DEF OpToRel
<1> QED BY <1>2

(* What is left of a sequence from a place on.                             *)
LEMMA RestOf ==
  ASSUME NEW ages \in Seq(Nat), NEW n \in 1..(Len(ages) + 1)
  PROVE  LET rest == SubSeq(ages, n, Len(ages))
         IN  /\ rest \in Seq(Nat) /\ Len(rest) = Len(ages) - (n - 1)
             /\ \A i \in 1..(Len(ages) - (n - 1)) : rest[i] = ages[i + (n - 1)]
<1>. DEFINE rest == SubSeq(ages, n, Len(ages))
<1>1. Len(ages) \in Nat /\ \A i \in n..Len(ages) : ages[i] \in Nat
  OBVIOUS
<1>2. /\ rest \in Seq(Nat) /\ Len(rest) = IF n <= Len(ages) THEN Len(ages) - n + 1 ELSE 0
      /\ \A i \in 1..(Len(ages) - n + 1) : rest[i] = ages[n + i - 1]
  BY <1>1, SubSeqProperties
<1>. HIDE DEF rest
<1>3. \A i \in 1..(Len(ages) - (n - 1)) : rest[i] = ages[i + (n - 1)]
  <2>1. ASSUME NEW i \in 1..(Len(ages) - (n - 1))
        PROVE  n + i - 1 = i + (n - 1) /\ i \in 1..(Len(ages) - n + 1)
    BY <1>1
  <2> QED BY <1>2, <2>1
<1>4. Len(rest) = Len(ages) - (n - 1)
  BY <1>1, <1>2
<1>5. /\ rest \in Seq(Nat) /\ Len(rest) = Len(ages) - (n - 1)
      /\ \A i \in 1..(Len(ages) - (n - 1)) : rest[i] = ages[i + (n - 1)]
  BY <1>2, <1>3, <1>4
<1> QED BY <1>5 DEF rest

(* The window of the restart policy.                                       *)
Window == Policy.window

(* Dropping the old ones from the front leaves all those in the window, in *)
(* a sequence in which the oldest come first.                              *)
LEMMA WindowDrops ==
  ASSUME NEW ages \in Seq(Nat), Window \in Nat
  PROVE  \E k \in 0..Len(ages) :
           /\ InWindow(ages) \in Seq(Nat) /\ Len(InWindow(ages)) = Len(ages) - k
           /\ \A i \in 1..k : ages[i] > Window
           /\ \A i \in 1..(Len(ages) - k) : InWindow(ages)[i] = ages[i + k]
           /\ k < Len(ages) => ages[k + 1] <= Window
<1>. DEFINE Fits(n) == /\ \A i \in 1..(n - 1) : ages[i] > Policy.window
                       /\ n <= Len(ages) => ages[n] <= Policy.window
            T == {n \in 1..(Len(ages) + 1) : n <= Len(ages) => ages[n] <= Window}
            first == CHOOSE n \in 1..(Len(ages) + 1) : Fits(n)
<1>1. Len(ages) \in Nat /\ \A i \in 1..Len(ages) : ages[i] \in Nat
  OBVIOUS
<1>2. \E n \in 1..(Len(ages) + 1) : Fits(n)
  <2>1. Len(ages) + 1 \in T /\ T \subseteq Nat
    BY <1>1
  <2>2. PICK n \in T : \A k \in T : n <= k
    BY <2>1, FirstOf
  <2>3. ASSUME NEW i \in 1..(n - 1) PROVE ages[i] > Window
    <3>1. i \in 1..(Len(ages) + 1) /\ i \notin T /\ i <= Len(ages)
      BY <1>1, <2>2
    <3> QED BY <1>1, <3>1 DEF Window
  <2> QED BY <2>2, <2>3 DEF Window
<1>3. first \in 1..(Len(ages) + 1) /\ Fits(first)
  BY <1>2
<1>4. InWindow(ages) = SubSeq(ages, first, Len(ages))
  BY DEF InWindow
<1>. HIDE DEF first
<1>5. /\ InWindow(ages) \in Seq(Nat) /\ Len(InWindow(ages)) = Len(ages) - (first - 1)
      /\ \A i \in 1..(Len(ages) - (first - 1)) : InWindow(ages)[i] = ages[i + (first - 1)]
  BY <1>3, <1>4, RestOf
<1>6. first - 1 \in 0..Len(ages)
  BY <1>1, <1>3
<1>7. /\ \A i \in 1..(first - 1) : ages[i] > Window
      /\ first - 1 < Len(ages) => ages[(first - 1) + 1] <= Window
  <2>1. (first - 1) + 1 = first /\ (first - 1 < Len(ages) => first <= Len(ages))
    BY <1>1, <1>3
  <2> QED BY <1>3, <2>1 DEF Window
<1>. DEFINE k == first - 1
<1>8. /\ k \in 0..Len(ages)
      /\ InWindow(ages) \in Seq(Nat) /\ Len(InWindow(ages)) = Len(ages) - k
      /\ \A i \in 1..k : ages[i] > Window
      /\ \A i \in 1..(Len(ages) - k) : InWindow(ages)[i] = ages[i + k]
      /\ k < Len(ages) => ages[k + 1] <= Window
  BY <1>5, <1>6, <1>7
<1>. HIDE DEF k
<1> QED BY <1>8

(* What the slot counts is the end of the history; what it has dropped is  *)
(* out of the window.                                                      *)
Counted(kept, all) ==
  /\ kept \in Seq(Nat) /\ all \in Seq(Nat) /\ Len(kept) <= Len(all)
  /\ \A i, j \in DOMAIN all : i < j => all[i] >= all[j]
  /\ \A i \in DOMAIN kept : kept[i] = all[(Len(all) - Len(kept)) + i]
  /\ \A i \in 1..(Len(all) - Len(kept)) : all[i] > Window
  /\ \A i \in DOMAIN all : all[i] <= Window + 1

(* The slot counts as it should.                                           *)
CrashInv == workload \in Workload /\ Counted(crashes, failures)

(* Counting one more failure and dropping what is out of the window leaves *)
(* the count of all failures within it.                                    *)
LEMMA CountsRecent ==
  ASSUME workload \in Workload, NEW kept, NEW all, Counted(kept, all)
  PROVE  /\ Counted(InWindow(Append(kept, 0)), Append(all, 0))
         /\ Len(InWindow(Append(kept, 0))) = Recent(Append(all, 0))
<1>. DEFINE more == Append(kept, 0)
            whole == Append(all, 0)
            left == InWindow(more)
<1>1. Window \in Nat
  BY RoundsAssumption DEF Window, Policy
<1>2. /\ kept \in Seq(Nat) /\ all \in Seq(Nat) /\ Len(kept) \in Nat /\ Len(all) \in Nat
      /\ Len(kept) <= Len(all)
      /\ \A i \in DOMAIN all : all[i] \in Nat
  BY DEF Counted
<1>3. /\ more \in Seq(Nat) /\ Len(more) = Len(kept) + 1 /\ DOMAIN more = 1..(Len(kept) + 1)
      /\ \A i \in 1..Len(kept) : more[i] = kept[i]
      /\ more[Len(kept) + 1] = 0
  BY <1>2
<1>4. /\ whole \in Seq(Nat) /\ Len(whole) = Len(all) + 1 /\ DOMAIN whole = 1..(Len(all) + 1)
      /\ \A i \in 1..Len(all) : whole[i] = all[i]
      /\ whole[Len(all) + 1] = 0
  BY <1>2
<1>. HIDE DEF more, whole
<1>5. PICK k \in 0..Len(more) :
        /\ left \in Seq(Nat) /\ Len(left) = Len(more) - k
        /\ \A i \in 1..k : more[i] > Window
        /\ \A i \in 1..(Len(more) - k) : left[i] = more[i + k]
        /\ k < Len(more) => more[k + 1] <= Window
  BY <1>1, <1>3, WindowDrops
<1>. HIDE DEF left
<1>. DEFINE d == Len(all) - Len(kept)
<1>0. d \in Nat /\ Len(all) = d + Len(kept)
  BY <1>2
<1>. HIDE DEF d
<1>6. \A i \in 1..Len(more) : more[i] = whole[d + i]
  <2>1. ASSUME NEW i \in 1..Len(kept) PROVE more[i] = whole[d + i]
    <3>1. d + i \in 1..Len(all)
      BY <1>0, <1>2
    <3>2. i \in DOMAIN kept
      BY <1>2
    <3>3. kept[i] = all[d + i]
      BY <3>2 DEF Counted, d
    <3> QED BY <1>3, <1>4, <3>1, <3>3
  <2>2. more[Len(kept) + 1] = whole[d + (Len(kept) + 1)]
    <3>1. d + (Len(kept) + 1) = Len(all) + 1
      BY <1>0, <1>2
    <3> QED BY <1>3, <1>4, <3>1
  <2>3. \A i \in 1..Len(more) : i \in 1..Len(kept) \/ i = Len(kept) + 1
    BY <1>2, <1>3
  <2> QED BY <2>1, <2>2, <2>3
<1>7. \A i, j \in DOMAIN whole : i < j => whole[i] >= whole[j]
  <2>1. ASSUME NEW i \in DOMAIN whole, NEW j \in DOMAIN whole, i < j
        PROVE  whole[i] >= whole[j]
    <3>1. i \in 1..Len(all) /\ i \in DOMAIN all
      BY <1>2, <1>4, <2>1
    <3>2. CASE j = Len(all) + 1
      BY <1>2, <1>4, <3>1, <3>2
    <3>3. CASE j # Len(all) + 1
      <4>1. j \in 1..Len(all) /\ j \in DOMAIN all
        BY <1>2, <1>4, <3>3
      <4> QED BY <1>4, <2>1, <3>1, <4>1 DEF Counted
    <3> QED BY <3>2, <3>3
  <2> QED BY <2>1
<1>8. k < Len(more)
  BY <1>1, <1>3, <1>5
<1>9. \A i \in 1..(d + k) : whole[i] > Window
  <2>1. ASSUME NEW i \in 1..(d + k), i <= d PROVE whole[i] > Window
    <3>1. i \in 1..d /\ i \in 1..Len(all)
      BY <1>0, <1>2, <1>5, <2>1
    <3> QED BY <1>4, <3>1 DEF Counted, d
  <2>2. ASSUME NEW i \in 1..(d + k), i > d PROVE whole[i] > Window
    <3>1. i - d \in 1..k /\ i - d \in 1..Len(more) /\ d + (i - d) = i
      BY <1>0, <1>2, <1>3, <1>5, <2>2
    <3> QED BY <1>5, <1>6, <3>1
  <2> QED BY <1>0, <1>5, <2>1, <2>2
<1>10. \A i \in DOMAIN whole : i > d + k => whole[i] <= Window
  <2>1. d + k + 1 \in DOMAIN whole /\ whole[d + k + 1] <= Window
    <3>1. k + 1 \in 1..Len(more) /\ d + (k + 1) = d + k + 1
      BY <1>0, <1>2, <1>3, <1>5, <1>8
    <3>2. whole[d + k + 1] <= Window
      BY <1>5, <1>6, <1>8, <3>1
    <3>3. d + k + 1 \in 1..(Len(all) + 1)
      BY <1>0, <1>2, <1>3, <1>5, <1>8
    <3> QED BY <1>4, <3>2, <3>3
  <2>2. \A i \in DOMAIN whole : whole[i] \in Nat /\ i \in Nat
    BY <1>4
  <2>3. ASSUME NEW i \in DOMAIN whole, i > d + k PROVE whole[i] <= Window
    <3>1. i = d + k + 1 \/ d + k + 1 < i
      BY <1>0, <1>5, <2>2, <2>3
    <3> QED BY <1>1, <1>7, <2>1, <2>2, <3>1
  <2> QED BY <2>3
<1>11. Counted(left, whole)
  <2>1. Len(whole) - Len(left) = d + k /\ Len(left) <= Len(whole) /\ d + k \in Nat
    BY <1>0, <1>2, <1>3, <1>4, <1>5
  <2>2. \A i \in DOMAIN left : left[i] = whole[(d + k) + i]
    <3>1. ASSUME NEW i \in DOMAIN left PROVE left[i] = whole[(d + k) + i]
      <4>1. DOMAIN left = 1..(Len(more) - k) /\ k \in Nat /\ Len(more) \in Nat
        BY <1>3, <1>5
      <4>2. i \in 1..(Len(more) - k) /\ i + k \in 1..Len(more)
        BY <4>1
      <4>3. d + (i + k) = (d + k) + i
        BY <1>0, <4>1, <4>2
      <4> QED BY <1>5, <1>6, <4>2, <4>3
    <3> QED BY <3>1
  <2>3. \A i \in DOMAIN whole : whole[i] <= Window + 1
    <3>1. \A i \in 1..Len(all) : all[i] <= Window + 1
      BY <1>2 DEF Counted
    <3>2. whole[Len(all) + 1] <= Window + 1
      BY <1>1, <1>4
    <3>3. \A i \in DOMAIN whole : i \in 1..Len(all) \/ i = Len(all) + 1
      BY <1>2, <1>4
    <3> QED BY <1>4, <3>1, <3>2, <3>3
  <2> QED BY <1>4, <1>5, <1>7, <1>9, <2>1, <2>2, <2>3 DEF Counted
<1>12. Len(left) = Recent(whole)
  <2>1. {i \in DOMAIN whole : whole[i] <= Window} = (d + k + 1)..(Len(all) + 1)
    <3>1. ASSUME NEW i \in DOMAIN whole
          PROVE  whole[i] <= Window <=> i \in (d + k + 1)..(Len(all) + 1)
      <4>1. whole[i] \in Nat /\ i \in 1..(Len(all) + 1)
        BY <1>4
      <4>2. d + k \in Nat
        BY <1>0, <1>5
      <4>3. CASE i <= d + k
        <5>1. i \in 1..(d + k)
          BY <4>1, <4>2, <4>3
        <5>2. whole[i] > Window
          BY <1>9, <5>1
        <5> QED BY <1>1, <4>1, <4>2, <4>3, <5>2
      <4>4. CASE i > d + k
        BY <1>10, <4>1, <4>2, <4>4
      <4> QED BY <4>1, <4>2, <4>3, <4>4
    <3>2. (d + k + 1)..(Len(all) + 1) \subseteq DOMAIN whole
      BY <1>0, <1>2, <1>4, <1>5
    <3> QED BY <3>1, <3>2
  <2>2. Cardinality((d + k + 1)..(Len(all) + 1)) = Len(all) + 1 - (d + k + 1) + 1
    <3>1. /\ d + k + 1 \in Int /\ Len(all) + 1 \in Int
          /\ ~(d + k + 1 > Len(all) + 1)
      BY <1>0, <1>2, <1>3, <1>5, <1>8
    <3> QED BY <3>1, FS_Interval
  <2>3. Len(all) + 1 - (d + k + 1) + 1 = Len(left)
    BY <1>0, <1>2, <1>3, <1>5
  <2> QED BY <2>1, <2>2, <2>3 DEF Recent, Window
<1> QED BY <1>11, <1>12 DEF more, whole, left

(* The slot always counts the failures within the window.                  *)
LEMMA CrashInvariant == Spec => []CrashInv
<1>. USE DEF fixed, world, child, resident, slot, errors, parser, restart, readers, budget, past
<1>1. Init => CrashInv
  <2>1. Counted(<<>>, <<>>)
    BY DEF Counted
  <2> QED BY <2>1 DEF Init, CrashInv
<1>2. CrashInv /\ [Next]_vars => CrashInv'
  <2>. SUFFICES ASSUME CrashInv, [Next]_vars PROVE CrashInv'
    OBVIOUS
  <2>1. workload' = workload
    BY SameWorkload
  <2>2. Window' = Window /\ Window \in Nat /\ workload \in Workload
    BY <2>1, RoundsAssumption DEF Window, Policy, CrashInv
  <2>3. ASSUME Counted(crashes', failures') PROVE CrashInv'
    BY <2>1, <2>2, <2>3 DEF CrashInv, Counted
  <2>4. CASE UNCHANGED <<crashes, failures>>
    BY <2>3, <2>4 DEF CrashInv
  <2>5. CASE crashes' = <<>> /\ failures' = <<>>
    BY <2>3, <2>5 DEF Counted
  <2>6. CASE RecordCrash
    BY <2>2, <2>3, <2>6, CountsRecent DEF RecordCrash, CrashInv
  <2>7. CASE Tick
    <3>1. crashes' = Aged(crashes) /\ failures' = Aged(failures)
      BY <2>7 DEF Tick
    <3>2. /\ crashes \in Seq(Nat) /\ failures \in Seq(Nat)
          /\ \A i \in DOMAIN crashes : crashes[i] \in Nat
          /\ \A i \in DOMAIN failures : failures[i] \in Nat
      BY DEF CrashInv, Counted
    <3>3. ASSUME NEW ages \in Seq(Nat)
          PROVE  /\ Aged(ages) \in Seq(Nat) /\ Len(Aged(ages)) = Len(ages)
                 /\ DOMAIN Aged(ages) = DOMAIN ages
                 /\ \A i \in DOMAIN ages : Aged(ages)[i] = Capped(ages[i] + 1, Window + 1)
      <4>1. \A i \in 1..Len(ages) : Capped(ages[i] + 1, Window + 1) \in Nat
        BY <2>2 DEF Capped
      <4>2. Aged(ages) = [i \in 1..Len(ages) |-> Capped(ages[i] + 1, Window + 1)]
        BY DEF Aged, Window
      <4> QED BY <4>1, <4>2
    <3>4. \A i, j \in DOMAIN failures : i < j =>
            Capped(failures[i] + 1, Window + 1) >= Capped(failures[j] + 1, Window + 1)
      BY <2>2, <3>2 DEF Capped, CrashInv, Counted
    <3>5. \A i \in DOMAIN failures : failures[i] > Window =>
            Capped(failures[i] + 1, Window + 1) > Window
      BY <2>2, <3>2 DEF Capped
    <3>6. \A i \in DOMAIN crashes : (Len(failures) - Len(crashes)) + i \in DOMAIN failures
      BY <3>2 DEF CrashInv, Counted
    <3>7. \A i \in 1..(Len(failures) - Len(crashes)) : i \in DOMAIN failures
      BY <3>2
    <3>8. Counted(Aged(crashes), Aged(failures))
      <4>. DEFINE kept == Aged(crashes)
                  all  == Aged(failures)
      <4>1. /\ kept \in Seq(Nat) /\ Len(kept) = Len(crashes) /\ DOMAIN kept = DOMAIN crashes
            /\ all \in Seq(Nat) /\ Len(all) = Len(failures) /\ DOMAIN all = DOMAIN failures
        BY <3>2, <3>3
      <4>2. /\ \A i \in DOMAIN kept : kept[i] = Capped(crashes[i] + 1, Window + 1)
            /\ \A i \in DOMAIN all : all[i] = Capped(failures[i] + 1, Window + 1)
        BY <3>2, <3>3
      <4>. HIDE DEF kept, all
      <4>3. \A i, j \in DOMAIN all : i < j => all[i] >= all[j]
        BY <3>4, <4>1, <4>2
      <4>4. \A i \in DOMAIN kept : kept[i] = all[(Len(all) - Len(kept)) + i]
        BY <3>6, <4>1, <4>2 DEF CrashInv, Counted
      <4>5. \A i \in 1..(Len(all) - Len(kept)) : all[i] > Window
        BY <3>5, <3>7, <4>1, <4>2 DEF CrashInv, Counted
      <4>6. Len(kept) <= Len(all)
        BY <4>1 DEF CrashInv, Counted
      <4>8. \A i \in DOMAIN all : all[i] <= Window + 1
        BY <2>2, <3>2, <4>1, <4>2 DEF Capped
      <4>7. Counted(kept, all)
        BY <4>1, <4>3, <4>4, <4>5, <4>6, <4>8 DEF Counted
      <4> QED BY <4>7 DEF kept, all
    <3> QED BY <2>3, <3>1, <3>8
  <2>8. CASE ResidentDies \/ ClaimFails \/ ReplaceGroup
    BY <2>5, <2>8 DEF ResidentDies, ClaimFails, ResidentEnds, NewSlot, ReplaceGroup
  <2>9. CASE SpawnFails \/ Finish
    BY <2>4, <2>6, <2>9 DEF SpawnFails, Finish, Recycle
  <2>10. CASE StartDirectly \/ FindDue \/ ClaimMinute \/ Spawn \/ SpawnRefused
    BY <2>4, <2>10 DEF StartDirectly, FindDue, ClaimMinute, Spawn, SpawnRefused
  <2> QED BY <2>4, <2>7, <2>8, <2>9, <2>10, NotWaiting DEF Next, waiting
<1> QED BY <1>1, <1>2, PTL DEF Spec

(* The slot gives up on exactly the failure that spends its crashes, for   *)
(* every policy and any number of failures (slot.py:437-455).              *)
THEOREM GivesUpOnTime == Spec => GivesUpWhenSpent
<1>. USE DEF fixed, world, child, resident, slot, errors, parser, restart, readers, budget, past
<1>1. ASSUME CrashInv, [Next]_vars
      PROVE  LET spent == ~Policy.enabled \/ Recent(failures') >= Policy.crashes
             IN  /\ ~fatal /\ fatal' => spent
                 /\ Len(failures') > Len(failures) => (fatal' <=> spent)
  <2>. DEFINE spent == ~Policy.enabled \/ Recent(failures') >= Policy.crashes
  <2>0. workload \in Workload /\ Counted(crashes, failures)
    BY <1>1 DEF CrashInv
  <2>1. CASE RecordCrash
    <3>1. /\ failures' = Append(failures, 0)
          /\ fatal' = (~Policy.enabled \/ Len(InWindow(Append(crashes, 0))) >= Policy.crashes)
      BY <2>1 DEF RecordCrash
    <3>2. Len(InWindow(Append(crashes, 0))) = Recent(failures')
      BY <2>0, <3>1, CountsRecent
    <3> QED BY <3>1, <3>2
  <2>2. CASE (fatal' = fatal \/ fatal' = FALSE) /\ ~(Len(failures') > Len(failures))
    BY <2>2
  <2>3. Len(failures) \in Nat /\ failures \in Seq(Nat)
    BY <2>0 DEF Counted
  <2>4. CASE UNCHANGED <<fatal, failures>>
    BY <2>2, <2>3, <2>4
  <2>5. CASE ResidentDies \/ ClaimFails \/ ReplaceGroup
    <3>1. fatal' = FALSE /\ failures' = <<>>
      BY <2>5 DEF ResidentDies, ClaimFails, ResidentEnds, NewSlot, ReplaceGroup
    <3> QED BY <2>2, <2>3, <3>1
  <2>6. CASE Tick
    <3>1. fatal' = fatal /\ Len(failures') = Len(failures)
      BY <2>3, <2>6 DEF Tick, Aged
    <3> QED BY <2>2, <2>3, <3>1
  <2>7. CASE SpawnFails \/ Finish
    BY <2>1, <2>4, <2>7 DEF SpawnFails, Finish, Recycle
  <2>8. CASE StartDirectly \/ FindDue \/ ClaimMinute \/ Spawn \/ SpawnRefused
    BY <2>4, <2>8 DEF StartDirectly, FindDue, ClaimMinute, Spawn, SpawnRefused
  <2> QED BY <1>1, <2>4, <2>5, <2>6, <2>7, <2>8, NotWaiting DEF Next, waiting
<1>2. CrashInv /\ [Next]_vars =>
        [LET spent == ~Policy.enabled \/ Recent(failures') >= Policy.crashes
         IN  /\ ~fatal /\ fatal' => spent
             /\ Len(failures') > Len(failures) => (fatal' <=> spent)]_vars
  BY <1>1
<1> QED BY <1>2, CrashInvariant, PTL DEF Spec, GivesUpWhenSpent

-----------------------------------------------------------------------------
(* What the frames of a classifier say of the first k lines of its worker: *)
(* all of them are noise but the start of a job, if there was one, and its *)
(* end.                                                                    *)
Heard(fs, lines, k) ==
  \/ fs = <<>> /\ \A n \in 1..k : lines[n].kind = "noise"
  \/ \E i \in 1..k :
       /\ Len(fs) = 1 /\ fs[1] = lines[i] /\ lines[i].kind = "frame" /\ IsStart(lines[i])
       /\ \A n \in 1..k : n # i => lines[n].kind = "noise"
  \/ \E i, j \in 1..k :
       /\ i < j /\ Len(fs) = 2 /\ fs[1] = lines[i] /\ fs[2] = lines[j]
       /\ lines[i].kind = "frame" /\ IsStart(lines[i])
       /\ lines[j].kind = "frame" /\ ~IsStart(lines[j])
       /\ lines[i].job = lines[j].job
       /\ \A n \in 1..k : n \notin {i, j} => lines[n].kind = "noise"

(* A line no worker that does one job writes where it is: it is malformed, *)
(* an end without its start, or the second start or end.                   *)
Wrong(lines, j) ==
  \/ lines[j].kind = "malformed"
  \/ /\ lines[j].kind = "frame" /\ ~IsStart(lines[j])
     /\ \A n \in 1..(j - 1) : lines[n].kind = "noise"
  \/ \E i \in 1..(j - 1) :
       /\ lines[i].kind = "frame" /\ lines[j].kind = "frame"
       /\ \/ IsStart(lines[j])
          \/ lines[i].job # lines[j].job
          \/ \E n \in 1..(i - 1) : lines[n].kind = "frame"

Hopeless(lines, k) == \E j \in 1..k : Wrong(lines, j)

(* Whatever follows makes no job of it.                                    *)
LEMMA WrongForGood ==
  ASSUME NEW S, NEW lines \in Seq(S), NEW k \in Nat, k <= Len(lines), Hopeless(lines, k)
  PROVE  ~Silent(lines) /\ \A s, e \in DOMAIN lines : ~Job(lines, s, e)
<1>1. Len(lines) \in Nat /\ DOMAIN lines = 1..Len(lines)
  OBVIOUS
<1>2. PICK j \in 1..k : Wrong(lines, j)
  BY DEF Hopeless
<1>3. j \in DOMAIN lines /\ j \in Nat /\ \A n \in 1..(j - 1) : n \in DOMAIN lines /\ n < j
  BY <1>1, <1>2
<1>4. lines[j].kind # "noise"
  BY <1>2 DEF Wrong
<1>5. ~Silent(lines)
  BY <1>3, <1>4 DEF Silent
<1>6. ASSUME NEW s \in DOMAIN lines, NEW e \in DOMAIN lines, Job(lines, s, e) PROVE FALSE
  <2>1. \A n \in DOMAIN lines : lines[n].kind # "noise" <=> n \in {s, e}
    BY <1>6 DEF Job
  <2>2. /\ s < e /\ s \in Nat /\ e \in Nat
        /\ lines[s].kind = "frame" /\ IsStart(lines[s])
        /\ lines[e].kind = "frame" /\ ~IsStart(lines[e]) /\ lines[s].job = lines[e].job
    BY <1>1, <1>6 DEF Job
  <2>3. j = s \/ j = e
    BY <1>3, <1>4, <2>1
  <2>4. lines[j].kind = "frame"
    BY <2>2, <2>3
  <2>5. CASE ~IsStart(lines[j]) /\ \A n \in 1..(j - 1) : lines[n].kind = "noise"
    <3>1. j = e /\ s \in 1..(j - 1)
      BY <1>1, <2>2, <2>3, <2>5
    <3> QED BY <2>2, <2>5, <3>1
  <2>6. ASSUME NEW i \in 1..(j - 1), lines[i].kind = "frame",
               \/ IsStart(lines[j])
               \/ lines[i].job # lines[j].job
               \/ \E n \in 1..(i - 1) : lines[n].kind = "frame"
        PROVE  FALSE
    <3>1. i \in DOMAIN lines /\ i < j /\ i \in Nat
      BY <1>3
    <3>2. i \in {s, e}
      BY <2>1, <2>6, <3>1
    <3>3. i = s /\ j = e
      BY <2>2, <2>3, <3>1, <3>2
    <3>4. PICK n \in 1..(i - 1) : lines[n].kind = "frame"
      BY <2>2, <2>6, <3>3
    <3>5. n \in DOMAIN lines /\ n < s /\ n \in Nat
      BY <1>3, <3>1, <3>3
    <3>6. n \in {s, e}
      BY <2>1, <3>4, <3>5
    <3> QED BY <2>2, <3>5, <3>6
  <2> QED BY <1>2, <2>4, <2>5, <2>6 DEF Wrong
<1> QED BY <1>5, <1>6

(* The next line is a frame that follows, noise, or wrong.                 *)
LEMMA HearsNext ==
  ASSUME NEW S, \A line \in S : IsLine(line), NEW lines \in Seq(S), NEW fs \in Seq(S),
         NEW k \in Nat, k + 1 <= Len(lines), Heard(fs, lines, k)
  PROVE  IF Raises(fs, lines[k + 1])
           THEN Hopeless(lines, k + 1)
           ELSE Heard(Consume(fs, lines[k + 1]), lines, k + 1)
<1>. DEFINE line == lines[k + 1]
            more == Append(fs, line)
<1>1. Len(lines) \in Nat /\ DOMAIN lines = 1..Len(lines) /\ Len(fs) \in Nat
  OBVIOUS
<1>2. k + 1 \in DOMAIN lines /\ line \in S /\ IsLine(line) /\ (k + 1) - 1 = k
  BY <1>1
<1>3. Len(more) = Len(fs) + 1 /\ more[Len(fs) + 1] = line /\ \A i \in 1..Len(fs) : more[i] = fs[i]
  BY <1>2
<1>4. (\A n \in 1..k : n \in 1..(k + 1) /\ n < k + 1) /\ k + 1 \in 1..(k + 1)
      /\ \A n \in 1..(k + 1) : n \in 1..k \/ n = k + 1
  OBVIOUS
<1>. HIDE DEF more
<1>5. CASE line.kind = "malformed"
  <2>1. Raises(fs, line) /\ Wrong(lines, k + 1)
    BY <1>5 DEF Raises, Wrong
  <2> QED BY <1>4, <2>1 DEF Hopeless
<1>6. CASE line.kind = "noise"
  <2>1. ~Raises(fs, line) /\ Consume(fs, line) = fs
    BY <1>6 DEF Raises, Consume
  <2>2. Heard(fs, lines, k + 1)
    <3>1. CASE fs = <<>> /\ \A n \in 1..k : lines[n].kind = "noise"
      BY <1>4, <1>6, <3>1 DEF Heard
    <3>2. ASSUME NEW i \in 1..k, Len(fs) = 1, fs[1] = lines[i], lines[i].kind = "frame",
                 IsStart(lines[i]), \A n \in 1..k : n # i => lines[n].kind = "noise"
          PROVE  Heard(fs, lines, k + 1)
      <4>1. \A n \in 1..(k + 1) : n # i => lines[n].kind = "noise"
        BY <1>4, <1>6, <3>2
      <4> QED BY <1>4, <3>2, <4>1 DEF Heard
    <3>3. ASSUME NEW i \in 1..k, NEW j \in 1..k,
                 i < j, Len(fs) = 2, fs[1] = lines[i], fs[2] = lines[j],
                 lines[i].kind = "frame", IsStart(lines[i]),
                 lines[j].kind = "frame", ~IsStart(lines[j]), lines[i].job = lines[j].job,
                 \A n \in 1..k : n \notin {i, j} => lines[n].kind = "noise"
          PROVE  Heard(fs, lines, k + 1)
      <4>1. \A n \in 1..(k + 1) : n \notin {i, j} => lines[n].kind = "noise"
        BY <1>4, <1>6, <3>3
      <4> QED BY <1>4, <3>3, <4>1 DEF Heard
    <3> QED BY <3>1, <3>2, <3>3 DEF Heard
  <2> QED BY <2>1, <2>2
<1>7. CASE line.kind = "frame" /\ Follows(fs, line)
  <2>1. ~Raises(fs, line) /\ Consume(fs, line) = more
    BY <1>7 DEF Raises, Consume, more
  <2>2. CASE IsStart(line)
    <3>1. fs = <<>>
      BY <1>7, <2>2 DEF Follows
    <3>2. \A n \in 1..k : lines[n].kind = "noise"
      BY <3>1 DEF Heard
    <3>3. Len(more) = 1 /\ more[1] = line
      BY <1>3, <3>1
    <3>4. Heard(more, lines, k + 1)
      BY <1>4, <1>7, <2>2, <3>2, <3>3 DEF Heard
    <3> QED BY <2>1, <3>4
  <2>3. CASE ~IsStart(line)
    <3>1. Len(fs) = 1 /\ IsStart(fs[1]) /\ fs[1].job = line.job
      BY <1>7, <2>3 DEF Follows
    <3>2. PICK i \in 1..k : /\ fs[1] = lines[i] /\ lines[i].kind = "frame" /\ IsStart(lines[i])
                            /\ \A n \in 1..k : n # i => lines[n].kind = "noise"
      <4>1. fs = <<>> => Len(fs) = 0
        OBVIOUS
      <4>2. fs # <<>> /\ Len(fs) # 2
        BY <3>1, <4>1
      <4> QED BY <4>2 DEF Heard
    <3>3. Len(more) = 2 /\ more[1] = lines[i] /\ more[2] = lines[k + 1]
      BY <1>3, <3>1, <3>2
    <3>4. Heard(more, lines, k + 1)
      <4>1. \A n \in 1..(k + 1) : n \notin {i, k + 1} => lines[n].kind = "noise"
        BY <1>4, <3>2
      <4>2. i \in 1..(k + 1) /\ k + 1 \in 1..(k + 1) /\ i < k + 1
        BY <1>4
      <4>3. \E m, j \in 1..(k + 1) :
              /\ m < j /\ Len(more) = 2 /\ more[1] = lines[m] /\ more[2] = lines[j]
              /\ lines[m].kind = "frame" /\ IsStart(lines[m])
              /\ lines[j].kind = "frame" /\ ~IsStart(lines[j])
              /\ lines[m].job = lines[j].job
              /\ \A n \in 1..(k + 1) : n \notin {m, j} => lines[n].kind = "noise"
        <5> WITNESS i \in 1..(k + 1), k + 1 \in 1..(k + 1)
        <5> QED BY <1>7, <2>3, <3>1, <3>2, <3>3, <4>1, <4>2
      <4> QED BY <4>3 DEF Heard
    <3> QED BY <2>1, <3>4
  <2> QED BY <2>2, <2>3
<1>8. CASE line.kind = "frame" /\ ~Follows(fs, line)
  <2>1. Raises(fs, line)
    BY <1>8 DEF Raises
  <2>2. Wrong(lines, k + 1)
    <3>1. CASE fs = <<>>
      <4>1. \A n \in 1..k : lines[n].kind = "noise"
        BY <3>1 DEF Heard
      <4>2. ~IsStart(line)
        BY <1>8, <3>1 DEF Follows
      <4> QED BY <1>2, <1>8, <4>1, <4>2 DEF Wrong
    <3>2. ASSUME NEW i \in 1..k, Len(fs) = 1, fs[1] = lines[i], lines[i].kind = "frame",
                 IsStart(lines[i])
          PROVE  Wrong(lines, k + 1)
      <4>1. IsStart(line) \/ lines[i].job # line.job
        BY <1>8, <3>2 DEF Follows
      <4> QED BY <1>2, <1>8, <3>2, <4>1 DEF Wrong
    <3>3. ASSUME NEW i \in 1..k, NEW j \in 1..k, i < j,
                 lines[i].kind = "frame", lines[j].kind = "frame"
          PROVE  Wrong(lines, k + 1)
      <4>1. j \in 1..((k + 1) - 1) /\ i \in 1..(j - 1)
        BY <3>3
      <4> QED BY <1>8, <3>3, <4>1 DEF Wrong
    <3> QED BY <3>1, <3>2, <3>3 DEF Heard
  <2> QED BY <1>4, <2>1, <2>2 DEF Hopeless
<1> QED BY <1>2, <1>5, <1>6, <1>7, <1>8 DEF IsLine

(* Lines that are written later change nothing about those before.         *)
LEMMA SaidBefore ==
  ASSUME NEW lines, NEW longer, NEW k \in Nat, \A n \in 1..k : longer[n] = lines[n]
  PROVE  /\ \A fs : Heard(fs, lines, k) => Heard(fs, longer, k)
         /\ Hopeless(lines, k) => Hopeless(longer, k)
<1>1. ASSUME NEW fs, Heard(fs, lines, k) PROVE Heard(fs, longer, k)
  <2>1. \A n \in 1..k : longer[n] = lines[n]
    OBVIOUS
  <2> QED BY <1>1, <2>1 DEF Heard
<1>2. ASSUME NEW j \in 1..k, Wrong(lines, j) PROVE Wrong(longer, j)
  <2>1. longer[j] = lines[j] /\ \A n \in 1..(j - 1) : n \in 1..k /\ longer[n] = lines[n]
    OBVIOUS
  <2>2. \A i \in 1..(j - 1) : \A n \in 1..(i - 1) : n \in 1..(j - 1)
    OBVIOUS
  <2> QED BY <1>2, <2>1, <2>2 DEF Wrong
<1> QED BY <1>1, <1>2 DEF Hopeless

(* What is wrong stays wrong.                                              *)
LEMMA HopelessStays ==
  ASSUME NEW lines, NEW k \in Nat, Hopeless(lines, k) PROVE Hopeless(lines, k + 1)
BY DEF Hopeless

(* A worker that is judged by all its lines is judged as they deserve.     *)
LEMMA JudgedAsHeard ==
  ASSUME NEW S, \A line \in S : IsLine(line), NEW lines \in Seq(S), NEW fs \in Seq(S),
         NEW c \in {0, 1}, NEW wrong \in BOOLEAN,
         IF wrong THEN Hopeless(lines, Len(lines)) ELSE Heard(fs, lines, Len(lines))
  PROVE  Completion(fs, c, wrong) = Deserved(lines, c)
<1>1. Len(lines) \in Nat /\ DOMAIN lines = 1..Len(lines)
  OBVIOUS
<1>2. CASE c # 0
  <2>1. Completion(fs, c, wrong) = Unknown
    BY <1>2 DEF Completion
  <2>2. Deserved(lines, c) = Unknown
    BY <1>2 DEF Deserved
  <2> QED BY <2>1, <2>2
<1>3. CASE c = 0 /\ wrong
  <2>0. Hopeless(lines, Len(lines))
    BY <1>3
  <2>1. ~Silent(lines) /\ \A s, e \in DOMAIN lines : ~Job(lines, s, e)
    <3>1. Len(lines) \in Nat /\ Len(lines) <= Len(lines)
      BY <1>1
    <3> HIDE <1>1
    <3> QED BY <2>0, <3>1, WrongForGood
  <2>2. Completion(fs, c, wrong) = Unknown
    BY <1>3 DEF Completion
  <2>3. Deserved(lines, c) = Unknown
    BY <2>1 DEF Deserved
  <2> QED BY <2>2, <2>3
<1>4. CASE c = 0 /\ ~wrong
  <2>1. CASE fs = <<>> /\ Silent(lines)
    <3>1. Completion(fs, c, wrong) = Verdict(TRUE, "empty")
      BY <1>4, <2>1 DEF Completion
    <3>2. Deserved(lines, c) = Verdict(TRUE, "empty")
      <4>1. \A s, e \in DOMAIN lines : ~Job(lines, s, e)
        <5>1. \A n \in DOMAIN lines : lines[n].kind # "frame"
          BY <2>1 DEF Silent
        <5> QED BY <5>1 DEF Job
      <4> QED BY <1>4, <2>1, <4>1 DEF Deserved
    <3> QED BY <3>1, <3>2
  <2>2. ASSUME NEW i \in DOMAIN lines, Len(fs) = 1, lines[i].kind = "frame",
               \A n \in DOMAIN lines : n # i => lines[n].kind = "noise"
        PROVE  Completion(fs, c, wrong) = Deserved(lines, c)
    <3>1. ~Silent(lines)
      BY <2>2 DEF Silent
    <3>2. ASSUME NEW s \in DOMAIN lines, NEW e \in DOMAIN lines, Job(lines, s, e) PROVE FALSE
      <4>1. s < e /\ s \in Nat /\ e \in Nat /\ lines[s].kind = "frame" /\ lines[e].kind = "frame"
        BY <1>1, <3>2 DEF Job
      <4> QED BY <2>2, <4>1
    <3>3. fs # <<>>
      <4>1. fs = <<>> => Len(fs) = 0
        OBVIOUS
      <4> QED BY <2>2, <4>1
    <3>4. Completion(fs, c, wrong) = Unknown
      BY <1>4, <2>2, <3>3 DEF Completion
    <3>5. Deserved(lines, c) = Unknown
      BY <3>1, <3>2 DEF Deserved
    <3> QED BY <3>4, <3>5
  <2>3. ASSUME NEW i \in DOMAIN lines, NEW j \in DOMAIN lines, i < j, Len(fs) = 2,
               fs[2] = lines[j],
               lines[i].kind = "frame", IsStart(lines[i]),
               lines[j].kind = "frame", ~IsStart(lines[j]), lines[i].job = lines[j].job,
               \A n \in DOMAIN lines : n \notin {i, j} => lines[n].kind = "noise"
        PROVE  Completion(fs, c, wrong) = Deserved(lines, c)
    <3>1. ~Silent(lines) /\ fs # <<>>
      <4>1. fs = <<>> => Len(fs) = 0
        OBVIOUS
      <4> QED BY <2>3, <4>1 DEF Silent
    <3>2. Job(lines, i, j)
      <4>1. {n \in DOMAIN lines : lines[n].kind # "noise"} = {i, j}
        BY <2>3
      <4> QED BY <2>3, <4>1 DEF Job
    <3>3. ASSUME NEW s \in DOMAIN lines, NEW e \in DOMAIN lines, Job(lines, s, e) PROVE e = j
      <4>1. {s, e} = {i, j} /\ s < e
        BY <3>2, <3>3 DEF Job
      <4>0. s \in {i, j} /\ e \in {i, j}
        BY <4>1
      <4>2. (s = i \/ s = j) /\ (e = i \/ e = j) /\ s \in Nat /\ e \in Nat /\ i \in Nat /\ j \in Nat
        BY <1>1, <4>0
      <4> QED BY <2>3, <4>1, <4>2
    <3>4. (CHOOSE e \in DOMAIN lines : \E s \in DOMAIN lines : Job(lines, s, e)) = j
      BY <3>2, <3>3
    <3>5. Completion(fs, c, wrong) = Verdict(TRUE, OutcomeOf(lines[j]))
      BY <1>4, <2>3, <3>1 DEF Completion
    <3>6. Deserved(lines, c) = Verdict(TRUE, OutcomeOf(lines[j]))
      BY <1>4, <3>1, <3>2, <3>4 DEF Deserved
    <3> QED BY <3>5, <3>6
  <2> QED BY <1>1, <1>4, <2>1, <2>2, <2>3 DEF Heard, Silent
<1> QED BY <1>2, <1>3, <1>4

-----------------------------------------------------------------------------
(* A worker that is alone, and with which nothing else is amiss, has heard *)
(* of everything but the lines that are left in its pipe, and its reader   *)
(* is done only when it has ended and none is left.                        *)
AloneInv ==
  IsQueue /\ process # NoAttempt /\ ~mixed /\ ~troubled =>
    LET left  == output[process]
        lines == written[process]
        k     == Len(lines) - Len(left)
    IN  /\ \A a \in Attempt \ {process} : reader[a] \in {"none", "done"}
        /\ runtimeError = protocolError
        /\ reader[process] = "holding" => held[process] = process
        /\ reader[process] = "done" => left = <<>> /\ code # Running
        /\ Behind(left, lines)
        /\ protocolError => Hopeless(lines, k)
        /\ ~protocolError => Heard(frames[process], lines, k)

(* What is amiss with a process is an error.                               *)
TroubledInv == process # NoAttempt /\ troubled => runtimeError

(* The inductive invariant of the verdict.                                 *)
VerdictInv == Shape /\ AloneInv /\ TroubledInv /\ VerdictDeserved

(* Whatever goes wrong with a process is an error of its slot.             *)
LEMMA KeepsTroubled == ASSUME VerdictInv, [Next]_vars PROVE TroubledInv'
<1>. USE DEF fixed, world, child, resident, slot, errors, parser, restart, readers, budget, past,
             VerdictInv, TroubledInv, Shape, Flags
<1>1. CASE UNCHANGED <<process, troubled, runtimeError>>
  BY <1>1
<1>2. CASE Spawn \/ SpawnRefused \/ SpawnFails
  BY <1>2 DEF Spawn, SpawnRefused, SpawnFails, Reset, Processes
<1>3. CASE ResidentDies \/ ClaimFails
  BY <1>3 DEF ResidentDies, ClaimFails, ResidentEnds, NewSlot
<1>4. ASSUME NEW a \in Attempt, Fetch(a) \/ EndOfPipe(a) \/ PipeFails(a) PROVE TroubledInv'
  BY <1>4 DEF Fetch, EndOfPipe, PipeFails
<1>5. ASSUME NEW a \in Attempt, Observe(a) PROVE TroubledInv'
  BY <1>5 DEF Observe
<1>6. CASE Finish \/ Watchdog \/ RequestStop
  BY <1>6 DEF Finish, Watchdog, RequestStop
<1>7. CASE \/ ReplaceGroup \/ StartDirectly \/ FindDue \/ ClaimMinute
           \/ (\E line \in workload.lines : Write(line)) \/ Exit
           \/ NewGeneration \/ WallClock \/ Tick \/ UNCHANGED vars
  BY <1>1, <1>7 DEF ReplaceGroup, StartDirectly, FindDue, ClaimMinute, Write, Exit,
                    NewGeneration, WallClock, Tick, vars
<1> QED BY <1>2, <1>3, <1>4, <1>5, <1>6, <1>7 DEF Next

(* When the reader is done, all lines have been heard.                     *)
LEMMA AllHeard ==
  ASSUME AloneInv, IsQueue, process # NoAttempt, ~mixed, ~troubled, reader[process] = "done",
         NEW S, written[process] \in Seq(S)
  PROVE  /\ runtimeError = protocolError
         /\ protocolError => Hopeless(written[process], Len(written[process]))
         /\ ~protocolError => Heard(frames[process], written[process], Len(written[process]))
<1>1. /\ runtimeError = protocolError
      /\ output[process] = <<>>
      /\ protocolError =>
           Hopeless(written[process], Len(written[process]) - Len(output[process]))
      /\ ~protocolError =>
           Heard(frames[process], written[process], Len(written[process]) - Len(output[process]))
  BY DEF AloneInv
<1>2. Len(written[process]) - Len(output[process]) = Len(written[process])
  <2>1. Len(output[process]) = 0 /\ Len(written[process]) \in Nat
    BY <1>1
  <2> QED BY <2>1
<1> QED BY <1>1, <1>2

(* A verdict stands, and a new one is deserved.                            *)
LEMMA KeepsVerdict == ASSUME VerdictInv, [Next]_vars PROVE VerdictDeserved'
<1>. USE DEF fixed, world, child, resident, slot, errors, parser, restart, readers, budget, past
<1>1. workload' = workload /\ IsQueue' = IsQueue
  BY SameWorkload DEF IsQueue
<1>2. CASE UNCHANGED <<verdict, written>>
  <2>1. \A a : written[a]' = written'[a]
    OBVIOUS
  <2> QED BY <1>1, <1>2 DEF VerdictDeserved, VerdictInv
<1>3. CASE SpawnFails \/ ResidentDies \/ ClaimFails
  <2>1. verdict'.of = NoAttempt
    BY <1>3 DEF SpawnFails, ResidentDies, ClaimFails, ResidentEnds, VerdictInv, Shape, Processes,
                Verdicts
  <2> QED BY <2>1 DEF VerdictDeserved
<1>4. ASSUME NEW line \in workload.lines, Write(line) PROVE VerdictDeserved'
  <2>1. /\ verdict' = verdict /\ process # NoAttempt
        /\ written' = [written EXCEPT ![process] = Append(@, line)]
    BY <1>4 DEF Write
  <2>2. verdict.of # process /\ written'[verdict.of] = written[verdict.of]
    <3>1. verdict.of < process /\ process \in Nat /\ verdict.of \in Nat
          /\ (verdict.of # NoAttempt => verdict.of \in Attempt)
      BY <2>1, Attempts DEF VerdictInv, Shape, Schedules, Processes, Verdicts, NoAttempt, Attempt
    <3>2. written \in [Attempt -> Seq(workload.lines)]
      BY DEF VerdictInv, Shape, Readers
    <3> QED BY <2>1, <3>1, <3>2
  <2> QED BY <1>1, <2>1, <2>2 DEF VerdictDeserved, VerdictInv
<1>5. CASE Finish
  <2>. DEFINE overdue == reader[process] # "done"
              judged  == Judge(runtimeError \/ overdue)
  <2>1. /\ process # NoAttempt /\ code # Running
        /\ verdict' = [of |-> process, healthy |-> judged.healthy, outcome |-> judged.outcome,
                       code |-> code, stopped |-> stopping, late |-> overdue,
                       alone |-> ~mixed, troubled |-> troubled]
        /\ written' = written
    BY <1>5 DEF Finish
  <2>2. SUFFICES ASSUME IsQueue, ~mixed
                 PROVE  IF troubled \/ overdue
                          THEN ~judged.healthy
                          ELSE /\ judged.healthy = Deserved(written[process], code).healthy
                               /\ judged.outcome = Deserved(written[process], code).outcome
    BY <1>1, <2>1 DEF VerdictDeserved
  <2>3. /\ process \in Attempt /\ code \in {0, 1}
        /\ \A line \in workload.lines : IsLine(line)
    BY <2>1, Attempts DEF VerdictInv, Shape, Schedules, Processes, NoAttempt, Attempt
  <2>4. /\ runtimeError \in BOOLEAN /\ protocolError \in BOOLEAN
        /\ written[process] \in Seq(workload.lines) /\ frames[process] \in Seq(workload.lines)
    BY <2>3 DEF VerdictInv, Shape, Readers, Flags
  <2>5. CASE runtimeError \/ overdue \/ protocolError
    <3>1. judged = Unknown
      BY <2>2, <2>5 DEF Judge, Completion, IsQueue, IsScheduler
    <3>2. CASE troubled \/ overdue
      BY <3>1, <3>2 DEF Unknown, Verdict
    <3>3. CASE ~(troubled \/ overdue)
      <4>1. protocolError /\ Hopeless(written[process], Len(written[process]))
        BY <2>1, <2>2, <2>4, <2>5, <3>3, AllHeard DEF VerdictInv
      <4>2. Completion(frames[process], code, TRUE) = Deserved(written[process], code)
        BY <2>3, <2>4, <4>1, JudgedAsHeard
      <4>3. Completion(frames[process], code, TRUE) = Unknown
        BY DEF Completion
      <4> QED BY <3>1, <3>3, <4>2, <4>3
    <3> QED BY <3>2, <3>3
  <2>6. CASE ~(runtimeError \/ overdue \/ protocolError)
    <3>1. ~troubled /\ ~overdue
      BY <2>1, <2>6 DEF VerdictInv, TroubledInv
    <3>2. Heard(frames[process], written[process], Len(written[process]))
      BY <2>1, <2>2, <2>4, <2>6, <3>1, AllHeard DEF VerdictInv
    <3>3. Completion(frames[process], code, FALSE) = Deserved(written[process], code)
      BY <2>3, <2>4, <3>2, JudgedAsHeard
    <3>4. judged = Completion(frames[process], code, FALSE)
      BY <2>2, <2>6 DEF Judge, Completion, IsQueue, IsScheduler
    <3> QED BY <3>1, <3>3, <3>4
  <2> QED BY <2>5, <2>6
<1>6. ASSUME NEW a \in Attempt, Fetch(a) \/ Observe(a) \/ EndOfPipe(a) \/ PipeFails(a)
      PROVE  VerdictDeserved'
  BY <1>2, <1>6 DEF Fetch, Observe, EndOfPipe, PipeFails
<1>7. CASE \/ ReplaceGroup \/ StartDirectly \/ FindDue \/ ClaimMinute \/ Spawn \/ SpawnRefused
           \/ Exit \/ Watchdog \/ RequestStop
           \/ NewGeneration \/ WallClock \/ Tick \/ UNCHANGED vars
  BY <1>2, <1>7 DEF ReplaceGroup, StartDirectly, FindDue, ClaimMinute, Spawn, SpawnRefused, Exit,
                    Watchdog, RequestStop, NewGeneration, WallClock, Tick, vars
<1> QED BY <1>3, <1>4, <1>5, <1>6, <1>7 DEF Next

(* Every step keeps the frames of a worker in line with what it has        *)
(* written.                                                                *)
LEMMA KeepsAlone == ASSUME VerdictInv, [Next]_vars PROVE AloneInv'
<1>. USE DEF fixed, world, child, resident, slot, errors, parser, restart, readers, budget, past
<1>1. /\ workload' = workload /\ IsQueue' = IsQueue /\ workload \in Workload
      /\ Readers /\ Processes /\ Flags /\ \A line \in workload.lines : IsLine(line)
  BY SameWorkload, Attempts DEF IsQueue, VerdictInv, Shape, Schedules
<1>2. CASE UNCHANGED <<process, mixed, troubled, output, written, reader, held, runtimeError,
                       protocolError, code, frames>>
  BY <1>1, <1>2 DEF AloneInv, VerdictInv
<1>3. CASE process' = NoAttempt
  BY <1>3 DEF AloneInv
<1>4. CASE Spawn
  <2>. DEFINE a == used + 1
  <2>1. /\ place = "spawn" /\ process' = a /\ mixed' = Stale
        /\ runtimeError' = FALSE /\ protocolError' = FALSE
        /\ reader' = [reader EXCEPT ![a] = "reading"]
        /\ UNCHANGED <<output, written, frames, held>>
    BY <1>4 DEF Spawn, Reset
  <2>2. a \in Attempt /\ a > used /\ used \in Nat
    BY <1>1, <2>1, Attempts DEF Processes, Attempt
  <2>3. reader[a] = "none" /\ frames[a] = <<>> /\ output[a] = <<>> /\ written[a] = <<>>
    BY <1>1, <2>2 DEF Readers
  <2>4. SUFFICES ASSUME ~mixed' PROVE AloneInv'
    BY DEF AloneInv
  <2>5. \A b \in Attempt \ {a} : reader'[b] \in {"none", "done"}
    <3>1. \A b \in Attempt : reader[b] \in {"none", "done"}
      BY <1>1, <2>1, <2>4 DEF Stale, Readers
    <3> QED BY <1>1, <2>1, <2>2, <3>1 DEF Readers
  <2>6. reader'[a] = "reading"
    BY <1>1, <2>1, <2>2 DEF Readers
  <2>7. /\ output'[a] = <<>> /\ written'[a] = <<>> /\ frames'[a] = <<>>
        /\ Behind(<<>>, <<>>) /\ Len(<<>>) - Len(<<>>) = 0
    BY <2>1, <2>3 DEF Behind
  <2>8. Heard(<<>>, <<>>, 0)
    BY DEF Heard
  <2>9. Heard(frames'[a], written'[a], Len(written'[a]) - Len(output'[a]))
    BY <2>7, <2>8
  <2>10. Behind(output'[a], written'[a])
    BY <2>7
  <2>. HIDE DEF a
  <2> QED BY <2>1, <2>5, <2>6, <2>9, <2>10 DEF AloneInv
<1>5. ASSUME NEW a \in Attempt, Fetch(a), IsQueue, process # NoAttempt, ~mixed, ~troubled
      PROVE  AloneInv'
  <2>1. /\ reader[a] = "reading" /\ reader' = [reader EXCEPT ![a] = "holding"]
        /\ held' = [held EXCEPT ![a] = classifier]
        /\ UNCHANGED <<process, output, written, runtimeError, protocolError, code, frames>>
    BY <1>5 DEF Fetch
  <2>2. a = process /\ classifier = process
    BY <1>1, <1>5, <2>1 DEF AloneInv, VerdictInv, Processes
  <2>3. reader'[process] = "holding" /\ held'[process] = process
        /\ \A b \in Attempt \ {process} : reader'[b] = reader[b]
    BY <1>1, <1>5, <2>1, <2>2 DEF Readers
  <2> QED BY <1>1, <1>5, <2>1, <2>3 DEF AloneInv, VerdictInv
<1>6. ASSUME NEW a \in Attempt, Observe(a), IsQueue, process # NoAttempt, ~mixed, ~troubled'
      PROVE  AloneInv'
  <2>. DEFINE line == Head(output[a])
  <2>1. /\ reader[a] = "holding" /\ reader' = [reader EXCEPT ![a] = "reading"]
        /\ held' = [held EXCEPT ![a] = NoAttempt]
        /\ output' = [output EXCEPT ![a] = Tail(@)]
        /\ UNCHANGED <<process, mixed, code, written>>
    BY <1>6 DEF Observe
  <2>2. ~troubled
    BY <1>1, <1>6 DEF Observe, Flags
  <2>3. a = process /\ held[a] = process /\ a # NoAttempt
    BY <1>1, <1>6, <2>1, <2>2 DEF AloneInv, VerdictInv
  <2>4. /\ frames' = [frames EXCEPT ![a] = Consume(@, line)]
        /\ protocolError' = (protocolError \/ Raises(frames[a], line))
        /\ runtimeError' = (runtimeError \/ Raises(frames[a], line))
    BY <1>6, <2>3 DEF Observe
  <2>. DEFINE left  == output[a]
              lines == written[a]
              fs    == frames[a]
              k     == Len(lines) - Len(left)
  <2>5. /\ left # <<>> /\ left \in Seq(workload.lines) /\ lines \in Seq(workload.lines)
        /\ fs \in Seq(workload.lines)
    BY <1>1, <2>1 DEF Readers
  <2>6. /\ Behind(left, lines) /\ runtimeError = protocolError
        /\ protocolError => Hopeless(lines, k)
        /\ ~protocolError => Heard(fs, lines, k)
        /\ \A b \in Attempt \ {a} : reader[b] \in {"none", "done"}
    BY <1>6, <2>2, <2>3 DEF AloneInv, VerdictInv
  <2>7. /\ output'[a] = Tail(left) /\ written'[a] = lines /\ frames'[a] = Consume(fs, line)
        /\ reader'[a] = "reading" /\ \A b \in Attempt \ {a} : reader'[b] = reader[b]
    BY <1>1, <2>1, <2>4 DEF Readers
  <2>8. Behind(Tail(left), lines)
    BY <2>5, <2>6, BehindSteps
  <2>9. /\ Len(left) \in Nat /\ Len(lines) \in Nat /\ Len(Tail(left)) = Len(left) - 1
        /\ Len(left) > 0 /\ line = left[1] /\ 1 \in DOMAIN left
    BY <2>5
  <2>. HIDE DEF left, lines, fs, line
  <2>10. /\ k \in Nat /\ k + 1 <= Len(lines) /\ Len(lines) - Len(Tail(left)) = k + 1
         /\ line = lines[k + 1]
    <3>1. Len(left) <= Len(lines) /\ left[1] = lines[(Len(lines) - Len(left)) + 1]
      BY <2>6, <2>9 DEF Behind
    <3>2. line = lines[k + 1]
      BY <2>9, <3>1
    <3>3. \A m, n \in Nat : n > 0 /\ n <= m =>
            m - n \in Nat /\ (m - n) + 1 <= m /\ m - (n - 1) = (m - n) + 1
      OBVIOUS
    <3>4. k \in Nat /\ k + 1 <= Len(lines) /\ Len(lines) - Len(Tail(left)) = k + 1
      BY <2>9, <3>1, <3>3
    <3> QED BY <3>2, <3>4
  <2>. HIDE DEF k
  <2>11. protocolError' => Hopeless(lines, k + 1)
    BY <1>1, <2>4, <2>5, <2>6, <2>10, HearsNext, HopelessStays DEF fs
  <2>12. ~protocolError' => Heard(Consume(fs, line), lines, k + 1)
    BY <1>1, <2>4, <2>5, <2>6, <2>10, HearsNext DEF fs
  <2>13. runtimeError' = protocolError'
    BY <2>4, <2>6
  <2>14. Len(written'[a]) - Len(output'[a]) = k + 1
    BY <2>7, <2>10
  <2> QED BY <2>1, <2>3, <2>6, <2>7, <2>8, <2>11, <2>12, <2>13, <2>14 DEF AloneInv
<1>7. ASSUME NEW a \in Attempt, EndOfPipe(a), IsQueue, process # NoAttempt, ~mixed, ~troubled
      PROVE  AloneInv'
  <2>1. /\ reader[a] = "reading" /\ output[a] = <<>> /\ (a = process => code # Running)
        /\ reader' = [reader EXCEPT ![a] = "done"]
        /\ UNCHANGED <<process, output, written, held, runtimeError, protocolError, code, frames>>
    BY <1>7 DEF EndOfPipe
  <2>2. a = process
    BY <1>7, <2>1 DEF AloneInv, VerdictInv
  <2>3. reader'[process] = "done" /\ \A b \in Attempt \ {process} : reader'[b] = reader[b]
    BY <1>1, <1>7, <2>1, <2>2 DEF Readers
  <2> QED BY <1>1, <1>7, <2>1, <2>2, <2>3
          DEF AloneInv, VerdictInv
<1>8. ASSUME NEW a \in Attempt, PipeFails(a), IsQueue, process # NoAttempt, ~mixed, ~troubled'
      PROVE  AloneInv'
  <2>1. reader[a] = "reading" /\ a # process /\ ~troubled
    BY <1>1, <1>8 DEF PipeFails, Flags
  <2> QED BY <1>8, <2>1 DEF AloneInv, VerdictInv
<1>9. ASSUME NEW line \in workload.lines, Write(line), ~mixed, ~troubled PROVE AloneInv'
  <2>. DEFINE left  == output[process]
              lines == written[process]
              k     == Len(lines) - Len(left)
  <2>1. /\ process # NoAttempt /\ code = Running /\ IsQueue
        /\ written' = [written EXCEPT ![process] = Append(@, line)]
        /\ output' = IF reader[process] = "done" THEN output
                     ELSE [output EXCEPT ![process] = Append(@, line)]
        /\ UNCHANGED <<process, frames, held, reader, code, runtimeError, protocolError>>
    BY <1>9 DEF Write
  <2>2. process \in Attempt
    BY <1>1, <2>1, Attempts DEF Attempt, NoAttempt, Processes
  <2>3. /\ Behind(left, lines) /\ runtimeError = protocolError /\ reader[process] # "done"
        /\ protocolError => Hopeless(lines, k)
        /\ ~protocolError => Heard(frames[process], lines, k)
        /\ (reader[process] = "holding" => held[process] = process)
        /\ \A b \in Attempt \ {process} : reader[b] \in {"none", "done"}
    BY <1>9, <2>1 DEF AloneInv, VerdictInv
  <2>4. /\ left \in Seq(workload.lines) /\ lines \in Seq(workload.lines)
        /\ output'[process] = Append(left, line) /\ written'[process] = Append(lines, line)
    BY <1>1, <2>1, <2>2, <2>3 DEF Readers
  <2>5. Behind(Append(left, line), Append(lines, line))
    BY <2>3, <2>4, BehindSteps
  <2>6. /\ Len(left) \in Nat /\ Len(lines) \in Nat /\ Len(left) <= Len(lines)
        /\ Len(Append(left, line)) = Len(left) + 1 /\ Len(Append(lines, line)) = Len(lines) + 1
        /\ \A n \in 1..Len(lines) : Append(lines, line)[n] = lines[n]
    BY <2>3, <2>4 DEF Behind
  <2>. DEFINE more == Append(lines, line)
  <2>7. more = Append(lines, line)
    OBVIOUS
  <2>. HIDE DEF more, left, lines
  <2>8. k \in Nat /\ (\A n \in 1..k : more[n] = lines[n]) /\ Len(more) - Len(Append(left, line)) = k
    BY <2>6, <2>7
  <2>. HIDE DEF k
  <2>9. /\ protocolError => Hopeless(more, k)
        /\ ~protocolError => Heard(frames[process], more, k)
    <3>1. /\ \A fs : Heard(fs, lines, k) => Heard(fs, more, k)
          /\ Hopeless(lines, k) => Hopeless(more, k)
      BY <2>8, SaidBefore
    <3> QED BY <2>3, <3>1
  <2>10. /\ Len(written'[process]) - Len(output'[process]) = k
         /\ written'[process] = more
    BY <2>4, <2>7, <2>8
  <2> QED BY <2>1, <2>3, <2>4, <2>5, <2>7, <2>9, <2>10 DEF AloneInv
<1>10. ASSUME Exit, IsQueue, process # NoAttempt, ~mixed, ~troubled PROVE AloneInv'
  <2>1. /\ code' \in {0, 1}
        /\ UNCHANGED <<process, output, written, reader, held, runtimeError, protocolError, frames>>
    BY <1>10 DEF Exit
  <2>2. /\ \A a \in Attempt \ {process} : reader[a] \in {"none", "done"}
        /\ runtimeError = protocolError
        /\ reader[process] = "holding" => held[process] = process
        /\ reader[process] = "done" => output[process] = <<>>
        /\ Behind(output[process], written[process])
    BY <1>10 DEF AloneInv, VerdictInv
  <2>3. /\ protocolError =>
             Hopeless(written[process], Len(written[process]) - Len(output[process]))
        /\ ~protocolError => Heard(frames[process], written[process],
                                   Len(written[process]) - Len(output[process]))
    BY <1>10 DEF AloneInv, VerdictInv
  <2>4. code' # Running
    BY <2>1 DEF Running
  <2>5. /\ \A a \in Attempt \ {process'} : reader'[a] \in {"none", "done"}
        /\ runtimeError' = protocolError'
        /\ reader'[process'] = "holding" => held'[process'] = process'
        /\ reader'[process'] = "done" => output'[process'] = <<>>
        /\ Behind(output'[process'], written'[process'])
    BY <2>1, <2>2
  <2>6. /\ protocolError' =>
             Hopeless(written'[process'], Len(written'[process']) - Len(output'[process']))
        /\ ~protocolError' => Heard(frames'[process'], written'[process'],
                                    Len(written'[process']) - Len(output'[process']))
    BY <2>1, <2>3
  <2> QED BY <2>4, <2>5, <2>6 DEF AloneInv
<1>11. CASE RequestStop
  <2>1. UNCHANGED <<process, mixed, output, written, reader, held, protocolError, code, frames>>
    BY <1>11 DEF RequestStop
  <2>2. CASE UNCHANGED <<runtimeError, troubled>>
    BY <1>2, <2>1, <2>2
  <2>3. CASE troubled'
    BY <2>3 DEF AloneInv
  <2> QED BY <1>11, <2>2, <2>3 DEF RequestStop
<1>12. CASE Watchdog
  BY <1>12 DEF Watchdog, AloneInv
<1>13. CASE SpawnRefused \/ SpawnFails \/ Finish \/ ResidentDies \/ ClaimFails
  BY <1>1, <1>3, <1>13 DEF SpawnRefused, SpawnFails, Finish, ResidentDies, ClaimFails, ResidentEnds,
     NewSlot, Processes
<1>14. CASE \/ ReplaceGroup \/ StartDirectly \/ FindDue \/ ClaimMinute
            \/ NewGeneration \/ WallClock \/ Tick \/ UNCHANGED vars
  BY <1>2, <1>14 DEF ReplaceGroup, StartDirectly, FindDue, ClaimMinute, NewGeneration, WallClock,
                     Tick, vars
<1>15. ASSUME NEW a \in Attempt, Fetch(a) \/ Observe(a) \/ EndOfPipe(a) \/ PipeFails(a)
       PROVE  AloneInv'
  <2>1. process' = process /\ mixed' = mixed
    BY <1>15 DEF Fetch, Observe, EndOfPipe, PipeFails
  <2>2. Fetch(a) \/ EndOfPipe(a) => troubled' = troubled
    BY DEF Fetch, EndOfPipe
  <2>3. SUFFICES ASSUME IsQueue, process # NoAttempt, ~mixed, ~troubled' PROVE AloneInv'
    BY <1>1, <2>1 DEF AloneInv
  <2> QED BY <1>5, <1>6, <1>7, <1>8, <1>15, <2>2, <2>3
<1>16. CASE (\E line \in workload.lines : Write(line)) \/ Exit
  <2>1. UNCHANGED <<process, mixed, troubled>>
    BY <1>16 DEF Write, Exit
  <2> QED BY <1>1, <1>9, <1>10, <1>16, <2>1 DEF AloneInv
<1> QED BY <1>4, <1>11, <1>12, <1>13, <1>14, <1>15, <1>16 DEF Next

(* The verdict on a queue worker is the one its own output deserves, for   *)
(* every set of lines and however its writing, the reading and the end     *)
(* interleave (slot.py:328-341, 376-391, 413-436;                          *)
(* queue_protocol.py:29-94).                                               *)
THEOREM VerdictIsDeserved == Spec => []VerdictDeserved
<1>1. Init => AloneInv /\ TroubledInv /\ VerdictDeserved
  BY DEF Init, AloneInv, TroubledInv, VerdictDeserved
<1>2. VerdictInv /\ [Next]_vars => AloneInv' /\ TroubledInv' /\ VerdictDeserved'
  BY KeepsAlone, KeepsTroubled, KeepsVerdict
<1> QED BY <1>1, <1>2, ShapeInvariant, PTL DEF Spec, VerdictInv

-----------------------------------------------------------------------------
(* The wait is a number.                                                   *)
DelayInv == workload \in Workload /\ delay \in Nat

(* The wait before the next start is a number of ticks.                    *)
LEMMA DelayInvariant == Spec => []DelayInv
<1>. USE DEF fixed, world, child, resident, slot, errors, parser, restart, readers, budget, past
<1>1. Init => DelayInv
  BY DEF Init, DelayInv
<1>2. ASSUME DelayInv, [Next]_vars PROVE DelayInv'
  <2>1. workload' = workload
    BY <1>2, SameWorkload
  <2>2. {Policy.max, Cooldown, EmptyCooldown, workload.sleep} \subseteq Nat
    BY <1>2, RoundsAssumption DEF DelayInv, Policy
  <2>3. CASE delay' = delay \/ delay' = 0
    BY <1>2, <2>1, <2>3 DEF DelayInv
  <2>4. CASE RecordCrash
    <3>1. \A n : Capped(n, Policy.max) \in Nat
      BY <2>2 DEF Capped
    <3> QED BY <1>2, <2>1, <2>4, <3>1 DEF RecordCrash, DelayInv
  <2>5. ASSUME NEW outcome, Recycle(outcome) PROVE DelayInv'
    <3>1. HealthyDelay(outcome) \in Nat
      BY <2>2 DEF HealthyDelay, Larger
    <3> QED BY <1>2, <2>1, <2>5, <3>1 DEF Recycle, DelayInv
  <2>6. CASE SpawnFails \/ Finish
    BY <2>4, <2>5, <2>6 DEF SpawnFails, Finish
  <2>7. CASE Tick
    BY <1>2, <2>1, <2>7 DEF Tick, DelayInv
  <2>8. CASE ResidentDies \/ ClaimFails \/ ReplaceGroup
    BY <2>3, <2>8 DEF ResidentDies, ClaimFails, ResidentEnds, NewSlot, ReplaceGroup
  <2>9. CASE StartDirectly \/ FindDue \/ ClaimMinute \/ Spawn \/ SpawnRefused
    BY <2>3, <2>9 DEF StartDirectly, FindDue, ClaimMinute, Spawn, SpawnRefused
  <2> QED BY <1>2, <2>3, <2>6, <2>7, <2>8, <2>9, NotWaiting DEF Next, waiting
<1> QED BY <1>1, <1>2, PTL DEF Spec

(* The last lines are a suffix.                                            *)
LEMMA BehindIsSuffix ==
  ASSUME NEW S, NEW left \in Seq(S), NEW all \in Seq(S), Behind(left, all)
  PROVE  IsSuffix(left, all)
<1>. DEFINE back == Reverse(left)
            Back == Reverse(all)
            n == Len(left)
<1>1. /\ n \in Nat /\ Len(all) \in Nat /\ n <= Len(all)
      /\ \A i \in 1..n : left[i] \in S /\ left[i] = all[(Len(all) - n) + i]
      /\ \A i \in 1..Len(all) : all[i] \in S
  BY DEF Behind
<1>2. /\ Len(back) = n /\ back \in Seq(S) /\ \A i \in 1..n : back[i] = left[(n - i) + 1]
  BY <1>1 DEF Reverse
<1>3. /\ Len(Back) = Len(all) /\ Back \in Seq(S)
      /\ \A i \in 1..Len(all) : Back[i] = all[(Len(all) - i) + 1]
  BY <1>1 DEF Reverse
<1>. HIDE DEF back, Back
<1>4. \A i \in 1..n : back[i] = Back[i] /\ back[i] \in S /\ Back[i] \in S
  <2>1. ASSUME NEW i \in 1..n PROVE back[i] = Back[i] /\ back[i] \in S
    <3>1. /\ (n - i) + 1 \in 1..n /\ i \in 1..Len(all)
          /\ (Len(all) - n) + ((n - i) + 1) = (Len(all) - i) + 1
      BY <1>1
    <3> QED BY <1>1, <1>2, <1>3, <3>1
  <2> QED BY <2>1
<1>. HIDE DEF n
<1>5. /\ SubSeq(back, 1, n) \in Seq(S) /\ Len(SubSeq(back, 1, n)) = IF 1 <= n THEN n - 1 + 1 ELSE 0
      /\ \A i \in 1..(n - 1 + 1) : SubSeq(back, 1, n)[i] = back[1 + i - 1]
  BY <1>1, <1>4, SubSeqProperties
<1>6. /\ SubSeq(Back, 1, n) \in Seq(S) /\ Len(SubSeq(Back, 1, n)) = IF 1 <= n THEN n - 1 + 1 ELSE 0
      /\ \A i \in 1..(n - 1 + 1) : SubSeq(Back, 1, n)[i] = Back[1 + i - 1]
  BY <1>1, <1>4, SubSeqProperties
<1>7. SubSeq(back, 1, n) = SubSeq(Back, 1, n)
  <2>. DEFINE s == SubSeq(back, 1, n)
              t == SubSeq(Back, 1, n)
  <2>1. n - 1 + 1 = n /\ \A i \in 1..n : 1 + i - 1 = i
    BY <1>1
  <2>2. s \in Seq(S) /\ t \in Seq(S) /\ Len(s) = Len(t) /\ Len(s) = n
    BY <1>1, <1>5, <1>6
  <2>3. \A i \in 1..n : s[i] = t[i]
    BY <1>4, <1>5, <1>6, <2>1
  <2>. HIDE DEF s, t
  <2>4. s = t
    BY <2>2, <2>3, SeqEqual
  <2> QED BY <2>4 DEF s, t
<1> QED BY <1>1, <1>2, <1>3, <1>7 DEF IsSuffix, IsPrefix, back, Back

(* The state is well-typed: a classifier is that of the process there is,  *)
(* frames are a start and its end, what is left in a pipe is a suffix of   *)
(* what was written (slot.py, scheduler.py, queue_protocol.py).            *)
THEOREM TypeCorrect == Spec => []TypeOK
<1>1. Shape /\ CrashInv /\ DelayInv => TypeOK
  <2>. SUFFICES ASSUME Shape, CrashInv, DelayInv PROVE TypeOK
    OBVIOUS
  <2>1. /\ workload \in Workload /\ wanted \in Generation /\ generation \in Generation
        /\ generation <= wanted /\ minute \in Minute /\ due \in Minute \union {0}
        /\ (claim = Unclaimed \/ claim \in {Claim(g, m) : g \in Generation, m \in Minute})
        /\ place \in {"idle", "claim", "spawn"}
    BY Attempts DEF Shape, Schedules, Generation
  <2>2. /\ (place # "idle" => process = NoAttempt)
        /\ process \in 0..used /\ used \in 0..workload.attempts
        /\ code \in {0, 1, Running} /\ (code = Running => process # NoAttempt)
        /\ classifier = (IF IsQueue THEN process ELSE NoAttempt) /\ verdict \in Verdicts
    BY DEF Shape, Processes
  <2>3. ASSUME NEW a \in Attempt
        PROVE  /\ Len(frames[a]) <= 2 /\ (frames[a] # <<>> => IsStart(frames[a][1]))
               /\ IsSuffix(output[a], written[a]) \/ reader[a] = "done"
               /\ reader[a] \in {"none", "reading", "holding", "done"}
               /\ held[a] \in 0..used
    <3>1. Len(frames[a]) <= 2 /\ (frames[a] # <<>> => IsStart(frames[a][1]))
      <4>1. Understood(frames[a])
        BY DEF Shape, Readers
      <4> QED BY <4>1 DEF Understood
    <3>2. IsSuffix(output[a], written[a]) \/ reader[a] = "done"
      BY BehindIsSuffix DEF Shape, Readers
    <3> QED BY <3>1, <3>2 DEF Shape, Readers
  <2>4. \A i \in DOMAIN crashes : crashes[i] \in 0..(Policy.window + 1)
    <3>1. Policy.window \in Nat
      BY <2>1, RoundsAssumption DEF Policy
    <3>2. ASSUME NEW i \in DOMAIN crashes PROVE crashes[i] \in 0..(Policy.window + 1)
      <4>1. /\ crashes \in Seq(Nat) /\ failures \in Seq(Nat) /\ Len(crashes) <= Len(failures)
            /\ crashes[i] = failures[(Len(failures) - Len(crashes)) + i]
            /\ \A j \in DOMAIN failures : failures[j] <= Window + 1
        BY DEF CrashInv, Counted
      <4>2. (Len(failures) - Len(crashes)) + i \in DOMAIN failures
        BY <4>1
      <4>3. crashes[i] \in Nat /\ crashes[i] <= Window + 1
        BY <4>1, <4>2
      <4> QED BY <3>1, <4>3 DEF Window
    <3> QED BY <3>2
  <2>5. {stopping, runtimeError, protocolError, fatal, recycling, mixed, troubled} \subseteq BOOLEAN
    BY DEF Shape, Flags
  <2> QED BY <2>1, <2>2, <2>3, <2>4, <2>5 DEF TypeOK, DelayInv
<1> QED BY <1>1, ShapeInvariant, CrashInvariant, DelayInvariant, PTL
=============================================================================
