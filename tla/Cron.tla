-------------------------------- MODULE Cron --------------------------------
(***************************************************************************)
(* The five-field cron expressions of scheduler.py, as functions.          *)
(*                                                                         *)
(* A field is the set of its comma-separated segments and whether its text *)
(* begins with a star, however it goes on.  The start of a segment is a    *)
(* number or Star; its end is a number, or Open for "a" without a dash.    *)
(* An expression is a record of five fields.  The times it is asked about  *)
(* are local times.                                                        *)
(***************************************************************************)
EXTENDS Integers

Star == -1
Open == -1
NoStep == 0

ClockTime ==
  [minute : 0..59, hour : 0..23, day : 1..31, month : 1..12, weekday : 0..6]

Segment(first, last, step) == [first |-> first, last |-> last, step |-> step]

AnyValue   == [segments |-> {Segment(Star, Open, NoStep)}, wildcard |-> TRUE]
Every(n)   == [segments |-> {Segment(Star, Open, n)}, wildcard |-> TRUE]
From(a, n) == [segments |-> {Segment(a, Open, n)}, wildcard |-> FALSE]
Between(a, b, n) == [segments |-> {Segment(a, b, n)}, wildcard |-> FALSE]
At(vs)     == [segments |-> {Segment(v, Open, NoStep) : v \in vs}, wildcard |-> FALSE]

(* What the parser accepts: at least one segment, numbers within the range *)
(* of the field, and none that ends before it starts.                      *)
ValidField(field, minimum, maximum) ==
  /\ field.segments # {}
  /\ \A segment \in field.segments :
       /\ segment.step \in Nat
       /\ \/ segment.first = Star /\ segment.last = Open
          \/ /\ segment.first \in minimum..maximum
             /\ segment.last = Open \/ segment.last \in segment.first..maximum

ValidCron(cron) ==
  /\ ValidField(cron.minute, 0, 59) /\ ValidField(cron.hour, 0, 23)
  /\ ValidField(cron.day, 1, 31) /\ ValidField(cron.month, 1, 12)
  /\ ValidField(cron.weekday, 0, 7)

-----------------------------------------------------------------------------
(* The numbers a segment lists.  A single number stands for itself, with a *)
(* step for everything from it on.                                         *)
Listed(segment, minimum, maximum) ==
  LET start == IF segment.first = Star THEN minimum ELSE segment.first
      end   == IF segment.last # Open THEN segment.last
               ELSE IF segment.first = Star \/ segment.step # NoStep THEN maximum
               ELSE start
      step  == IF segment.step = NoStep THEN 1 ELSE segment.step
  IN  {v \in start..end : (v - start) % step = 0}

ValuesOf(field, minimum, maximum) ==
  UNION {Listed(segment, minimum, maximum) : segment \in field.segments}

(* Mutant: a 7 that is not taken for Sunday.                               *)
DaysOfWeekUnaliased(field) == ValuesOf(field, 0, 7)

(* Sunday is 0 and 7.                                                      *)
DaysOfWeek(field) ==
  {IF v = 7 THEN 0 ELSE v : v \in ValuesOf(field, 0, 7)}

(* Days of the week are counted from Monday by the clock, from Sunday by   *)
(* cron.                                                                   *)
DayMatches(cron, time) ==
  LET dom == time.day \in ValuesOf(cron.day, 1, 31)
      dow == (time.weekday + 1) % 7 \in DaysOfWeek(cron.weekday)
  IN  CASE cron.day.wildcard /\ cron.weekday.wildcard -> dom /\ dow
        [] cron.day.wildcard /\ ~cron.weekday.wildcard -> dow
        [] ~cron.day.wildcard /\ cron.weekday.wildcard -> dom
        [] OTHER -> dom \/ dow

Matches(cron, time) ==
  /\ time.minute \in ValuesOf(cron.minute, 0, 59)
  /\ time.hour \in ValuesOf(cron.hour, 0, 23)
  /\ time.month \in ValuesOf(cron.month, 1, 12)
  /\ DayMatches(cron, time)
=============================================================================
