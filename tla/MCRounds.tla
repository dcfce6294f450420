------------------------------ MODULE MCRounds ------------------------------
(* Instances of Rounds for TLC.                                            *)
EXTENDS Rounds

Time(minute_, hour, day, month, weekday) ==
  [minute |-> minute_, hour |-> hour, day |-> day, month |-> month, weekday |-> weekday]

(* Local times: an hour in which the clock of the time zone goes back, so  *)
(* that two minutes read the same; a Sunday, a Monday, the first of a      *)
(* month that is a Tuesday.                                                *)
Calendar ==
  << Time(59, 2, 25, 10, 6), Time(59, 2, 25, 10, 6),
     Time(0, 0, 26, 10, 0), Time(30, 12, 1, 12, 1) >>

Cron5(m, h, d, mo, w) ==
  [minute |-> m, hour |-> h, day |-> d, month |-> mo, weekday |-> w]

Expressions ==
  { Cron5(AnyValue, AnyValue, AnyValue, AnyValue, AnyValue),
    Cron5(From(9, 10), AnyValue, AnyValue, AnyValue, At({7})),
    Cron5(Every(30), Every(12), AnyValue, AnyValue, Between(1, 5, 1)),
    Cron5(AnyValue, AnyValue, At({1}), AnyValue, At({0})),
    Cron5(At({0, 30}), AnyValue, Between(1, 26, 5), From(10, 1), AnyValue),
    Cron5(Between(29, 59, 15), AnyValue, AnyValue, At({10}), From(6, 1)) }

NoCron == Cron5(At({0}), At({0}), At({1}), At({1}), At({0}))

Start(job)   == Frame("starting", "none", job)
Success(job) == Frame("success", "none", job)

Conversations ==
  { {Start("a"), Success("a"), Success("b")},
    {Start("a"), Frame("released_after_exception", "none", "a"), Malformed},
    {Start("a"), Frame("failed", "released", "a"), Noise},
    {Frame("failed", "failed", "a"), Start("a")} }

Restart(w, n) ==
  [enabled |-> TRUE, base |-> 1, max |-> 3, window |-> w, crashes |-> n]

Nothing ==
  [kind |-> "service", cron |-> NoCron, lines |-> {}, writes |-> 0, sleep |-> 0,
   restart |-> Restart(1, 2), attempts |-> 1, generations |-> 1,
   faults |-> 0, late |-> 0, deaths |-> 0, setBacks |-> 0]

(* Schedulers: one expression after the other, with a clock that is set    *)
(* back; one for every minute whose resident dies and whose generation     *)
(* changes.                                                                *)
Scheduler(expression) ==
  [Nothing EXCEPT !.kind = "scheduler", !.cron = expression, !.attempts = 2,
                  !.setBacks = 1]

Claimer ==
  [Scheduler(Cron5(AnyValue, AnyValue, AnyValue, AnyValue, AnyValue)) EXCEPT
     !.attempts = 3, !.generations = 2, !.deaths = 1, !.setBacks = 0]

(* Workers: one whose reading fails, at every conversation; two in a row,  *)
(* of which the first may have a reader that is late.                      *)
Worker(conversation) ==
  [Nothing EXCEPT !.kind = "queue_once", !.lines = conversation, !.writes = 3,
                  !.sleep = 2, !.generations = 2, !.faults = 1]

Workers ==
  [Nothing EXCEPT !.kind = "queue_once", !.lines = {Start("a"), Success("a")},
                  !.writes = 2, !.sleep = 2, !.attempts = 2, !.faults = 1,
                  !.late = 1]

(* Services: with and without a restart policy.                            *)
Service(policy) ==
  [Nothing EXCEPT !.restart = policy, !.attempts = 5, !.generations = 2,
                  !.faults = 1, !.late = 1]

(* A worker that finds nothing to do or fails, over and over.              *)
Poller ==
  [Nothing EXCEPT !.kind = "queue_once", !.sleep = 1, !.attempts = 5,
                  !.restart = Restart(4, 2), !.faults = 1]

LateReader == { [Workers EXCEPT !.faults = 0] }

Groups ==
  { Scheduler(expression) : expression \in Expressions }
    \union { Worker(conversation) : conversation \in Conversations }
    \union { Claimer, Workers, Poller,
             Service(Restart(3, 3)), Service([Restart(3, 3) EXCEPT !.enabled = FALSE]) }

(* The hypothesis of RoundsProofs!RunsAsWritten holds of the expressions.  *)
ASSUME StarsForAll == StarsMeanAll
=============================================================================
