-------------------------------- MODULE SunTick --------------------------------
(***************************************************************************)
(* When a sunrise or sunset trigger fires.  Celery beat queues             *)
(* recalc_sun_times every Period; a worker starts it up to Delay later.     *)
(* The task computes today's sunrise and sunset, adds the trigger's offset *)
(* and executes the schedule when the result is less than Window away,     *)
(* before or after.  Like the cron check it remembers nothing; unlike it,  *)
(* it never looks at yesterday's or tomorrow's sun.                        *)
(*                                                                         *)
(* One enabled schedule with one sun trigger is modelled, the location     *)
(* being set.  Instants are counted from the midnight (UTC) at which       *)
(* date.today() changes; the instant of the sun, offset included, may      *)
(* change every day and may lie in a neighbouring day.                     *)
(***************************************************************************)
EXTENDS Integers

CONSTANTS
  Day,      \* length of a day
  Period,   \* beat interval of recalc-sun-times
  Window,   \* the sun counts as risen or set when less than this away
  Delay,    \* the longest a queued task waits for a worker
  Targets   \* where sunrise or sunset plus offset may lie, from today's midnight

\* Assumed of the constants wherever something is proved of them.
ConstantsHold ==
  /\ Day \in Nat \ {0} /\ Period \in Nat /\ Window \in Nat /\ Delay \in Nat
  /\ Delay < Period
  /\ Targets \subseteq Int

\* The whole window of every target lies within its day.
TargetsWithinDay == \A t \in Targets : Window <= t + 1 /\ t + Window <= Day
\* The time between two checks never exceeds the window.
WindowCoversPeriod == Period + Delay < 2 * Window
\* Three checks cannot fall into one window.
ThreeChecksDoNotFit == 2 * Window <= 2 * Period - Delay + 1

VARIABLES
  now,      \* time of day
  target,   \* today's sunrise or sunset plus the trigger's offset
  runs,     \* executions today
  tick,     \* time since beat last queued the task
  job       \* "queued": the task waits for a worker; "none": it was started

vars == <<now, target, runs, tick, job>>

Init ==
  /\ now = 0 /\ runs = 0
  /\ target \in Targets
  /\ tick \in 0 .. Period
  /\ job = IF tick = 0 THEN "queued" ELSE "none"

\* Time passes; beat and the workers are not later than assumed.
Pass ==
  /\ tick < Period
  /\ job = "queued" => tick < Delay
  /\ tick' = tick + 1
  /\ UNCHANGED job

\* Within a day ...
Second ==
  /\ Pass
  /\ now < Day - 1
  /\ now' = now + 1
  /\ UNCHANGED <<target, runs>>

\* ... and over midnight, when date.today() moves on.
Midnight ==
  /\ Pass
  /\ now = Day - 1
  /\ now' = 0
  /\ target' \in Targets
  /\ runs' = 0

\* Mutant: the timer is not reset.
BeatWithoutReset ==
  /\ tick = Period /\ job' = "queued"
  /\ UNCHANGED <<now, target, runs, tick>>
\* Beat queues the next task.
Beat ==
  /\ tick = Period
  /\ tick' = 0
  /\ job' = "queued"
  /\ UNCHANGED <<now, target, runs>>

\* Mutants: half an hour to either side, and abs() forgotten.
MatchesHalf(seconds) == -seconds < Period \div 2 /\ seconds < Period \div 2
MatchesBefore(seconds) == seconds < Window
\* abs((now - target_time).total_seconds()) < Window
Matches(seconds) == -seconds < Window /\ seconds < Window

\* A worker runs _recalc_sun_times_async.
Check ==
  /\ job = "queued"
  /\ job' = "none"
  /\ runs' = IF Matches(now - target) THEN runs + 1 ELSE runs
  /\ UNCHANGED <<now, target, tick>>

Next == Second \/ Midnight \/ Beat \/ Check

Spec == Init /\ [][Next]_vars

----------------------------------------------------------------------------

\* Types and clock ranges.
TypeOK ==
  /\ now \in 0 .. Day - 1
  /\ target \in Targets
  /\ runs \in Nat
  /\ tick \in 0 .. Period
  /\ job \in {"none", "queued"}
  /\ job = "queued" => tick <= Delay

\* "schedule execution for sun-triggered schedules": no day ends before the
\* schedule has been executed.  (The code ensures it only for targets whose
\* window does not reach over midnight, which is in the evening of New York.)
NoDayMissed == [][Midnight => runs >= 1]_vars

\* The windows of consecutive checks overlap: a schedule may be executed twice
\* for one sunset, undoing what was done to the lights in between, but never
\* more often.
AtMostTwice == runs <= 2

\* The strengthenings: a schedule that has not run had no check in its window yet ...
NotYetDue ==
  runs = 0 => IF job = "queued" THEN now + Window <= target + Period + tick
                                ELSE now + Window <= target + tick

\* ... and one that has run once or twice had its last check late enough.
LastCheckIsLate ==
  LET opens == target - Window + 1
      beat  == now - tick
      late(n) == beat + Delay >= opens + n * Period
  IN  \/ runs = 0
      \/ runs = 1 /\ IF job = "queued" THEN late(1) ELSE late(0)
      \/ runs = 2 /\ IF job = "queued" THEN late(2) ELSE late(1)
=============================================================================
