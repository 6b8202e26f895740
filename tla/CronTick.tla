-------------------------------- MODULE CronTick --------------------------------
(***************************************************************************)
(* When a cron trigger fires.  Celery beat queues check_cron_schedules     *)
(* every Period seconds; a worker starts it up to Delay seconds later.  The *)
(* check has no memory: it compares the time of the trigger's latest       *)
(* occurrence (croniter.get_prev) with the clock, and executes the schedule *)
(* when less than Window seconds have passed.  Whether every occurrence is *)
(* executed, and how often, is left to those three numbers.                *)
(*                                                                         *)
(* One enabled schedule with one cron trigger is modelled; time is counted *)
(* in seconds and an age is kept up to MinGap, the least distance of two   *)
(* occurrences (a cron expression has minute resolution).                  *)
(***************************************************************************)
EXTENDS Naturals

CONSTANTS
  Period,   \* beat interval of check-cron-schedules
  Window,   \* an occurrence younger than this is executed
  Delay,    \* the longest a queued check waits for a worker
  MinGap    \* the least distance of two occurrences

ASSUME PeriodAssumption ==
  /\ Period \in Nat /\ Window \in Nat /\ Delay \in Nat /\ MinGap \in Nat
  /\ Delay < Period
  /\ Window <= MinGap

\* A check is late by less than the overlap of Window and Period.
PunctualWorker == Period + Delay < Window
\* Three checks cannot fall into one Window.
ShortWindow == Window + Delay <= 2 * Period

VARIABLES
  age,     \* seconds since the latest occurrence, up to MinGap
  runs,    \* executions for the latest occurrence
  tick,    \* seconds since beat last queued the check
  job      \* "queued": the check waits for a worker; "none": it was started

vars == <<age, runs, tick, job>>

\* The worker comes up when the latest occurrence is past and dealt with.
Init ==
  /\ age \in Window .. MinGap
  /\ runs = 1
  /\ tick \in 0 .. Period
  /\ job = "none"

\* A second passes; beat and the workers are not later than assumed.
Second ==
  /\ tick < Period
  /\ job = "queued" => tick < Delay
  /\ tick' = tick + 1
  /\ age' = IF age < MinGap THEN age + 1 ELSE age
  /\ UNCHANGED <<runs, job>>

\* The cron expression's next occurrence.
Occur ==
  /\ age >= MinGap
  /\ age' = 0
  /\ runs' = 0
  /\ UNCHANGED <<tick, job>>

\* Mutant: the timer is not reset.
BeatWithoutReset ==
  /\ tick = Period /\ job' = "queued"
  /\ UNCHANGED <<age, runs, tick>>
\* Beat queues the next check.
Beat ==
  /\ tick = Period
  /\ tick' = 0
  /\ job' = "queued"
  /\ UNCHANGED <<age, runs>>

\* Mutants: a window as long as the period, and twice as long.
MatchesOnePeriod(seconds) == seconds < Period
MatchesTwoPeriods(seconds) == seconds <= 2 * Period
\* (now - prev).total_seconds() < Window
Matches(seconds) == seconds < Window

\* A worker runs _check_cron_schedules_async.  In the very second of an
\* occurrence get_prev may still return the one before it.
Check ==
  /\ job = "queued"
  /\ job' = "none"
  /\ \/ Matches(age) /\ runs' = runs + 1
     \/ (~Matches(age) \/ age = 0) /\ UNCHANGED runs
  /\ UNCHANGED <<age, tick>>

Next == Second \/ Occur \/ Beat \/ Check

Spec == Init /\ [][Next]_vars

----------------------------------------------------------------------------

\* Types and clock ranges.
TypeOK ==
  /\ age \in 0 .. MinGap
  /\ runs \in Nat
  /\ tick \in 0 .. Period
  /\ job \in {"none", "queued"}
  /\ job = "queued" => tick <= Delay

\* No occurrence is missed: once it is too old for any check, it has run.
NoOccurrenceMissed == age >= Window => runs >= 1

\* The windows of consecutive checks overlap, so an occurrence may be executed
\* twice, but never more often.
AtMostTwice == runs <= 2

\* The strengthenings: how old an occurrence can be that has not run yet ...
WaitingIsYoung ==
  runs = 0 => IF job = "queued" THEN age <= Period + tick ELSE age <= tick

\* ... and how old one must be that has run once or twice already.
RunIsOld ==
  \/ age >= Window /\ runs <= 2
  \/ runs = 0
  \/ runs = 1 /\ IF job = "queued" THEN age + Delay >= Period + tick ELSE age + Delay >= tick
  \/ runs = 2 /\ IF job = "queued" THEN age + Delay >= 2 * Period + tick
                           ELSE age + Delay >= Period + tick
=============================================================================
