----------------------------- MODULE MCTicks_proofs -----------------------------
(* Proofs about the two triggers, CronTick and SunTick, for all values of  *)
(* their constants, and about their composition in MCTicks.                *)
EXTENDS MCTicks, Integers, TLAPS

----------------------------------------------------------------------------
(* The cron trigger.                                                       *)

\* The variables keep their types; a queued check is never overdue.
THEOREM TypeCorrect == Spec => []TypeOK
<1>1. Init => TypeOK
  BY PeriodAssumption DEF Init, TypeOK
<1>2. TypeOK /\ [Next]_vars => TypeOK'
  <2> SUFFICES ASSUME TypeOK, [Next]_vars PROVE TypeOK'
    OBVIOUS
  <2> USE PeriodAssumption DEF TypeOK
  <2>1. CASE Second  BY <2>1 DEF Second
  <2>2. CASE Occur   BY <2>2 DEF Occur
  <2>3. CASE Beat    BY <2>3 DEF Beat
  <2>4. CASE Check   BY <2>4 DEF Check
  <2>5. CASE UNCHANGED vars  BY <2>5 DEF vars
  <2> QED  BY <2>1, <2>2, <2>3, <2>4, <2>5 DEF Next
<1> QED  BY <1>1, <1>2, PTL DEF Spec

\* While checks start soon enough, an occurrence that has not run is young.
LEMMA WaitingStep ==
  ASSUME PunctualWorker
  PROVE  TypeOK /\ WaitingIsYoung /\ [Next]_vars => WaitingIsYoung'
<1> SUFFICES ASSUME TypeOK, WaitingIsYoung, [Next]_vars PROVE WaitingIsYoung'
  OBVIOUS
<1> USE PeriodAssumption DEF TypeOK, WaitingIsYoung
<1>1. CASE Second  BY <1>1 DEF Second
<1>2. CASE Occur   BY <1>2 DEF Occur
<1>3. CASE Beat    BY <1>3 DEF Beat
<1>4. CASE Check
  <2>1. CASE age = 0  BY <2>1, <1>4 DEF Check
  <2>2. CASE age # 0 /\ Matches(age)  BY <2>2, <1>4 DEF Check
  <2>3. CASE ~Matches(age)
    \* Too old for this check, hence run by an earlier one.
    BY <2>3, <1>4, PunctualWorker DEF Check, Matches, PunctualWorker
  <2> QED  BY <2>1, <2>2, <2>3
<1>5. CASE UNCHANGED vars  BY <1>5 DEF vars
<1> QED  BY <1>1, <1>2, <1>3, <1>4, <1>5 DEF Next

\* With workers that start a queued check soon enough, every occurrence of a
\* cron trigger is executed: check_cron_schedules needs no memory for that.
THEOREM PunctualNeverMisses ==
  ASSUME PunctualWorker
  PROVE  Spec => []NoOccurrenceMissed
<1>1. Init => WaitingIsYoung
  BY DEF Init, WaitingIsYoung
<1>2. TypeOK /\ WaitingIsYoung => NoOccurrenceMissed
  BY PunctualWorker, PeriodAssumption
  DEF PunctualWorker, TypeOK, WaitingIsYoung, NoOccurrenceMissed
<1>3. TypeOK /\ WaitingIsYoung /\ [Next]_vars => WaitingIsYoung'
  BY WaitingStep, PunctualWorker
<1> QED  BY <1>1, <1>2, <1>3, TypeCorrect, PTL DEF Spec

\* While two beats are longer than a window and a delay, an occurrence that has
\* run twice is too old to run again.
LEMMA RunStep ==
  ASSUME ShortWindow
  PROVE  TypeOK /\ RunIsOld /\ [Next]_vars => RunIsOld'
<1> SUFFICES ASSUME TypeOK, RunIsOld, [Next]_vars PROVE RunIsOld'
  OBVIOUS
<1> USE PeriodAssumption DEF TypeOK, RunIsOld
<1>1. CASE Second
  <2>1. age' \in Nat /\ age' >= age /\ (age < Window => age' = age + 1)
    BY <1>1 DEF Second
  <2>2. runs' = runs /\ job' = job /\ tick' = tick + 1
    BY <1>1 DEF Second
  <2>3. CASE age >= Window
    <3>1. runs <= 2  OBVIOUS
    <3>2. age' >= Window  BY <2>1, <2>3
    <3> QED  BY <2>2, <3>1, <3>2
  <2>4. CASE age < Window  BY <2>1, <2>2, <2>4
  <2> QED  BY <2>3, <2>4
<1>2. CASE Occur   BY <1>2 DEF Occur
<1>3. CASE Beat    BY <1>3 DEF Beat
<1>4. CASE Check
  <2>1. CASE UNCHANGED runs  BY <2>1, <1>4 DEF Check
  <2>2. CASE Matches(age) /\ runs' = runs + 1
    <3>1. age < Window  BY <2>2 DEF Matches
    <3>2. runs # 2
      BY <3>1, <1>4, ShortWindow DEF Check, ShortWindow
    <3> QED  BY <2>2, <3>1, <3>2, <1>4 DEF Check
  <2> QED  BY <2>1, <2>2, <1>4 DEF Check
<1>5. CASE UNCHANGED vars  BY <1>5 DEF vars
<1> QED  BY <1>1, <1>2, <1>3, <1>4, <1>5 DEF Next

\* An occurrence is executed at most twice, because Window exceeds Period by
\* less than a whole beat.
THEOREM NeverThrice ==
  ASSUME ShortWindow
  PROVE  Spec => []AtMostTwice
<1>1. Init => RunIsOld
  BY PeriodAssumption DEF Init, RunIsOld
<1>2. TypeOK /\ RunIsOld => AtMostTwice
  BY DEF TypeOK, RunIsOld, AtMostTwice
<1>3. TypeOK /\ RunIsOld /\ [Next]_vars => RunIsOld'
  BY RunStep, ShortWindow
<1> QED  BY <1>1, <1>2, <1>3, TypeCorrect, PTL DEF Spec

----------------------------------------------------------------------------
(* The sun trigger.                                                        *)

\* The variables keep their types; a queued task is never overdue.
THEOREM SunTypeCorrect == Sun!Spec => []Sun!TypeOK
<1>1. Sun!Init => Sun!TypeOK
  BY SunAssumption DEF Sun!Init, Sun!TypeOK, Sun!ConstantsHold
<1>2. Sun!TypeOK /\ [Sun!Next]_Sun!vars => Sun!TypeOK'
  <2> SUFFICES ASSUME Sun!TypeOK, [Sun!Next]_Sun!vars PROVE Sun!TypeOK'
    OBVIOUS
  <2> USE SunAssumption DEF Sun!TypeOK, Sun!ConstantsHold
  <2>1. CASE Sun!Second    BY <2>1 DEF Sun!Second, Sun!Pass
  <2>2. CASE Sun!Midnight  BY <2>2 DEF Sun!Midnight, Sun!Pass
  <2>3. CASE Sun!Beat      BY <2>3 DEF Sun!Beat
  <2>4. CASE Sun!Check     BY <2>4 DEF Sun!Check
  <2>5. CASE UNCHANGED Sun!vars  BY <2>5 DEF Sun!vars
  <2> QED  BY <2>1, <2>2, <2>3, <2>4, <2>5 DEF Sun!Next
<1> QED  BY <1>1, <1>2, PTL DEF Sun!Spec

\* Where the windows lie within their days and cover a period, a schedule that
\* has not run had no check in its window; and midnight finds it executed.
LEMMA SunWaitingStep ==
  ASSUME Sun!TargetsWithinDay, Sun!WindowCoversPeriod, Sun!TypeOK, Sun!NotYetDue, [Sun!Next]_Sun!vars
  PROVE  Sun!NotYetDue' /\ (Sun!Midnight => sunRuns >= 1)
<1>0. /\ Day \in Nat /\ SunPeriod \in Nat /\ SunWindow \in Nat /\ SunDelay \in Nat
      /\ now \in 0 .. Day - 1 /\ sunRuns \in Nat /\ sunTick \in 0 .. SunPeriod
      /\ sunJob \in {"none", "queued"} /\ (sunJob = "queued" => sunTick <= SunDelay)
      /\ target \in Int /\ SunWindow <= target + 1 /\ target + SunWindow <= Day
      /\ SunPeriod + SunDelay < 2 * SunWindow
  BY SunAssumption DEF Sun!ConstantsHold, Sun!TypeOK, Sun!TargetsWithinDay, Sun!WindowCoversPeriod
<1>1. ASSUME Sun!Midnight PROVE sunRuns >= 1
  <2> SUFFICES ASSUME sunRuns = 0 PROVE FALSE
    BY <1>0
  <2>1. now = Day - 1 /\ sunTick < SunPeriod /\ (sunJob = "queued" => sunTick < SunDelay)
    BY <1>1 DEF Sun!Midnight, Sun!Pass
  <2> QED  BY <1>0, <2>1 DEF Sun!NotYetDue
<1>2. ASSUME Sun!Second PROVE Sun!NotYetDue'
  BY <1>0, <1>2 DEF Sun!Second, Sun!Pass, Sun!NotYetDue
<1>3. ASSUME Sun!Midnight PROVE Sun!NotYetDue'
  <2>1. target' \in Int /\ SunWindow <= target' + 1
    BY <1>3, SunAssumption DEF Sun!ConstantsHold, Sun!Midnight, Sun!TargetsWithinDay
  <2>2. now' = 0 /\ sunTick' \in Nat /\ sunTick' >= 1
    BY <1>0, <1>3 DEF Sun!Midnight, Sun!Pass
  <2>3. SunWindow \in Nat /\ SunPeriod \in Nat
    BY <1>0
  <2>4. \A w, p, k \in Nat, t \in Int :
          w <= t + 1 /\ k >= 1 => 0 + w <= t + k /\ 0 + w <= t + p + k
    OBVIOUS
  <2>5. 0 + SunWindow <= target' + sunTick' /\ 0 + SunWindow <= target' + SunPeriod + sunTick'
    BY <2>1, <2>2, <2>3, <2>4
  <2> QED  BY <2>2, <2>5 DEF Sun!NotYetDue
<1>4. ASSUME Sun!Beat PROVE Sun!NotYetDue'
  <2>1. sunJob = "none" \/ sunRuns # 0
    BY <1>0, <1>4, SunAssumption DEF Sun!ConstantsHold, Sun!Beat
  <2> QED  BY <1>0, <1>4, <2>1 DEF Sun!Beat, Sun!NotYetDue
<1>5. ASSUME Sun!Check PROVE Sun!NotYetDue'
  <2>1. CASE Sun!Matches(now - target)
    BY <1>0, <1>5, <2>1 DEF Sun!Check, Sun!NotYetDue
  <2>2. CASE ~Sun!Matches(now - target)
    BY <1>0, <1>5, <2>2 DEF Sun!Check, Sun!Matches, Sun!NotYetDue
  <2> QED  BY <2>1, <2>2
<1>6. ASSUME UNCHANGED Sun!vars PROVE Sun!NotYetDue'
  BY <1>6 DEF Sun!vars, Sun!NotYetDue
<1> QED  BY <1>1, <1>2, <1>3, <1>4, <1>5, <1>6 DEF Sun!Next

\* Where the whole window of every target lies within its day, no day passes
\* without an execution: the hourly task needs no memory for that.
THEOREM NoSunsetMissed ==
  ASSUME Sun!TargetsWithinDay, Sun!WindowCoversPeriod
  PROVE  Sun!Spec => Sun!NoDayMissed
<1>1. Sun!Init => Sun!NotYetDue
  BY SunAssumption, Sun!TargetsWithinDay DEF Sun!ConstantsHold, Sun!Init, Sun!NotYetDue, Sun!TargetsWithinDay
<1>2. Sun!TypeOK /\ Sun!NotYetDue /\ [Sun!Next]_Sun!vars => Sun!NotYetDue' /\ [Sun!Midnight => sunRuns >= 1]_Sun!vars
  BY SunWaitingStep, Sun!TargetsWithinDay, Sun!WindowCoversPeriod
<1> QED  BY <1>1, <1>2, SunTypeCorrect, PTL DEF Sun!Spec, Sun!NoDayMissed

\* While two periods are longer than a window, a schedule that has run twice is
\* past its window at the next check.
LEMMA SunRunStep ==
  ASSUME Sun!ThreeChecksDoNotFit, Sun!TypeOK, Sun!LastCheckIsLate, [Sun!Next]_Sun!vars
  PROVE  Sun!LastCheckIsLate'
<1> USE SunAssumption DEF Sun!ConstantsHold, Sun!TypeOK, Sun!LastCheckIsLate, Sun!ThreeChecksDoNotFit
<1>1. CASE Sun!Second    BY <1>1 DEF Sun!Second, Sun!Pass
<1>2. CASE Sun!Midnight  BY <1>2 DEF Sun!Midnight, Sun!Pass
<1>3. CASE Sun!Beat      BY <1>3 DEF Sun!Beat
<1>4. CASE Sun!Check
  <2>1. CASE Sun!Matches(now - target)
    BY <1>4, <2>1 DEF Sun!Check, Sun!Matches
  <2>2. CASE ~Sun!Matches(now - target)
    BY <1>4, <2>2 DEF Sun!Check
  <2> QED  BY <2>1, <2>2
<1>5. CASE UNCHANGED Sun!vars  BY <1>5 DEF Sun!vars
<1> QED  BY <1>1, <1>2, <1>3, <1>4, <1>5 DEF Sun!Next

\* A schedule is executed at most twice for one sunrise or sunset.
THEOREM SunNeverThrice ==
  ASSUME Sun!ThreeChecksDoNotFit
  PROVE  Sun!Spec => []Sun!AtMostTwice
<1>1. Sun!Init => Sun!LastCheckIsLate
  BY DEF Sun!Init, Sun!LastCheckIsLate
<1>2. Sun!TypeOK /\ Sun!LastCheckIsLate /\ [Sun!Next]_Sun!vars => Sun!LastCheckIsLate'
  BY SunRunStep, Sun!ThreeChecksDoNotFit
<1>3. Sun!LastCheckIsLate => Sun!AtMostTwice
  BY DEF Sun!LastCheckIsLate, Sun!AtMostTwice
<1> QED  BY <1>1, <1>2, <1>3, SunTypeCorrect, PTL DEF Sun!Spec

----------------------------------------------------------------------------
(* The two together.                                                       *)

\* A behaviour of the two tasks is a behaviour of each.
LEMMA EachRuns == SpecEither => Spec /\ Sun!Spec
<1>1. InitEither => Init /\ Sun!Init
  BY DEF InitEither
<1>2. [NextEither]_<<at, vars, sunVars>> => [Next]_vars /\ [Sun!Next]_Sun!vars
  BY DEF NextEither, sunVars, Sun!vars
<1> QED  BY <1>1, <1>2, PTL DEF SpecEither, Spec, Sun!Spec

\* Beside the cron task, too, recalc_sun_times executes a schedule at most twice
\* for one sunrise or sunset.
THEOREM SunsetAtMostTwice ==
  ASSUME Sun!ThreeChecksDoNotFit
  PROVE  SpecEither => []SunAtMostTwice
BY EachRuns, SunNeverThrice, Sun!ThreeChecksDoNotFit, PTL DEF SunAtMostTwice

\* Beside the cron task, too, no day ends before its sunrise or sunset has been
\* executed, where the whole window of every target lies within its day.
THEOREM NoDayWithoutSunset ==
  ASSUME Sun!TargetsWithinDay, Sun!WindowCoversPeriod
  PROVE  SpecEither => NoDayMissed
BY EachRuns, NoSunsetMissed, PTL DEF NoDayMissed
=============================================================================
