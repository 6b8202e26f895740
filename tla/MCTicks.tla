--------------------------------- MODULE MCTicks ---------------------------------
(***************************************************************************)
(* Instances of CronTick and of SunTick for TLC.  Celery beat has a timer  *)
(* for each of the two tasks, and they have no state in common.  A         *)
(* behaviour is one of the task that "at" names; the other stays in its    *)
(* first state.  A step of the cron task is a second, one of the sun task  *)
(* thirty.                                                                 *)
(***************************************************************************)
EXTENDS CronTick

CONSTANTS Day, SunPeriod, SunWindow, SunDelay, Targets   \* the constants of SunTick

VARIABLES at, now, target, sunRuns, sunTick, sunJob

Sun == INSTANCE SunTick WITH Period <- SunPeriod, Window <- SunWindow, Delay <- SunDelay,
                             runs <- sunRuns, tick <- sunTick, job <- sunJob

ASSUME SunAssumption == Sun!ConstantsHold

sunVars == <<now, target, sunRuns, sunTick, sunJob>>

InitEither ==
  /\ Init /\ Sun!Init
  /\ \/ at = "cron" /\ target = (CHOOSE t \in Targets : TRUE) /\ sunTick = 0
     \/ at = "sun" /\ age = MinGap /\ tick = 0

NextEither ==
  /\ UNCHANGED at
  /\ \/ at = "cron" /\ Next /\ UNCHANGED sunVars
     \/ at = "sun" /\ Sun!Next /\ UNCHANGED vars

SpecEither == InitEither /\ [][NextEither]_<<at, vars, sunVars>>

-----------------------------------------------------------------------------
(* The properties of SunTick; those of CronTick have their names from there. *)

\* No day passes without its sunrise or sunset.
NoDayMissed == Sun!NoDayMissed

\* No sunrise or sunset is executed more than twice.
SunAtMostTwice == Sun!AtMostTwice
=============================================================================
