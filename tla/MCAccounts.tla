------------------------------- MODULE MCAccounts -------------------------------
(***************************************************************************)
(* Instances of Accounts and of Sessions for TLC.  Sessions is about the   *)
(* tokens of one user, who is there; no operation of Accounts reads them.  *)
(* A behaviour is one of the module that "at" names; the other stays in    *)
(* its first state.                                                        *)
(***************************************************************************)
EXTENDS Accounts, TLC

CONSTANTS SessionSlot, MaxSessions, MaxClock, SerialRevokes   \* the constants of Sessions

VARIABLES at, user, clock, sessions, sessionRequest, fresh

SE == INSTANCE Sessions WITH Slot <- SessionSlot, request <- sessionRequest

ASSUME SessionsAssumption == SE!ConstantsHold

sessionVars == <<user, clock, sessions, sessionRequest, fresh>>

InitEither == Init /\ SE!Init /\ at \in {"accounts", "sessions"}

NextEither ==
  /\ UNCHANGED at
  /\ \/ at = "accounts" /\ Next /\ UNCHANGED sessionVars
     \/ at = "sessions" /\ SE!Next /\ UNCHANGED vars

SpecEither == InitEither /\ [][NextEither]_<<at, vars, sessionVars>>

\* Names, slots and the ordinary roles are interchangeable.
Symmetry == Permutations(User) \cup Permutations(Slot) \cup Permutations(SessionSlot)
              \cup Permutations(Role \ SystemRole)

-----------------------------------------------------------------------------
(* The property of Sessions; those of Accounts have their names from there. *)

\* After a logout or a password change no token is accepted until the next login.
OutUntilLogin == SE!OutUntilLogin
=============================================================================
