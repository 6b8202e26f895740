------------------------------- MODULE MCPasskeys -------------------------------
(***************************************************************************)
(* Instances of Passkeys and of PasskeysSection for TLC.  A behaviour is   *)
(* one of the server under requests that overlap there, or one of the page *)
(* with a server that takes a call in one step; "at" says which.  The      *)
(* variables of the page are Null while the server is looked at.           *)
(***************************************************************************)
EXTENDS Passkeys, FiniteSets, TLC

CONSTANTS Label,   \* names of passkeys
          Null

VARIABLES at,
          kept, made, query, dialog, call, missed

Page == INSTANCE PasskeysSection WITH Name <- Label, None <- Null

\* A database has finitely many passkeys, and Null is no list of them.
ASSUME PageAssumption == IsFiniteSet(Key) /\ Null \notin Page!Kept

pageVars == <<kept, made, query, dialog, call, missed>>

NoPage == /\ kept = Null /\ made = Null /\ query = Null /\ dialog = Null
          /\ call = Null /\ missed = Null

InitEither ==
    /\ Init
    /\ \/ at = "server" /\ NoPage
       \/ at = "page" /\ Page!Init

NextEither ==
    /\ UNCHANGED at
    /\ \/ at = "server" /\ Next /\ UNCHANGED pageVars
       \/ at = "page" /\ Page!Next /\ UNCHANGED vars

SpecEither == InitEither /\ [][NextEither]_<<at, vars, pageVars>>

\* Credentials, challenges and slots are interchangeable.
Symmetry == Permutations(Slot) \cup Permutations(Key) \cup Permutations(Challenge)

-----------------------------------------------------------------------------
(* The property of PasskeysSection, where the page is looked at. *)

\* The variables of the page have their types; the list at rest is what is kept, and the last
\* passkey is said to be the last (PasskeysSection).
ShownAsKept == at = "page" => Page!TypeOK /\ Page!ShownAsKept
=============================================================================
