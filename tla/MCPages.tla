------------------------------ MODULE MCPages ------------------------------
(***************************************************************************)
(* Instances for TLC of SignIn, Wizards, SecondFactor and Restore.  A      *)
(* behaviour is a visit to one of the pages: leaving a page unmounts it,   *)
(* and no two of these modules have any state in common.  The variables of *)
(* the pages not visited are Null.                                         *)
(***************************************************************************)
EXTENDS Naturals, Sequences, FiniteSets, TLC

CONSTANTS Null,
          User, MaxCalls,
          QuickAction, MaxTargets, MaxRequests,
          Tab, MaxSecrets, Crossing,
          Rooms, Name, Action, Job, Patient

VARIABLES visit,
          accounts, proved, store, login, call, fetching, listing, opened,
          kind, stored, schedules, form, saving, running, pending, deleting, removing,
          flag, row, last, tab, generate, totp,
          db, section, job

SI == INSTANCE SignIn WITH server <- accounts, page <- login, Nobody <- Null

WZ == INSTANCE Wizards WITH Id <- QuickAction, None <- Null,
                            Offered <- [device |-> {"lamp"}, all |-> {}]

SF == INSTANCE SecondFactor WITH request <- totp, None <- Null

RE == INSTANCE Restore WITH page <- section, None <- Null

\* A list of quick actions is finite, and Null is not the id of a room.
ASSUME PagesAssumption ==
    /\ MaxSecrets \in Nat /\ MaxRequests \in Nat /\ {MaxTargets, MaxCalls} \subseteq Nat \ {0}
    /\ IsFiniteSet(QuickAction)
    /\ Rooms \in Seq(RE!Room) /\ Null \notin RE!Room

TwoRooms == <<"r1", "r2">>

NoSignIn == /\ accounts = Null /\ proved = Null /\ store = Null /\ login = Null
            /\ call = Null /\ fetching = Null /\ listing = Null /\ opened = Null

NoWizard == /\ kind = Null /\ stored = Null /\ schedules = Null /\ form = Null /\ saving = Null
            /\ running = Null /\ pending = Null /\ deleting = Null /\ removing = Null

NoTotp == /\ flag = Null /\ row = Null /\ last = Null /\ tab = Null /\ generate = Null /\ totp = Null

NoRestore == db = Null /\ section = Null /\ job = Null

Init ==
    \/ visit = "sign in" /\ SI!Init /\ NoWizard /\ NoTotp /\ NoRestore
    \/ visit = "wizard" /\ WZ!Init /\ NoSignIn /\ NoTotp /\ NoRestore
    \/ visit = "totp" /\ SF!Init /\ NoSignIn /\ NoWizard /\ NoRestore
    \/ visit = "restore" /\ RE!Init /\ NoSignIn /\ NoWizard /\ NoTotp

signInVars == <<accounts, proved, store, login, call, fetching, listing, opened>>

wizardVars == <<kind, stored, schedules, form, saving, running, pending, deleting, removing>>

totpVars == <<flag, row, last, tab, generate, totp>>

restoreVars == <<db, section, job>>

Next ==
    /\ UNCHANGED visit
    /\ \/ visit = "sign in" /\ SI!Next /\ UNCHANGED <<wizardVars, totpVars, restoreVars>>
       \/ visit = "wizard" /\ WZ!Next /\ UNCHANGED <<signInVars, totpVars, restoreVars>>
       \/ visit = "totp" /\ SF!Next /\ UNCHANGED <<signInVars, wizardVars, restoreVars>>
       \/ visit = "restore" /\ RE!Next /\ UNCHANGED <<signInVars, wizardVars, totpVars>>

Spec == Init /\ [][Next]_<<visit, signInVars, wizardVars, totpVars, restoreVars>>

\* Users, and the ids of quick actions, are interchangeable.
Symmetry == Permutations(User) \cup Permutations(QuickAction)

-----------------------------------------------------------------------------
(* The properties of the four modules, where their page is visited. *)

\* Every variable of the page visited has its type.
TypeOK ==
    /\ visit = "sign in" => SI!TypeOK
    /\ visit = "wizard" => WZ!TypeOK
    /\ visit = "totp" => SF!TypeOK
    /\ visit = "restore" => RE!TypeOK

\* Tokens are stored for a user who has proved all that the account asks for (SignIn).
TokensAreEarned == [][visit = "sign in" => SI!EarnedStep]_signInVars

\* The prompt for a passkey opens at most once in a browser session (SignIn).
PromptOpensOnce == visit = "sign in" => SI!PromptOpensOnce

\* What the dialogs store names its targets and triggers (Wizards).
StoredFormsFit == visit = "wizard" => WZ!StoredFormsFit

\* The card marked as running has an execution outstanding (Wizards).
RunningIsRunning == visit = "wizard" => WZ!RunningIsRunning

\* The TOTP flag of a user is set exactly while there is a secret (SecondFactor).
FlagHasSecret == visit = "totp" => SF!FlagHasSecret

\* A restore that replaces everything has been confirmed (Restore).
ReplaceConfirmed == visit = "restore" => RE!ReplaceConfirmed

\* Only a whole restore changes what is committed, and its targets follow the names (Restore).
RestoredWholly == [][visit = "restore" => RE!RestoredStep]_restoreVars
=============================================================================
