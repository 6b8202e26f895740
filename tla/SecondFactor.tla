---------------------------- MODULE SecondFactor ----------------------------
(***************************************************************************)
(* Turning the TOTP second factor of one user on and off: the dialog and   *)
(* the button of the settings page in several tabs, and the requests they  *)
(* make.  What the server keeps is a flag on the user and a row with the   *)
(* secret; a request reads the user when it arrives and writes the columns *)
(* it has changed when it commits.                                         *)
(*                                                                         *)
(* The codes typed are those of the secret on the page; a wrong one fails. *)
(***************************************************************************)
EXTENDS Naturals

CONSTANTS Tab,
          None,         \* no secret
          MaxSecrets,   \* bound on the secrets generated
          Crossing      \* whether requests to enable and to disable may overlap

Secret == 1..MaxSecrets

VARIABLES flag,       \* users.totp_enabled
          row,        \* totp_secrets: the secret of the user's row
          last,       \* the last secret generated
          tab,        \* of each tab: what its store says, the dialog and its secret
          generate,   \* tabs whose request for a secret is outstanding
          request     \* of each tab: its request to enable or disable

vars == <<flag, row, last, tab, generate, request>>

Idle == [op |-> "none", at |-> "idle", secret |-> None, loaded |-> FALSE]

\* "sent" is on its way, "read" has the user, "found" has the row to delete too.
Request == [op : {"none", "enable", "disable"}, at : {"idle", "sent", "read", "found", "done", "failed"},
            secret : Secret \cup {None}, loaded : BOOLEAN]

TypeOK ==
    /\ flag \in BOOLEAN
    /\ row \in Secret \cup {None}
    /\ last \in 0..MaxSecrets
    /\ tab \in [Tab -> [knows : BOOLEAN, open : BOOLEAN, secret : Secret \cup {None}]]
    /\ generate \in [Tab -> Secret \cup {0, None}]
    /\ request \in [Tab -> Request]

Init ==
    /\ flag = FALSE /\ row = None /\ last = 0
    /\ tab = [t \in Tab |-> [knows |-> FALSE, open |-> FALSE, secret |-> None]]
    /\ generate = [t \in Tab |-> None]
    /\ request = [t \in Tab |-> Idle]

-----------------------------------------------------------------------------
(* The dialog; it shows a secret exactly in its second step. *)

Open(t) ==
    /\ ~tab[t].knows /\ ~tab[t].open
    /\ tab' = [tab EXCEPT ![t].open = TRUE]
    /\ UNCHANGED <<flag, row, last, generate, request>>

\* Closing forgets the secret.
Close(t) ==
    /\ tab[t].open
    /\ tab' = [tab EXCEPT ![t].open = FALSE, ![t].secret = None]
    /\ UNCHANGED <<flag, row, last, generate, request>>

StartOver(t) ==
    /\ tab[t].open /\ tab[t].secret # None
    /\ tab' = [tab EXCEPT ![t].secret = None]
    /\ UNCHANGED <<flag, row, last, generate, request>>

\* The server refuses to generate a secret for a user whose flag is set.
Generate(t) ==
    /\ tab[t].open /\ tab[t].secret = None /\ generate[t] = None
    /\ last < MaxSecrets
    /\ LET made == IF flag THEN 0 ELSE last + 1
       IN  generate' = [generate EXCEPT ![t] = made] /\ last' = IF flag THEN last ELSE made
    /\ UNCHANGED <<flag, row, tab, request>>

\* The answer moves the dialog to its second step although it may have been closed.
Generated(t) ==
    /\ generate[t] # None
    /\ generate' = [generate EXCEPT ![t] = None]
    /\ tab' = IF generate[t] = 0 THEN tab ELSE [tab EXCEPT ![t].secret = generate[t]]
    /\ UNCHANGED <<flag, row, last, request>>

-----------------------------------------------------------------------------
(* The requests.  The dialog first asks a debug endpoint about the same      *)
(* code and secret, which changes nothing.                                   *)

Send(t, op, secret) ==
    /\ request[t] = Idle
    /\ request' = [request EXCEPT ![t] = [Idle EXCEPT !.op = op, !.at = "sent", !.secret = secret]]
    /\ UNCHANGED <<flag, row, last, tab, generate>>

Enable(t) == tab[t].open /\ tab[t].secret # None /\ Send(t, "enable", tab[t].secret)

Disable(t) == tab[t].knows /\ ~tab[t].open /\ Send(t, "disable", None)

\* The request reads the user, whose flag it keeps.
Arrive(t) ==
    /\ request[t].at = "sent"
    /\ Crossing \/ \A o \in Tab : request[o].at \in {"read", "found"} => request[o].op = request[t].op
    /\ request' = [request EXCEPT ![t].at = "read", ![t].loaded = flag]
    /\ UNCHANGED <<flag, row, last, tab, generate>>

\* A column is written when its value is not the one that was read.
Written(t, value) == IF request[t].loaded = value THEN flag ELSE value

\* The one row of a user: a second one is refused and nothing is committed.
CommitEnable(t) ==
    /\ request[t].op = "enable" /\ request[t].at = "read"
    /\ IF row = None
       THEN /\ row' = request[t].secret /\ flag' = Written(t, TRUE)
            /\ request' = [request EXCEPT ![t].at = "done"]
       ELSE /\ request' = [request EXCEPT ![t].at = "failed"]
            /\ UNCHANGED <<flag, row>>
    /\ UNCHANGED <<last, tab, generate>>

FindRow(t) ==
    /\ request[t].op = "disable" /\ request[t].at = "read"
    /\ request' = [request EXCEPT ![t].at = "found", ![t].secret = row]
    /\ UNCHANGED <<flag, row, last, tab, generate>>

\* Mutant: the row stays.
RemoveNothing(t) == row' = row

\* The row that was found is deleted, were it another one by now it would stay.
Remove(t) == row' = IF row = request[t].secret THEN None ELSE row

CommitDisable(t) ==
    /\ request[t].at = "found"
    /\ Remove(t)
    /\ flag' = Written(t, FALSE)
    /\ request' = [request EXCEPT ![t].at = "done"]
    /\ UNCHANGED <<last, tab, generate>>

\* A page loaded anew: what its store says is what the server says.
Fresh == [knows |-> flag, open |-> FALSE, secret |-> None]

\* Enabling closes the dialog and invalidates a query nobody has; disabling loads the page anew.
Answer(t) ==
    /\ request[t].at \in {"done", "failed"}
    /\ request' = [request EXCEPT ![t] = Idle]
    /\ IF request[t].at = "done" /\ request[t].op = "disable"
       THEN /\ tab' = [tab EXCEPT ![t] = Fresh]
            /\ generate' = [generate EXCEPT ![t] = None]
       ELSE /\ tab' = IF request[t].at = "done" /\ tab[t].open
                      THEN [tab EXCEPT ![t].open = FALSE, ![t].secret = None] ELSE tab
            /\ UNCHANGED generate
    /\ UNCHANGED <<flag, row, last>>

Reload(t) ==
    /\ request[t] = Idle /\ tab[t].knows # flag
    /\ tab' = [tab EXCEPT ![t] = Fresh]
    /\ generate' = [generate EXCEPT ![t] = None]
    /\ UNCHANGED <<flag, row, last, request>>

Next == \E t \in Tab :
    \/ Open(t) \/ Close(t) \/ StartOver(t) \/ Generate(t) \/ Generated(t) \/ Reload(t)
    \/ Enable(t) \/ Disable(t) \/ Arrive(t) \/ CommitEnable(t) \/ FindRow(t)
    \/ CommitDisable(t) \/ Answer(t)

Spec == Init /\ [][Next]_vars

-----------------------------------------------------------------------------
(* A user whose flag is set has a secret to be asked about, or no sign-in   *)
(* with a code would ever succeed; and a secret nobody is asked about would *)
(* make enabling fail for ever.  It takes requests to enable and to disable *)
(* that do not overlap at the server; those of one kind may.                *)
FlagHasSecret == flag <=> row # None
=============================================================================
