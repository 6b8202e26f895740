---------------------------- MODULE DebouncedCommand ----------------------------
(***************************************************************************)
(* What a panel of controls promises its user: the commands it sends are   *)
(* the user's, each at the time it is sent the latest, none that a later   *)
(* one has replaced; and unless the user changes his mind for ever, the    *)
(* latest wish is sent.  LightPanel implements this with a timer.          *)
(***************************************************************************)
CONSTANTS
  Command,   \* what a user may ask for
  NoCommand  \* nothing yet

VARIABLES
  wish, \* the user's latest wish
  sent  \* the latest command sent

vars == <<wish, sent>>

Init == wish = NoCommand /\ sent = NoCommand

\* Turning a knob: the command may wait.
Edit == wish' \in Command /\ UNCHANGED sent

\* Pressing a button: the command goes out at once, in place of any that waits.
Press == wish' \in Command /\ sent' = wish'

\* The command that waits goes out.
Send == wish # sent /\ sent' = wish /\ UNCHANGED wish

Next == Edit \/ Press \/ Send

Spec == Init /\ [][Next]_vars /\ WF_vars(Send)

\* Spec without its liveness.
Safety == Init /\ [][Next]_vars
=============================================================================
