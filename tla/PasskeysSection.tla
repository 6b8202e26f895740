---------------------------- MODULE PasskeysSection ----------------------------
(***************************************************************************)
(* The passkeys of the settings page: the list, its three dialogs, and the *)
(* calls that add, rename and revoke a passkey, one of a kind at a time.   *)
(* What a dialog has sent goes on when the dialog is closed, and another   *)
(* may be open when the answer comes.                                      *)
(*                                                                         *)
(* The server takes a call in one step here; Passkeys has the ceremony.    *)
(* The authenticators are of one model.  Nobody else changes the passkeys, *)
(* and the page is not left.                                               *)
(***************************************************************************)
EXTENDS FiniteSets

CONSTANTS Key,      \* ids of passkeys, used once each
          Name,
          None      \* no passkey, no list

VARIABLES kept,     \* the passkeys that are not revoked
          made,     \* ids that have been used
          query,    \* the list shown, and the fetch under way
          dialog,   \* the dialog that is open, and the row it was opened at
          call,     \* of each kind, the call in flight
          missed    \* a change or a list was answered and the answer was lost

vars == <<kept, made, query, dialog, call, missed>>

Kind == {"add", "rename", "revoke"}

\* A passkey that needs no more than a touch is for the second factor only.
Passkey == [name : Name, touch : BOOLEAN]
Kept == UNION {[K -> Passkey] : K \in SUBSET Key}

Idle == [at |-> "idle"]
Asked == [at |-> "asked"]
NoDialog == [kind |-> "none", key |-> None]

\* The passkeys with a row: none until a list has come.
Listed == IF query.shown = None THEN {} ELSE DOMAIN query.shown

TypeOK ==
    /\ kept \in Kept /\ made \subseteq Key /\ DOMAIN kept \subseteq made
    /\ query.shown \in Kept \cup {None}
    /\ query.fetch \in {Idle, Asked} \cup [at : {"answered"}, list : Kept]
    /\ dialog \in [kind : {"none"} \cup Kind, key : Key \cup {None}]
    /\ \A k \in Kind : call[k].at \in {"idle", "sent", "done", "refused"}
    /\ missed \in BOOLEAN

Init ==
    /\ kept \in Kept /\ made = DOMAIN kept
    /\ query = [shown |-> None, fetch |-> Asked]
    /\ dialog = NoDialog
    /\ call = [k \in Kind |-> Idle]
    /\ missed = FALSE

-----------------------------------------------------------------------------
(* The dialogs; each covers the page. *)

Open(kind, key) ==
    /\ dialog = NoDialog
    /\ dialog' = [kind |-> kind, key |-> key]
    /\ UNCHANGED <<kept, made, query, call, missed>>

OpenAdd == Open("add", None)
OpenRename == \E k \in Listed : Open("rename", k)
OpenRevoke == \E k \in Listed : Open("revoke", k)

Close ==
    /\ dialog # NoDialog
    /\ dialog' = NoDialog
    /\ UNCHANGED <<kept, made, query, call, missed>>

\* The button of a dialog is disabled while a call of its kind is pending.
Send(kind, asked) ==
    /\ dialog.kind = kind /\ call[kind] = Idle
    /\ call' = [call EXCEPT ![kind] = asked]
    /\ UNCHANGED <<kept, made, query, dialog, missed>>

Enroll == \E n \in Name : Send("add", [at |-> "sent", name |-> n])
Rename == \E n \in Name : Send("rename", [at |-> "sent", key |-> dialog.key, name |-> n])
Revoke == Send("revoke", [at |-> "sent", key |-> dialog.key])

-----------------------------------------------------------------------------
(* The server. *)

Without(K) == [k \in DOMAIN kept \ K |-> kept[k]]

Done(kind) == call' = [call EXCEPT ![kind] = [at |-> "done"]]

\* A passkey that verifies the user takes the place of those that only ask for a touch.
Registered(verifies, touch) ==
    /\ call["add"].at = "sent"
    /\ ~(verifies /\ touch)
    /\ \E k \in Key \ made :
         LET rest == IF verifies THEN Without({o \in DOMAIN kept : kept[o].touch}) ELSE kept
         IN  /\ kept' = [o \in DOMAIN rest \cup {k} |->
                            IF o = k THEN [name |-> call["add"].name, touch |-> touch] ELSE rest[o]]
             /\ made' = made \cup {k}
    /\ Done("add")
    /\ UNCHANGED <<query, dialog, missed>>

Renamed ==
    /\ call["rename"].at = "sent" /\ call["rename"].key \in DOMAIN kept
    /\ kept' = [kept EXCEPT ![call["rename"].key].name = call["rename"].name]
    /\ Done("rename")
    /\ UNCHANGED <<made, query, dialog, missed>>

Revoked ==
    /\ call["revoke"].at = "sent" /\ call["revoke"].key \in DOMAIN kept
    /\ kept' = Without({call["revoke"].key})
    /\ Done("revoke")
    /\ UNCHANGED <<made, query, dialog, missed>>

\* The ceremony was cancelled or has failed; or the passkey is revoked by now.
Refused(kind) ==
    /\ call[kind].at = "sent"
    /\ kind # "add" => call[kind].key \notin DOMAIN kept
    /\ call' = [call EXCEPT ![kind] = [at |-> "refused"]]
    /\ UNCHANGED <<kept, made, query, dialog, missed>>

-----------------------------------------------------------------------------
(* The answers. *)

\* Mutant: a list that is on its way is thought to be recent enough.
RefetchedUnlessFetching == IF query.fetch = Idle THEN [query EXCEPT !.fetch = Asked] ELSE query

\* A list that is on its way is not waited for.
Refetched == [query EXCEPT !.fetch = Asked]

\* onSuccess closes the dialog of the kind, whatever row it was opened at.
Succeed(kind) ==
    /\ call[kind].at = "done"
    /\ call' = [call EXCEPT ![kind] = Idle]
    /\ dialog' = IF dialog.kind = kind THEN NoDialog ELSE dialog
    /\ query' = Refetched
    /\ UNCHANGED <<kept, made, missed>>

\* onError says so and leaves the list; what was lost may have been done.
Fail(kind) ==
    /\ call[kind] # Idle
    /\ call' = [call EXCEPT ![kind] = Idle]
    /\ missed' = (missed \/ call[kind].at = "done")
    /\ UNCHANGED <<kept, made, query, dialog>>

ServeFetch ==
    /\ query.fetch = Asked
    /\ query' = [query EXCEPT !.fetch = [at |-> "answered", list |-> kept]]
    /\ missed' = FALSE
    /\ UNCHANGED <<kept, made, dialog, call>>

Deliver ==
    /\ query.fetch.at = "answered"
    /\ query' = [shown |-> query.fetch.list, fetch |-> Idle]
    /\ UNCHANGED <<kept, made, dialog, call, missed>>

\* Tried twice, and not again until the next change; the list that was shown stays.
LoseFetch ==
    /\ query.fetch # Idle
    /\ query' = [query EXCEPT !.fetch = Idle]
    /\ missed' = TRUE
    /\ UNCHANGED <<kept, made, dialog, call>>

Next ==
    \/ OpenAdd \/ OpenRename \/ OpenRevoke \/ Close
    \/ Enroll \/ Rename \/ Revoke
    \/ \E verifies, touch \in BOOLEAN : Registered(verifies, touch)
    \/ Renamed \/ Revoked
    \/ \E kind \in Kind : Refused(kind) \/ Succeed(kind) \/ Fail(kind)
    \/ ServeFetch \/ Deliver \/ LoseFetch

Spec == Init /\ [][Next]_vars

-----------------------------------------------------------------------------
Quiet == (\A k \in Kind : call[k] = Idle) /\ query.fetch = Idle /\ ~missed

\* What the dialog that asks whether to revoke says: that this is the last passkey.
SaysLast == Cardinality(Listed) = 1

\* Once nothing is under way and nothing was missed, the list is what the server
\* keeps; and who is asked whether to revoke a passkey he has is told it is the
\* last one exactly when it is, although passkeys may have been added, renamed
\* and revoked since the dialog was opened.
ShownAsKept ==
    Quiet =>
      /\ query.shown = kept
      /\ dialog.kind = "revoke" /\ dialog.key \in DOMAIN kept =>
            (SaysLast <=> DOMAIN kept = {dialog.key})
=============================================================================
