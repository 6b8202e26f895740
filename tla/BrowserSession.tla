------------------------------ MODULE BrowserSession ------------------------------
(***************************************************************************)
(* One user's browser: several tabs that share the tokens in localStorage, *)
(* each with calls in flight, and the sessions the tokens stand for.       *)
(*                                                                         *)
(* request() sends the stored access token.  When the server does not take *)
(* it, the first call of the tab to hear so refreshes the tokens and is    *)
(* sent once more; a call that hears so meanwhile fails.  When there is no *)
(* refresh, the tokens are dropped and the tab loads the login page.  A    *)
(* tab looks at the stored tokens only when it sends a call or is loaded:  *)
(* what it shows follows what became of its own calls.                     *)
(*                                                                         *)
(* A session stands for its two tokens.  What the login page asks for      *)
(* before it has tokens is in SignIn; what the server does when logins, *)
(* refreshes and logouts overlap there is in Sessions.                     *)
(***************************************************************************)
EXTENDS Naturals, FiniteSets

CONSTANTS
  Tab,
  MaxCalls,    \* bound: calls in flight at once, in one tab or in several
  MaxFaults,   \* bound: calls lost, and sessions ended elsewhere or by time
  OneHand      \* assumed of the user: he waits for the end of a login or a logout
               \* before he begins another, in any tab

ASSUME ConstantsAssumption ==
  /\ MaxCalls \in Nat \ {0}
  /\ MaxFaults \in Nat
  /\ OneHand \in BOOLEAN

VARIABLES
  server, \* what the tokens of each session are worth
  stored, \* the session whose tokens are in localStorage, or None
  ui,     \* what a tab shows: see Shown
  flag,   \* isRefreshing of each tab
  call,   \* the calls in flight
  faults, \* how many of these there were
  cause,  \* history: "some" once a refresh may come to nothing
  left    \* history: "out" from a logout that succeeded to the next login

vars == <<server, stored, ui, flag, call, faults, cause, left>>

None == 0
Call == 1 .. MaxCalls

\* Sessions some token of which is stored or in flight, and one more.
Session == 1 .. MaxCalls + 1

\* "good"; "stale", when only the refresh token is still accepted; "dead".
Worth == {"unissued", "good", "stale", "dead"}

\* The login page; the application before and after fetchUser().
Shown == {"login", "nobody", "user"}

Kind == {"data", "me", "login", "logout"}

\* A call on its way with a token; answered; a refresh on its way, and answered.
Phase == {"sent", "ok", "denied", "failed", "asking", "renewed", "refused"}
Idle == [phase |-> "idle"]
Busy == [tab : Tab, kind : Kind, phase : Phase, token : Session \cup {None}, turn : {"first", "retry"}]
IsBusy(c) == call[c] # Idle
CallsOf(t) == {c \in Call : IsBusy(c) /\ call[c].tab = t}
Refreshing(c) == call[c].phase \in {"asking", "renewed", "refused"}

Earliest(S) == CHOOSE s \in S : \A r \in S : s <= r
StoredIsDead == stored # None /\ server[stored] = "dead"

Sent(t, kind, token, turn) ==
  [tab |-> t, kind |-> kind, phase |-> "sent", token |-> token, turn |-> turn]

\* The sessions whose tokens are stored or with a call.  Others are forgotten: nobody
\* can use them.  Worths comes after the assignments of stored and call.
HeldBy(st, cl) == {st} \cup {cl[c].token : c \in {b \in Call : cl[b] # Idle}}
Worths(w) ==
  server' = [s \in Session |-> IF s \in HeldBy(stored', call') THEN w[s] ELSE "unissued"]

End(c) == call' = [call EXCEPT ![c] = Idle]
Show(t, what) == ui' = [ui EXCEPT ![t] = what]

Init ==
  /\ server = [s \in Session |-> "unissued"]
  /\ stored = None
  /\ ui = [t \in Tab |-> "login"]
  /\ flag = [t \in Tab |-> "free"]
  /\ call = [c \in Call |-> Idle]
  /\ faults = 0
  /\ cause = "none"
  /\ left = "in"

----------------------------------------------------------------------------
(* Calls a tab begins.                                                     *)

\* A call takes the lowest number that is free.
Begin(c, t, kind) ==
  /\ c \in Call /\ ~IsBusy(c) /\ \A b \in 1 .. c - 1 : IsBusy(b)
  /\ call' = [call EXCEPT ![c] = Sent(t, kind, stored, "first")]
  /\ UNCHANGED <<server, stored, flag, faults>>

HandIsFree == OneHand => \A c \in Call : IsBusy(c) => call[c].kind \notin {"login", "logout"}

\* Anything a page asks for, or the user orders.
Ask(c, t) ==
  /\ ui[t] \in {"nobody", "user"}
  /\ Begin(c, t, "data")
  /\ UNCHANGED <<ui, cause, left>>

\* The effect of ProtectedRoute, on every page the user goes to.
FetchUser(c, t) ==
  /\ ui[t] = "nobody"
  /\ Begin(c, t, "me")
  /\ UNCHANGED <<ui, cause, left>>

LogOut(c, t) ==
  /\ ui[t] \in {"nobody", "user"}
  /\ HandIsFree
  /\ Begin(c, t, "logout")
  /\ cause' = "some"
  /\ UNCHANGED <<ui, left>>

\* The last call of a login, whichever the factors.
LogIn(c, t) ==
  /\ ui[t] = "login"
  /\ HandIsFree
  /\ Begin(c, t, "login")
  /\ left' = "in"
  /\ UNCHANGED <<ui, cause>>

----------------------------------------------------------------------------
(* The server.                                                             *)

client == <<stored, ui, flag, left>>
history == <<faults, cause>>

\* The answer of a call that changes nothing here is taken at once.
Answered(c, phase) ==
  call' = [call EXCEPT ![c] = IF @.kind = "data" /\ phase # "denied" THEN Idle
                              ELSE [@ EXCEPT !.phase = phase, !.token = None, !.turn = "first"]]
Refusal(c) == call' = [call EXCEPT ![c].phase = "refused", ![c].token = None]

\* Mutant: a logout ends no more than the session it came with.
EndedAlone(c) == [server EXCEPT ![call[c].token] = "dead"]

\* revoke_user_sessions().
Ended(c) == [s \in Session |-> "dead"]

\* get_current_user() takes a good access token; without one the answer is not
\* about a token.  A retry that is denied has failed.
Serve(c) ==
  /\ call[c].phase = "sent"
  /\ call[c].kind # "login"
  /\ UNCHANGED <<client, history>>
  /\ LET worth == IF call[c].token = None THEN "none" ELSE server[call[c].token]
     IN \/ /\ worth = "good"
           /\ Answered(c, "ok")
           /\ Worths(IF call[c].kind = "logout" THEN Ended(c) ELSE server)
        \/ /\ worth \in {"stale", "dead"}
           /\ Answered(c, IF call[c].turn = "first" THEN "denied" ELSE "failed")
           /\ Worths(server)
        \/ /\ worth = "none"
           /\ Answered(c, "failed")
           /\ Worths(server)

Fresh(c) == Earliest(Session \ HeldBy(stored, [call EXCEPT ![c] = Idle]))

\* Mutant: the row of the session is not written.
IssueUnwritten(c, phase, w) ==
  /\ call' = [call EXCEPT ![c].phase = phase, ![c].token = Fresh(c)]
  /\ Worths(w)

\* create_session().
Issue(c, phase, w) ==
  /\ call' = [call EXCEPT ![c].phase = phase, ![c].token = Fresh(c)]
  /\ Worths([w EXCEPT ![Fresh(c)] = "good"])

\* login() and its kin: new tokens, or wrong credentials.
ServeLogin(c) ==
  /\ call[c].phase = "sent"
  /\ call[c].kind = "login"
  /\ UNCHANGED <<client, history>>
  /\ \/ Issue(c, "ok", server)
     \/ Answered(c, "failed") /\ Worths(server)

\* Mutant: a refresh token serves once.
Rotated(c) == [server EXCEPT ![call[c].token] = "dead"]

\* The old session stays as it is beside the new one.
Kept(c) == server

\* refresh().
ServeRefresh(c) ==
  /\ call[c].phase = "asking"
  /\ UNCHANGED <<client, history>>
  /\ IF server[call[c].token] # "dead"
     THEN Issue(c, "renewed", Kept(c))
     ELSE Refusal(c) /\ Worths(server)

Fault == faults < MaxFaults /\ faults' = faults + 1 /\ cause' = "some"

\* Mutant: a lost refresh is an error of the call, for want of a catch.
LoseUncaught(c) ==
  /\ IsBusy(c) /\ call[c].phase \notin {"failed", "refused"}
  /\ Fault
  /\ UNCHANGED client
  /\ Answered(c, "failed")
  /\ Worths(server)

\* A call is lost on its way, or its answer on the way back.
Lose(c) ==
  /\ IsBusy(c) /\ call[c].phase \notin {"failed", "refused"}
  /\ Fault
  /\ UNCHANGED client
  /\ IF Refreshing(c) THEN Refusal(c) ELSE Answered(c, "failed")
  /\ Worths(server)

\* An access token expires; a refresh token expires.
Expire(s) ==
  /\ server[s] = "good"
  /\ server' = [server EXCEPT ![s] = "stale"]
  /\ UNCHANGED <<client, call, history>>
Lapse(s) ==
  /\ server[s] = "stale"
  /\ Fault
  /\ server' = [server EXCEPT ![s] = "dead"]
  /\ UNCHANGED <<client, call>>

\* The password is changed, or the user logs out, elsewhere.
RevokeElsewhere ==
  /\ Fault
  /\ UNCHANGED <<client, call>>
  /\ Worths([s \in Session |-> "dead"])

----------------------------------------------------------------------------
(* What comes of a call.                                                   *)

\* Mutant: an error of fetchUser() changes nothing.
ThrowQuietly(c) ==
  LET t == call[c].tab
  IN  /\ End(c)
      /\ IF call[c].kind = "logout"
         THEN Show(t, "login") /\ stored' = None
         ELSE UNCHANGED <<ui, stored>>
      /\ UNCHANGED <<history, flag, left>>
      /\ Worths(server)

\* The caller gets an error.  fetchUser() takes any for a refusal; logout()
\* takes none for one.
Throw(c) ==
  LET t == call[c].tab
  IN  /\ End(c)
      /\ CASE call[c].kind = "me" -> Show(t, "login") /\ UNCHANGED stored
           [] call[c].kind = "logout" -> Show(t, "login") /\ stored' = None
           [] OTHER -> UNCHANGED <<ui, stored>>
      /\ UNCHANGED <<history, flag, left>>
      /\ Worths(server)

Fail(c) == call[c].phase = "failed" /\ Throw(c)

Succeed(c) ==
  LET t == call[c].tab
  IN  /\ call[c].phase = "ok"
      /\ \/ call[c].kind = "me" /\ End(c) /\ Show(t, "user") /\ UNCHANGED <<stored, left>>
         \/ /\ call[c].kind = "logout"
            /\ End(c)
            /\ stored' = None
            /\ Show(t, "login")
            /\ left' = "out"
         \/ /\ call[c].kind = "login"  \* and then fetchUser()
            /\ stored' = call[c].token
            /\ Show(t, IF ui[t] = "login" THEN "nobody" ELSE ui[t])
            /\ call' = [call EXCEPT ![c] = Sent(t, "me", stored', "first")]
            /\ UNCHANGED left
      /\ UNCHANGED <<history, flag>>
      /\ Worths(server)

\* Another page is loaded: calls and flag are gone.
Unload(t) ==
  /\ flag' = [flag EXCEPT ![t] = "free"]
  /\ call' = [c \in Call |-> IF c \in CallsOf(t) THEN Idle ELSE call[c]]

Oust(t) ==
  /\ stored' = None
  /\ Unload(t)
  /\ Show(t, "login")
  /\ UNCHANGED <<history, left>>
  /\ Worths(server)

\* Mutant: every call that is denied refreshes the tokens.
DeniedAny(c) ==
  /\ call[c].phase = "denied"
  /\ IF stored = None
     THEN Oust(call[c].tab)
     ELSE /\ flag' = [flag EXCEPT ![call[c].tab] = "taken"]
          /\ call' = [call EXCEPT ![c].phase = "asking", ![c].token = stored]
          /\ UNCHANGED <<server, history, stored, ui, left>>

\* A 401 that is about the token.  Without a refresh token there is no call.
Denied(c) ==
  /\ call[c].phase = "denied"
  /\ IF flag[call[c].tab] = "taken"
     THEN Throw(c)
     ELSE IF stored = None
          THEN Oust(call[c].tab)
          ELSE /\ flag' = [flag EXCEPT ![call[c].tab] = "taken"]
               /\ call' = [call EXCEPT ![c].phase = "asking", ![c].token = stored]
               /\ UNCHANGED <<server, history, stored, ui, left>>

Renewed(c) ==
  /\ call[c].phase = "renewed"
  /\ stored' = call[c].token
  /\ flag' = [flag EXCEPT ![call[c].tab] = "free"]
  /\ call' = [call EXCEPT ![c] = Sent(@.tab, @.kind, stored', "retry")]
  /\ UNCHANGED <<history, ui, left>>
  /\ Worths(server)

Refused(c) == call[c].phase = "refused" /\ Oust(call[c].tab)

\* The user loads a page again that has come up.  The store takes the stored tokens for a login, and
\* the page asks for its user.
Reload(t) ==
  /\ ui[t] # "nobody"
  /\ IF stored = None
     THEN Unload(t) /\ Show(t, "login")
     ELSE /\ flag' = [flag EXCEPT ![t] = "free"]
          /\ Show(t, "nobody")
          /\ LET rest == {c \in Call : IsBusy(c) /\ c \notin CallsOf(t)}
             IN  /\ rest # Call
                 /\ call' = [c \in Call |->
                       IF c \in rest THEN call[c]
                       ELSE IF c = Earliest(Call \ rest) THEN Sent(t, "me", stored, "first") ELSE Idle]
  /\ UNCHANGED <<history, stored, left>>
  /\ Worths(server)

Resume(c) == Fail(c) \/ Succeed(c) \/ Denied(c) \/ Renewed(c) \/ Refused(c)

Next ==
  \/ \E c \in Call :
       \/ \E t \in Tab : Ask(c, t) \/ FetchUser(c, t) \/ LogOut(c, t) \/ LogIn(c, t)
       \/ Serve(c) \/ ServeLogin(c) \/ ServeRefresh(c) \/ Lose(c)
       \/ Resume(c)
  \/ \E t \in Tab : Reload(t)
  \/ \E s \in Session : Expire(s) \/ Lapse(s)
  \/ RevokeElsewhere

\* A call is answered or fails; the browser goes on with what it has.
Fairness ==
  \A c \in Call :
    /\ WF_vars(Serve(c)) /\ WF_vars(ServeLogin(c)) /\ WF_vars(ServeRefresh(c))
    /\ WF_vars(Resume(c))

Spec == Init /\ [][Next]_vars /\ Fairness

----------------------------------------------------------------------------
(* Properties.                                                             *)

\* Every variable holds a value of its kind.
TypeOK ==
  /\ server \in [Session -> Worth]
  /\ stored = None \/ server[stored] \in {"good", "stale", "dead"}
  /\ ui \in [Tab -> Shown]
  /\ flag \in [Tab -> {"free", "taken"}]
  /\ \A c \in Call : IsBusy(c) => call[c] \in Busy
  /\ faults \in 0 .. MaxFaults
  /\ cause \in {"none", "some"}
  /\ left \in {"in", "out"}

\* client.ts, isRefreshing: it is set exactly while one call of the tab refreshes the
\* tokens, and there are never two of them.
FlagIsTrue ==
  \A t \in Tab :
    Cardinality({c \in CallsOf(t) : Refreshing(c)}) = IF flag[t] = "taken" THEN 1 ELSE 0

\* stores/auth.ts, App.tsx: a page that is shown without its user has asked for him and
\* will hear, whatever happens to the tokens meanwhile; it is never stuck without him.
UserIsAskedFor ==
  \A t \in Tab : ui[t] = "nobody" => \E c \in CallsOf(t) : call[c].kind = "me"

\* client.ts, tryRefresh(): tokens that a late answer stores after a logout that
\* succeeded, in whichever tab, are not accepted any more; nobody is signed in again.
SignedOutStaysOut == left = "out" => stored = None \/ StoredIsDead

\* client.ts: several tabs and calls refresh the same tokens, at the same time or one
\* with tokens that another has replaced.  None of this makes a tab drop the tokens: the
\* session was ended or has expired, or a call was lost.
DroppedForCause == [][stored # None /\ stored' = None => cause = "some"]_vars

\* client.ts: a tab is not for ever refused with tokens that are dead; in the end it is
\* sent to the login page.
DeadSessionIsNoticed ==
  \A t \in Tab :
    []<>(\E c \in CallsOf(t) : call[c].phase = "denied")
      => []<>(ui[t] = "login" \/ ~StoredIsDead)
==================================================================================
