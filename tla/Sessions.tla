-------------------------------- MODULE Sessions --------------------------------
(***************************************************************************)
(* The sessions of one user: issued by logins and refreshes, revoked       *)
(* together by a logout or a password change, removed with the user.       *)
(*                                                                         *)
(* A handler reads, then inserts or updates and commits; other handlers    *)
(* may commit in between.  create_session() writes one row for the access  *)
(* token and one for the refresh token; every operation treats the two     *)
(* alike, so a session here stands for both.  A refresh token is unique    *)
(* (jti); an access token is not: two of them issued to a user within one  *)
(* second are the same string, and is_token_revoked() then finds several   *)
(* rows and takes one of the youngest by created_at, to the second.        *)
(*                                                                         *)
(* Left out: the second factor of a login, the expiry of the tokens, and  *)
(* the other users, whose rows no operation here touches.                  *)
(***************************************************************************)
EXTENDS Naturals, Sequences

CONSTANTS
  Slot,           \* requests in flight at once
  MaxSessions,    \* bound: sessions ever issued
  MaxClock,       \* bound: seconds that pass
  SerialRevokes   \* assumed of clients: no login or refresh is in flight
                  \* during a logout or a password change

\* Assumed of the constants wherever something is proved of them.
ConstantsHold ==
  /\ MaxSessions \in Nat
  /\ MaxClock \in Nat
  /\ SerialRevokes \in BOOLEAN

VARIABLES
  user,     \* "present" or "deleted"
  clock,    \* the current second
  sessions, \* the rows, in the order of their commits
  request,  \* what each request in flight has read
  fresh     \* history: "login" once a login began after the latest revocation

vars == <<user, clock, sessions, request, fresh>>

Session == [access : 0 .. MaxClock, created : 0 .. MaxClock,
            state : {"valid", "revoked", "deleted"}]

Idle == [kind |-> "idle"]
\* The tokens are made when the user has been read; the row follows.
Issue  == [kind : {"issue"}, access : 0 .. MaxClock]
Revoke == [kind : {"revoke"}, read : SUBSET (1 .. MaxSessions)]
Delete == [kind : {"delete"}, read : SUBSET (1 .. MaxSessions)]

Init ==
  /\ user = "present"
  /\ clock = 0
  /\ sessions = <<>>
  /\ request = [s \in Slot |-> Idle]
  /\ fresh = "none"

----------------------------------------------------------------------------
(* Which tokens are accepted.                                              *)

InState(st) == {i \in DOMAIN sessions : sessions[i].state = st}

\* is_token_revoked() of a refresh token: its own row decides.
RefreshAccepted(i) == user = "present" /\ sessions[i].state = "valid"

\* The rows of an access token that ORDER BY created_at DESC may put first.
Candidates(a) ==
  LET rows == {i \in DOMAIN sessions : sessions[i].access = a /\ sessions[i].state # "deleted"}
  IN  {i \in rows : \A j \in rows : sessions[j].created <= sessions[i].created}

\* get_current_user() may let the access token pass.
AccessAccepted(a) ==
  user = "present" /\ \E i \in Candidates(a) : sessions[i].state = "valid"

----------------------------------------------------------------------------
(* Handlers: what they read.                                               *)

Kinds(s) == {request[t].kind : t \in Slot \ {s}}

\* Where clients keep revocations apart from logins and refreshes.
MayOverlap(s, kind) ==
  SerialRevokes => /\ kind = "revoke" => "issue" \notin Kinds(s)
                   /\ kind = "issue" => "revoke" \notin Kinds(s)

Begin(s, r) ==
  /\ request[s] = Idle
  /\ MayOverlap(s, r.kind)
  /\ request' = [request EXCEPT ![s] = r]
  /\ UNCHANGED <<user, clock, sessions>>

\* login(), login_totp(), authenticate_finish(): the user is there and the
\* credentials are right.
BeginLogin(s) ==
  /\ user = "present"
  /\ Begin(s, [kind |-> "issue", access |-> clock])
  /\ fresh' = "login"

\* refresh(): the refresh token stays valid beside the new one.
BeginRefresh(s) ==
  /\ \E i \in DOMAIN sessions : RefreshAccepted(i)
  /\ Begin(s, [kind |-> "issue", access |-> clock])
  /\ UNCHANGED fresh

\* logout(), change_password(): any accepted access token will do; the
\* sessions not revoked yet are read.
BeginRevoke(s) ==
  /\ \E a \in 0 .. MaxClock : AccessAccepted(a)
  /\ Begin(s, [kind |-> "revoke", read |-> InState("valid")])
  /\ UNCHANGED fresh

\* delete_user(): the cascade loads the user's sessions.
BeginDelete(s) ==
  /\ user = "present"
  /\ Begin(s, [kind |-> "delete", read |-> InState("valid") \cup InState("revoked")])
  /\ UNCHANGED fresh

----------------------------------------------------------------------------
(* Handlers: what they commit.                                             *)

Finish(s, kind) ==
  /\ request[s].kind = kind
  /\ request' = [request EXCEPT ![s] = Idle]
  /\ UNCHANGED clock

\* Mutant: revoked is left unset.
RowWithoutDefault(access) == [access |-> access, created |-> clock, state |-> "unset"]
NewRow(access) == [access |-> access, created |-> clock, state |-> "valid"]

\* create_session(); nothing checks that the user still exists.
CommitIssue(s) ==
  /\ Len(sessions) < MaxSessions
  /\ Finish(s, "issue")
  /\ sessions' = Append(sessions, NewRow(request[s].access))
  /\ UNCHANGED <<user, fresh>>

\* Mutant: only the latest session is marked.
MarkedLatest(I, st) ==
  [i \in DOMAIN sessions |-> IF i \in I /\ \A j \in I : j <= i
                            THEN [sessions[i] EXCEPT !.state = st] ELSE sessions[i]]
Marked(I, st) ==
  [i \in DOMAIN sessions |-> IF i \in I THEN [sessions[i] EXCEPT !.state = st] ELSE sessions[i]]

\* revoke_user_sessions() and the commit.
CommitRevoke(s) ==
  /\ Finish(s, "revoke")
  /\ request[s].read \cap InState("deleted") = {}
  /\ sessions' = Marked(request[s].read, "revoked")
  /\ fresh' = "none"
  /\ UNCHANGED user

\* An UPDATE of a row that is gone fails; so does anything before the commit.
\* Nothing is kept.
Fail(s) ==
  /\ request[s] # Idle
  /\ request' = [request EXCEPT ![s] = Idle]
  /\ UNCHANGED <<user, clock, sessions, fresh>>

\* The user goes, and the sessions read with it.
CommitDelete(s) ==
  /\ Finish(s, "delete")
  /\ user' = "deleted"
  /\ sessions' = Marked(request[s].read, "deleted")
  /\ UNCHANGED fresh

Tick ==
  /\ clock < MaxClock
  /\ clock' = clock + 1
  /\ UNCHANGED <<user, sessions, request, fresh>>

Handle(s) ==
  \/ BeginLogin(s) \/ BeginRefresh(s) \/ BeginRevoke(s) \/ BeginDelete(s)
  \/ CommitIssue(s) \/ CommitRevoke(s) \/ CommitDelete(s) \/ Fail(s)

Next == Tick \/ \E s \in Slot : Handle(s)

Spec == Init /\ [][Next]_vars

----------------------------------------------------------------------------
(* Properties.                                                             *)

\* Every variable holds values of its type (the type invariant).
TypeOK ==
  /\ user \in {"present", "deleted"}
  /\ clock \in 0 .. MaxClock
  /\ sessions \in Seq(Session) /\ Len(sessions) <= MaxSessions
  /\ request \in [Slot -> Issue \cup Revoke \cup Delete \cup {Idle}]
  /\ fresh \in {"none", "login"}

\* After a logout or a password change no token of the user is accepted, on any
\* device, until somebody logs in again: no chain of refreshes, no revocation
\* that overlaps another one, and no access token shared by two sessions
\* reopens the account.
OutUntilLogin ==
  fresh = "none" =>
    /\ \A i \in DOMAIN sessions : ~RefreshAccepted(i)
    /\ \A a \in 0 .. MaxClock : ~AccessAccepted(a)
=============================================================================
