-------------------------------- MODULE Passkeys --------------------------------
(***************************************************************************)
(* The passkeys of one user: registration, signing in, renaming and        *)
(* revocation, by requests that overlap.                                   *)
(*                                                                         *)
(* A ceremony starts with a challenge that is stored and ends with an      *)
(* answer.  The finishing request reads the challenge and deletes it; the  *)
(* DELETE takes the write lock, and since a DELETE that finds no row only  *)
(* warns, two requests that have both read a challenge are both served.    *)
(* Everything else a finishing request reads is read under the lock.  The  *)
(* routes commit also when the ceremony fails.                             *)
(*                                                                         *)
(* Authenticators and their clones answer with whatever signature count    *)
(* they have.  Whether the library accepts an answer is left open: a       *)
(* refusal stands for a bad signature, an expired or malformed answer, or  *)
(* a count the library itself dislikes.                                    *)
(***************************************************************************)
EXTENDS Naturals, Sequences

CONSTANTS
  Key,          \* credentials
  Model,        \* makes of authenticators (aaguid)
  Verification, \* ways users are recognised, of those in UserVerification
  Challenge,    \* challenges open at once
  Slot,         \* requests in flight at once
  MaxCount,     \* bound: signature counts
  MaxSessions,  \* bound: sessions ever opened
  Absent        \* no passkey

\* By a PIN or a finger; not, but by the device itself; by mere touch.
UserVerification == {"verified", "internal", "touch"}

Count == 0 .. MaxCount

Passkey ==
  [state : {"active", "revoked"}, count : Count, regressed : {"no", "recently"},
   verification : Verification, device : {"single", "multi"}, model : Model]

ASSUME ConstantsAssumption ==
  /\ Verification \subseteq UserVerification
  /\ MaxCount \in Nat
  /\ MaxSessions \in Nat
  /\ Absent \notin Passkey

VARIABLES
  passkeys,   \* the rows, by credential
  challenges, \* the stored challenges: the ceremony they are for, or "none"
  request,    \* what each request in flight has read
  opened,     \* history: the answers that opened sessions, in order
  alarms      \* history: regressions of each passkey answered within a day

vars == <<passkeys, challenges, request, opened, alarms>>

Idle == [kind |-> "idle"]
\* ceremony is the kind of the challenge that was read.  The answer belongs to
\* the request, too, but matters only when it is verified: it is chosen there.
FinishRequest ==
  [kind : {"sign in", "register"}, challenge : Challenge,
   ceremony : {"register", "authenticate"}]
RevokeRequest == [kind : {"revoke"}, key : Key]
RenameRequest == [kind : {"rename"}, key : Key, read : Passkey]
Request == FinishRequest \cup RevokeRequest \cup RenameRequest

Init ==
  /\ passkeys = [k \in Key |-> Absent]
  /\ challenges = [c \in Challenge |-> "none"]
  /\ request = [s \in Slot |-> Idle]
  /\ opened = <<>>
  /\ alarms = [k \in Key |-> 0]

IsActive(k) == passkeys[k] # Absent /\ passkeys[k].state = "active"

----------------------------------------------------------------------------
(* What requests read.                                                     *)

\* register_start(), authenticate_start(): an identifier never used before;
\* here one that neither a row nor a request knows any more.
Start(c, ceremony) ==
  /\ challenges[c] = "none"
  /\ \A s \in Slot : request[s].kind \in {"sign in", "register"} => request[s].challenge # c
  /\ challenges' = [challenges EXCEPT ![c] = ceremony]
  /\ UNCHANGED <<passkeys, request, opened, alarms>>

Begin(s, r) ==
  /\ request[s] = Idle
  /\ request' = [request EXCEPT ![s] = r]
  /\ UNCHANGED <<passkeys, challenges, opened, alarms>>

\* authenticate_finish() or register_finish() finds the challenge.
BeginFinish(s) ==
  \E c \in Challenge, kind \in {"sign in", "register"} :
    /\ challenges[c] # "none"
    /\ Begin(s, [kind |-> kind, challenge |-> c, ceremony |-> challenges[c]])

\* soft_revoke_passkey() and rename_passkey() find the passkey not revoked.
BeginRevoke(s) ==
  \E k \in Key : IsActive(k) /\ Begin(s, [kind |-> "revoke", key |-> k])
BeginRename(s) ==
  \E k \in Key :
    IsActive(k) /\ Begin(s, [kind |-> "rename", key |-> k, read |-> passkeys[k]])

----------------------------------------------------------------------------
(* What requests commit.                                                   *)

Finish(s, kind) ==
  /\ request[s].kind = kind
  /\ request' = [request EXCEPT ![s] = Idle]

\* _delete_challenge(): the row read, or nothing if another request was faster.
DeleteChallenge(s) == challenges' = [challenges EXCEPT ![request[s].challenge] = "none"]

\* Mutant: the count may repeat.
RegressedBelow(new, stored) == new < stored
\* is_regression
Regressed(new, stored) == new <= stored /\ ~(new = 0 /\ stored = 0)

IsAlarm(k, n) == passkeys[k].device = "single" /\ Regressed(n, passkeys[k].count)

\* authenticate_finish() up to the session, with an answer of k and its count n;
\* password tells whether the request carries the partial token of the owner's
\* password login.
SignIn(s) ==
  /\ Finish(s, "sign in")
  /\ DeleteChallenge(s)
  /\ request[s].ceremony = "authenticate"
  /\ Len(opened) < MaxSessions
  /\ \E k \in Key, n \in Count, password \in {"given", "missing"} :
       /\ IsActive(k)
       /\ ~IsAlarm(k, n)
       /\ passkeys[k].verification = "touch" => password = "given"
       /\ passkeys' = [passkeys EXCEPT ![k].count = n]
       /\ opened' = Append(opened, [key |-> k, count |-> n])
  /\ UNCHANGED alarms

\* Mutant: what a failing ceremony wrote is rolled back.
KeptNothing(new, old) == old
\* The route commits what a failing ceremony wrote.
Kept(new, old) == new

Alarmed(p) ==
  IF p.regressed = "recently" THEN [p EXCEPT !.state = "revoked"]
                              ELSE [p EXCEPT !.regressed = "recently"]

\* A regression warns first; the second within a day revokes.
Alarm(s) ==
  /\ Finish(s, "sign in")
  /\ DeleteChallenge(s)
  /\ request[s].ceremony = "authenticate"
  /\ \E k \in Key, n \in Count :
       /\ IsActive(k)
       /\ IsAlarm(k, n)
       /\ passkeys' = [passkeys EXCEPT ![k] = Kept(Alarmed(passkeys[k]), passkeys[k])]
       /\ alarms' = [alarms EXCEPT ![k] = alarms[k] + 1]
  /\ UNCHANGED opened

\* Mutant: the state has no default.
NewWithoutDefault(n, verification, device, model) ==
  [state |-> "unset", count |-> n, regressed |-> "no",
   verification |-> verification, device |-> device, model |-> model]
New(n, verification, device, model) ==
  [state |-> "active", count |-> n, regressed |-> "no",
   verification |-> verification, device |-> device, model |-> model]

\* The touch-only passkeys that p replaces: a verified one of the same make.
Siblings(p) ==
  {k \in Key : /\ IsActive(k)
               /\ p.verification = "verified" /\ passkeys[k].verification = "touch"
               /\ p.model = passkeys[k].model}

With(k, p) ==
  [i \in Key |-> IF i = k THEN p
                 ELSE IF i \in Siblings(p) THEN [passkeys[i] EXCEPT !.state = "revoked"]
                 ELSE passkeys[i]]

\* register_finish(): no credential is registered twice.
Register(s) ==
  /\ Finish(s, "register")
  /\ DeleteChallenge(s)
  /\ request[s].ceremony = "register"
  /\ \E k \in Key, n \in Count, v \in Verification, d \in {"single", "multi"}, m \in Model :
       /\ passkeys[k] = Absent
       /\ passkeys' = With(k, New(n, v, d, m))
  /\ UNCHANGED <<opened, alarms>>

\* Every other PasskeyError: the challenge is gone, and that is all.
Refuse(s) ==
  /\ request[s].kind \in {"sign in", "register"}
  /\ Finish(s, request[s].kind)
  /\ DeleteChallenge(s)
  /\ UNCHANGED <<passkeys, opened, alarms>>

Revoke(s) ==
  /\ Finish(s, "revoke")
  /\ passkeys' = [passkeys EXCEPT ![request[s].key].state = "revoked"]
  /\ UNCHANGED <<challenges, opened, alarms>>

\* Mutant: the whole row is written, as it was read.
RenamedWhole(now, read) == read
\* Only the name is written, which is not modelled.
Renamed(now, read) == now

Rename(s) ==
  LET r == request[s] IN
  /\ Finish(s, "rename")
  /\ passkeys' = [passkeys EXCEPT ![r.key] = Renamed(passkeys[r.key], r.read)]
  /\ UNCHANGED <<challenges, opened, alarms>>

\* A crash, or the write lock is not to be had: nothing is kept.
Fail(s) ==
  /\ request[s] # Idle
  /\ request' = [request EXCEPT ![s] = Idle]
  /\ UNCHANGED <<passkeys, challenges, opened, alarms>>

\* REGRESSION_REVOKE_WINDOW passes.
DayPasses(k) ==
  /\ alarms[k] > 0
  /\ alarms' = [alarms EXCEPT ![k] = 0]
  /\ passkeys' = [passkeys EXCEPT ![k].regressed = "no"]
  /\ UNCHANGED <<challenges, request, opened>>

Handle(s) ==
  \/ BeginFinish(s) \/ BeginRevoke(s) \/ BeginRename(s)
  \/ SignIn(s) \/ Alarm(s) \/ Register(s) \/ Refuse(s)
  \/ Revoke(s) \/ Rename(s) \/ Fail(s)

Next ==
  \/ \E c \in Challenge, ceremony \in {"register", "authenticate"} : Start(c, ceremony)
  \/ \E s \in Slot : Handle(s)
  \/ \E k \in Key : DayPasses(k)

Spec == Init /\ [][Next]_vars

----------------------------------------------------------------------------
(* Properties.                                                             *)

\* Every variable holds values of its type (the type invariant).
TypeOK ==
  /\ passkeys \in [Key -> Passkey \cup {Absent}]
  /\ challenges \in [Challenge -> {"none", "register", "authenticate"}]
  /\ request \in [Slot -> Request \cup {Idle}]
  /\ opened \in Seq([key : Key, count : Count]) /\ Len(opened) <= MaxSessions
  /\ alarms \in [Key -> Nat]

\* Although a challenge may serve two requests, no answer of a single-device
\* authenticator that counts opens a second session, and no clone that lags
\* behind opens one: the counts of a passkey's sessions increase.
NoReplay ==
  \A j \in 1 .. Len(opened) : \A i \in 1 .. j - 1 :
    LET a == opened[i]
        b == opened[j]
    IN  a.key = b.key /\ passkeys[a.key].device = "single"
          => a.count < b.count \/ (a.count = 0 /\ b.count = 0)

\* "This passkey has been disabled due to repeated integrity failures": after
\* two regressions within a day a passkey is revoked, although the request
\* that finds the first one fails.
SecondAlarmRevokes ==
  \A k \in Key : alarms[k] > 1 => passkeys[k].state = "revoked"

\* A revoked passkey stays revoked and opens no session, whatever the requests
\* that have read it before do.
RevokedStaysOut ==
  [][\A k \in Key :
       passkeys[k] # Absent /\ passkeys[k].state = "revoked" =>
         /\ passkeys'[k].state = "revoked"
         /\ opened' # opened => opened'[Len(opened')].key # k]_vars

\* The strengthenings: rows never disappear ...
RowsStay ==
  /\ \A s \in Slot : request[s].kind \in {"revoke", "rename"} => passkeys[request[s].key] # Absent
  /\ \A k \in Key : alarms[k] > 0 => passkeys[k] # Absent

\* ... the last regression of the day is on record, until the passkey is revoked ...
RegressionKept ==
  \A k \in Key : alarms[k] > 0 /\ passkeys[k].state = "active" => passkeys[k].regressed = "recently"

\* ... and so is the highest count that opened a session.
CountKept ==
  \A i \in 1 .. Len(opened) :
    LET p == passkeys[opened[i].key]
    IN  /\ p # Absent
        /\ p.device = "single" => opened[i].count <= p.count
=============================================================================
