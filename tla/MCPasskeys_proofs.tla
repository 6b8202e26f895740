---------------------------- MODULE MCPasskeys_proofs ----------------------------
(* Proofs about Passkeys and PasskeysSection, for any number of credentials, *)
(* requests and counts.                                                      *)
EXTENDS MCPasskeys, FiniteSetTheorems, TLAPS

----------------------------------------------------------------------------
(* The server.                                                             *)

\* Typing and rows that stay are inductive together.
Typed == TypeOK /\ RowsStay

\* A row that is there.
LEMMA RowType ==
  ASSUME TypeOK, NEW k \in Key, passkeys[k] # Absent
  PROVE  passkeys[k] \in Passkey
BY DEF TypeOK

\* Rows are not Absent.
LEMMA RowIsThere == ASSUME NEW p \in Passkey PROVE p # Absent
BY ConstantsAssumption

\* What the EXCEPTs of the handlers make of a row.
LEMMA RowUpdates ==
  ASSUME NEW p \in Passkey, NEW n \in Count
  PROVE  /\ [p EXCEPT !.count = n] \in Passkey
         /\ [p EXCEPT !.state = "revoked"] \in Passkey
         /\ [p EXCEPT !.regressed = "recently"] \in Passkey
         /\ [p EXCEPT !.regressed = "no"] \in Passkey
BY DEF Passkey

\* A new row.
LEMMA NewRow ==
  ASSUME NEW n \in Count, NEW v \in Verification, NEW d \in {"single", "multi"}, NEW m \in Model
  PROVE  New(n, v, d, m) \in Passkey
BY DEF New, Passkey

\* The requests that begin.
LEMMA RequestTypes ==
  ASSUME TypeOK
  PROVE  /\ \A c \in Challenge, kind \in {"sign in", "register"} : challenges[c] # "none" =>
              [kind |-> kind, challenge |-> c, ceremony |-> challenges[c]] \in Request
         /\ \A k \in Key : [kind |-> "revoke", key |-> k] \in Request
         /\ \A k \in Key : IsActive(k) =>
              [kind |-> "rename", key |-> k, read |-> passkeys[k]] \in Request
<1>1. \A c \in Challenge : challenges[c] \in {"none", "register", "authenticate"}
  BY DEF TypeOK
<1>2. \A k \in Key : IsActive(k) => passkeys[k] \in Passkey
  BY RowType DEF IsActive
<1> QED  BY <1>1, <1>2 DEF Request, FinishRequest, RevokeRequest, RenameRequest

\* Requests that name a passkey name a credential.
LEMMA RequestKey ==
  ASSUME TypeOK, NEW s \in Slot, request[s].kind \in {"revoke", "rename"}
  PROVE  request[s].key \in Key
<1>1. request[s] \in Request \cup {Idle}
  BY DEF TypeOK
<1>2. ASSUME NEW r \in FinishRequest PROVE r.kind \notin {"revoke", "rename"}
  BY <1>2 DEF FinishRequest
<1>3. ASSUME NEW r \in RevokeRequest PROVE r.key \in Key
  BY <1>3 DEF RevokeRequest
<1>4. ASSUME NEW r \in RenameRequest PROVE r.key \in Key
  BY <1>4 DEF RenameRequest
<1>5. Idle.kind \notin {"revoke", "rename"}
  BY DEF Idle
<1> QED  BY <1>1, <1>2, <1>3, <1>4, <1>5 DEF Request

\* Requests that finish a ceremony name a challenge.
LEMMA DeleteType ==
  ASSUME TypeOK, NEW s \in Slot, DeleteChallenge(s)
  PROVE  challenges' \in [Challenge -> {"none", "register", "authenticate"}]
<1> DEFINE c == request[s].challenge
<1>1. challenges \in [Challenge -> {"none", "register", "authenticate"}]
  BY DEF TypeOK
<1>2. challenges' = [challenges EXCEPT ![c] = "none"]
  BY DEF DeleteChallenge
<1> HIDE DEF c
<1> QED  BY <1>1, <1>2

\* A step that opens no session and raises no alarm.
Quiet ==
  /\ UNCHANGED <<opened, alarms>>
  /\ passkeys' = [k \in Key |-> passkeys'[k]]
  /\ \A k \in Key :
       \/ UNCHANGED passkeys[k]
       \/ passkeys[k] = Absent /\ passkeys'[k] \in Passkey
       \/ passkeys[k] # Absent /\ passkeys'[k] = [passkeys[k] EXCEPT !.state = "revoked"]

\* The steps that are quiet, and what the others do.
LEMMA Steps ==
  ASSUME Typed, Next
  PROVE  \/ Quiet
         \/ \E s \in Slot : SignIn(s) \/ Alarm(s)
         \/ \E k \in Key : DayPasses(k)
<1> USE DEF Typed
<1>0. passkeys = [k \in Key |-> passkeys[k]]
  BY DEF TypeOK
<1>1. ASSUME NEW c \in Challenge, NEW ceremony \in {"register", "authenticate"}, Start(c, ceremony)
      PROVE  Quiet
  BY <1>0, <1>1 DEF Start, Quiet
<1>2. ASSUME NEW s \in Slot, NEW r, Begin(s, r) PROVE Quiet
  BY <1>0, <1>2 DEF Begin, Quiet
<1>3. ASSUME NEW s \in Slot, BeginFinish(s) \/ BeginRevoke(s) \/ BeginRename(s) PROVE Quiet
  BY <1>2, <1>3 DEF BeginFinish, BeginRevoke, BeginRename
<1>4. ASSUME NEW s \in Slot, Register(s) PROVE Quiet
  <2>1. PICK k \in Key, n \in Count, v \in Verification, d \in {"single", "multi"}, m \in Model :
          passkeys[k] = Absent /\ passkeys' = With(k, New(n, v, d, m))
    BY <1>4 DEF Register
  <2>2. New(n, v, d, m) \in Passkey
    BY NewRow
  <2>3. \A i \in Siblings(New(n, v, d, m)) : passkeys[i] # Absent
    BY DEF Siblings, IsActive
  <2>4. \A i \in Key : passkeys'[i] = IF i = k THEN New(n, v, d, m)
                        ELSE IF i \in Siblings(New(n, v, d, m))
                             THEN [passkeys[i] EXCEPT !.state = "revoked"] ELSE passkeys[i]
    BY <2>1 DEF With
  <2>5. UNCHANGED <<opened, alarms>>
    BY <1>4 DEF Register
  <2>6. passkeys' = [i \in Key |-> passkeys'[i]]
    BY <2>1 DEF With
  <2> HIDE DEF New
  <2> QED  BY <2>1, <2>2, <2>3, <2>4, <2>5, <2>6 DEF Quiet
<1>5. ASSUME NEW s \in Slot, Refuse(s) PROVE Quiet
  BY <1>0, <1>5 DEF Refuse, Quiet
<1>6. ASSUME NEW s \in Slot, Revoke(s) PROVE Quiet
  <2>1. request[s].key \in Key /\ passkeys[request[s].key] # Absent
    BY <1>6, RequestKey DEF Revoke, Finish, RowsStay
  <2>2. \A i \in Key : passkeys'[i] = IF i = request[s].key
                        THEN [passkeys[i] EXCEPT !.state = "revoked"] ELSE passkeys[i]
    BY <1>6, <2>1 DEF Revoke, TypeOK
  <2>3. passkeys' = [i \in Key |-> passkeys'[i]]
    BY <1>0, <1>6 DEF Revoke
  <2> QED  BY <1>6, <2>1, <2>2, <2>3 DEF Quiet, Revoke
<1>7. ASSUME NEW s \in Slot, Rename(s) PROVE Quiet
  BY <1>0, <1>7 DEF Rename, Renamed, Quiet, TypeOK
<1>8. ASSUME NEW s \in Slot, Fail(s) PROVE Quiet
  BY <1>0, <1>8 DEF Fail, Quiet
<1> QED  BY <1>1, <1>3, <1>4, <1>5, <1>6, <1>7, <1>8 DEF Next, Handle

\* What a quiet step leaves alone.
LEMMA QuietRows ==
  ASSUME Typed, Quiet
  PROVE  /\ UNCHANGED <<opened, alarms>>
         /\ \A k \in Key : passkeys'[k] \in Passkey \cup {Absent}
         /\ \A k \in Key : passkeys[k] # Absent =>
              /\ passkeys'[k] # Absent
              /\ UNCHANGED <<passkeys[k].count, passkeys[k].device, passkeys[k].regressed>>
              /\ passkeys'[k].state \in {passkeys[k].state, "revoked"}
<1>1. ASSUME NEW k \in Key, passkeys[k] # Absent
      PROVE  /\ passkeys'[k] \in Passkey
             /\ UNCHANGED <<passkeys[k].count, passkeys[k].device, passkeys[k].regressed>>
             /\ passkeys'[k].state \in {passkeys[k].state, "revoked"}
  <2>1. passkeys[k] \in Passkey
    BY <1>1, RowType DEF Typed
  <2>2. UNCHANGED passkeys[k] \/ passkeys'[k] = [passkeys[k] EXCEPT !.state = "revoked"]
    BY <1>1 DEF Quiet
  <2> QED  BY <2>1, <2>2 DEF Passkey
<1>2. ASSUME NEW k \in Key, passkeys[k] = Absent
      PROVE  passkeys'[k] \in Passkey \cup {Absent}
  BY <1>2 DEF Quiet
<1>3. \A k \in Key : passkeys[k] # Absent => passkeys'[k] # Absent
  BY <1>1, RowIsThere
<1> QED  BY <1>1, <1>2, <1>3 DEF Quiet

\* A session: one row's count.
LEMMA SignInRow ==
  ASSUME Typed, NEW s \in Slot, SignIn(s)
  PROVE  \E k \in Key, n \in Count :
           /\ IsActive(k) /\ ~IsAlarm(k, n)
           /\ passkeys[k] \in Passkey
           /\ passkeys' = [passkeys EXCEPT ![k] = [passkeys[k] EXCEPT !.count = n]]
           /\ opened' = Append(opened, [key |-> k, count |-> n])
           /\ Len(opened) < MaxSessions
           /\ UNCHANGED alarms
<1>1. PICK k \in Key, n \in Count, password \in {"given", "missing"} :
         /\ IsActive(k) /\ ~IsAlarm(k, n)
         /\ passkeys' = [passkeys EXCEPT ![k].count = n]
         /\ opened' = Append(opened, [key |-> k, count |-> n])
  BY DEF SignIn
<1>2. passkeys[k] \in Passkey
  BY <1>1, RowType DEF IsActive, Typed
<1>3. passkeys' = [passkeys EXCEPT ![k] = [passkeys[k] EXCEPT !.count = n]]
  BY <1>1
<1> QED  BY <1>1, <1>2, <1>3 DEF SignIn

\* An alarm: one row's record of it.
LEMMA AlarmRow ==
  ASSUME Typed, NEW s \in Slot, Alarm(s)
  PROVE  \E k \in Key :
           /\ IsActive(k)
           /\ passkeys[k] \in Passkey
           /\ passkeys' = [passkeys EXCEPT ![k] = Alarmed(passkeys[k])]
           /\ alarms' = [alarms EXCEPT ![k] = alarms[k] + 1]
           /\ UNCHANGED opened
<1>1. PICK k \in Key, n \in Count :
         /\ IsActive(k)
         /\ passkeys' = [passkeys EXCEPT ![k] = Alarmed(passkeys[k])]
         /\ alarms' = [alarms EXCEPT ![k] = alarms[k] + 1]
  BY DEF Alarm, Kept
<1>2. passkeys[k] \in Passkey
  BY <1>1, RowType DEF IsActive, Typed
<1> QED  BY <1>1, <1>2 DEF Alarm

\* A day later: one row forgets.
LEMMA DayRow ==
  ASSUME Typed, NEW k \in Key, DayPasses(k)
  PROVE  /\ passkeys[k] \in Passkey
         /\ passkeys' = [passkeys EXCEPT ![k] = [passkeys[k] EXCEPT !.regressed = "no"]]
         /\ alarms' = [alarms EXCEPT ![k] = 0]
         /\ UNCHANGED opened
<1>1. passkeys[k] # Absent
  BY DEF DayPasses, Typed, RowsStay
<1> QED  BY <1>1, RowType DEF DayPasses, Typed

\* What an alarm does to a row.
LEMMA AlarmedRow ==
  ASSUME NEW p \in Passkey
  PROVE  /\ Alarmed(p) \in Passkey
         /\ Alarmed(p).count = p.count /\ Alarmed(p).device = p.device
         /\ Alarmed(p).state = "active" => Alarmed(p).regressed = "recently" /\ p.regressed = "no"
         /\ p.state = "revoked" => Alarmed(p).state = "revoked"
BY DEF Alarmed, Passkey

----------------------------------------------------------------------------

\* How the requests in flight change.
LEMMA RequestStep ==
  ASSUME Typed, Next
  PROVE  \/ UNCHANGED request
         \/ \E s \in Slot : request' = [request EXCEPT ![s] = Idle]
         \/ \E s \in Slot, r \in FinishRequest : request' = [request EXCEPT ![s] = r]
         \/ \E s \in Slot, r \in Request :
              /\ request' = [request EXCEPT ![s] = r]
              /\ r.key \in Key /\ passkeys[r.key] # Absent
<1> USE DEF Typed
<1>1. ASSUME NEW c \in Challenge, NEW ceremony \in {"register", "authenticate"}, Start(c, ceremony)
      PROVE  UNCHANGED request
  BY <1>1 DEF Start
<1>2. ASSUME NEW k \in Key, DayPasses(k) PROVE UNCHANGED request
  BY <1>2 DEF DayPasses
<1>3. ASSUME NEW s \in Slot, BeginFinish(s)
      PROVE  \E r \in FinishRequest : request' = [request EXCEPT ![s] = r]
  <2>1. PICK c \in Challenge, kind \in {"sign in", "register"} :
          /\ challenges[c] # "none"
          /\ Begin(s, [kind |-> kind, challenge |-> c, ceremony |-> challenges[c]])
    BY <1>3 DEF BeginFinish
  <2>2. challenges[c] \in {"register", "authenticate"}
    BY <2>1 DEF TypeOK
  <2>3. [kind |-> kind, challenge |-> c, ceremony |-> challenges[c]] \in FinishRequest
    BY <2>2 DEF FinishRequest
  <2> QED  BY <2>1, <2>3 DEF Begin
<1>4. ASSUME NEW s \in Slot, BeginRevoke(s) \/ BeginRename(s)
      PROVE  \E r \in Request :
               /\ request' = [request EXCEPT ![s] = r]
               /\ r.key \in Key /\ passkeys[r.key] # Absent
  <2>1. CASE BeginRevoke(s)
    <3>1. PICK k \in Key : IsActive(k) /\ Begin(s, [kind |-> "revoke", key |-> k])
      BY <2>1 DEF BeginRevoke
    <3> QED  BY <3>1, RequestTypes DEF Begin, IsActive
  <2>2. CASE BeginRename(s)
    <3>1. PICK k \in Key :
            IsActive(k) /\ Begin(s, [kind |-> "rename", key |-> k, read |-> passkeys[k]])
      BY <2>2 DEF BeginRename
    <3> QED  BY <3>1, RequestTypes DEF Begin, IsActive
  <2> QED  BY <1>4, <2>1, <2>2
<1>5. ASSUME NEW s \in Slot,
             SignIn(s) \/ Alarm(s) \/ Register(s) \/ Refuse(s) \/ Revoke(s) \/ Rename(s) \/ Fail(s)
      PROVE  request' = [request EXCEPT ![s] = Idle]
  BY <1>5 DEF SignIn, Alarm, Register, Refuse, Revoke, Rename, Fail, Finish
<1> QED  BY <1>1, <1>2, <1>3, <1>4, <1>5 DEF Next, Handle

\* How the challenges change.
LEMMA ChallengeStep ==
  ASSUME Typed, Next
  PROVE  challenges' \in [Challenge -> {"none", "register", "authenticate"}]
<1> USE DEF Typed
<1>1. ASSUME NEW c \in Challenge, NEW ceremony \in {"register", "authenticate"}, Start(c, ceremony)
      PROVE  challenges' \in [Challenge -> {"none", "register", "authenticate"}]
  BY <1>1 DEF Start, TypeOK
<1>2. ASSUME NEW k \in Key, DayPasses(k) PROVE UNCHANGED challenges
  BY <1>2 DEF DayPasses
<1>3. ASSUME NEW s \in Slot, SignIn(s) \/ Alarm(s) \/ Register(s) \/ Refuse(s)
      PROVE  DeleteChallenge(s)
  BY <1>3 DEF SignIn, Alarm, Register, Refuse
<1>4. ASSUME NEW s \in Slot, Revoke(s) \/ Rename(s) \/ Fail(s) PROVE UNCHANGED challenges
  BY <1>4 DEF Revoke, Rename, Fail
<1>5. ASSUME NEW s \in Slot, BeginFinish(s) \/ BeginRevoke(s) \/ BeginRename(s)
      PROVE  UNCHANGED challenges
  BY <1>5 DEF BeginFinish, BeginRevoke, BeginRename, Begin
<1>6. challenges \in [Challenge -> {"none", "register", "authenticate"}]
  BY DEF TypeOK
<1> QED  BY <1>1, <1>2, <1>3, <1>4, <1>5, <1>6, DeleteType DEF Next, Handle

\* How the rows change: none disappears.
LEMMA RowStep ==
  ASSUME Typed, Next
  PROVE  /\ passkeys' \in [Key -> Passkey \cup {Absent}]
         /\ \A k \in Key : passkeys[k] # Absent => passkeys'[k] # Absent
<1>1. passkeys \in [Key -> Passkey \cup {Absent}]
  BY DEF Typed, TypeOK
<1>2. ASSUME NEW k \in Key, NEW p \in Passkey, passkeys' = [passkeys EXCEPT ![k] = p]
      PROVE  /\ passkeys' \in [Key -> Passkey \cup {Absent}]
             /\ \A i \in Key : passkeys[i] # Absent => passkeys'[i] # Absent
  BY <1>1, <1>2, RowIsThere
<1>3. CASE Quiet
  <2>1. passkeys' = [k \in Key |-> passkeys'[k]]
    BY <1>3 DEF Quiet
  <2> QED  BY <1>3, <2>1, QuietRows
<1>4. ASSUME NEW s \in Slot, SignIn(s)
      PROVE  \E k \in Key, p \in Passkey : passkeys' = [passkeys EXCEPT ![k] = p]
  BY <1>4, SignInRow, RowUpdates
<1>5. ASSUME NEW s \in Slot, Alarm(s)
      PROVE  \E k \in Key, p \in Passkey : passkeys' = [passkeys EXCEPT ![k] = p]
  BY <1>5, AlarmRow, AlarmedRow
<1>6. ASSUME NEW k \in Key, DayPasses(k)
      PROVE  \E i \in Key, p \in Passkey : passkeys' = [passkeys EXCEPT ![i] = p]
  <2>1. [passkeys[k] EXCEPT !.regressed = "no"] \in Passkey
    BY <1>6, DayRow DEF Passkey
  <2> QED  BY <1>6, <2>1, DayRow
<1> QED  BY <1>2, <1>3, <1>4, <1>5, <1>6, Steps

\* How the histories change.
LEMMA HistoryStep ==
  ASSUME Typed, Next
  PROVE  /\ opened' \in Seq([key : Key, count : Count]) /\ Len(opened') <= MaxSessions
         /\ alarms' \in [Key -> Nat]
         /\ \A k \in Key : alarms'[k] > 0 => passkeys'[k] # Absent
<1>1. /\ opened \in Seq([key : Key, count : Count]) /\ Len(opened) <= MaxSessions
      /\ Len(opened) \in Nat /\ MaxSessions \in Nat
      /\ alarms \in [Key -> Nat]
      /\ \A k \in Key : alarms[k] > 0 => passkeys[k] # Absent
  BY ConstantsAssumption DEF Typed, TypeOK, RowsStay
<1>2. \A k \in Key : passkeys[k] # Absent => passkeys'[k] # Absent
  BY RowStep
<1>3. CASE Quiet
  BY <1>1, <1>2, <1>3 DEF Quiet
<1>4. ASSUME NEW s \in Slot, SignIn(s)
      PROVE  /\ opened' \in Seq([key : Key, count : Count]) /\ Len(opened') <= MaxSessions
             /\ UNCHANGED alarms
  <2>1. PICK k \in Key, n \in Count :
          /\ opened' = Append(opened, [key |-> k, count |-> n])
          /\ Len(opened) < MaxSessions /\ UNCHANGED alarms
    BY <1>4, SignInRow
  <2>2. [key |-> k, count |-> n] \in [key : Key, count : Count]
    OBVIOUS
  <2> QED  BY <1>1, <2>1, <2>2
<1>5. ASSUME NEW s \in Slot, Alarm(s)
      PROVE  \E k \in Key : /\ alarms' = [alarms EXCEPT ![k] = alarms[k] + 1]
                            /\ passkeys[k] # Absent /\ UNCHANGED opened
  BY <1>5, AlarmRow DEF IsActive
<1>6. ASSUME NEW k \in Key, DayPasses(k)
      PROVE  alarms' = [alarms EXCEPT ![k] = 0] /\ UNCHANGED opened
  BY <1>6, DayRow
<1>7. CASE \E s \in Slot : SignIn(s)
  BY <1>1, <1>2, <1>4, <1>7
<1>8. CASE \E s \in Slot : Alarm(s)
  <2>1. PICK k \in Key : /\ alarms' = [alarms EXCEPT ![k] = alarms[k] + 1]
                        /\ passkeys[k] # Absent /\ UNCHANGED opened
    BY <1>5, <1>8
  <2> QED  BY <1>1, <1>2, <2>1
<1>9. CASE \E k \in Key : DayPasses(k)
  <2>1. PICK k \in Key : alarms' = [alarms EXCEPT ![k] = 0] /\ UNCHANGED opened
    BY <1>6, <1>9
  <2> QED  BY <1>1, <1>2, <2>1
<1> QED  BY <1>3, <1>7, <1>8, <1>9, Steps

\* Requests in flight keep their types, and the rows they name.
LEMMA RequestsKept ==
  ASSUME Typed, Next
  PROVE  /\ request' \in [Slot -> Request \cup {Idle}]
         /\ \A s \in Slot : request'[s].kind \in {"revoke", "rename"} =>
              passkeys'[request'[s].key] # Absent
<1>1. /\ request \in [Slot -> Request \cup {Idle}]
      /\ \A s \in Slot : request[s].kind \in {"revoke", "rename"} =>
           request[s].key \in Key /\ passkeys[request[s].key] # Absent
  BY RequestKey DEF Typed, TypeOK, RowsStay
<1>2. \A k \in Key : passkeys[k] # Absent => passkeys'[k] # Absent
  BY RowStep
<1>3. Idle.kind \notin {"revoke", "rename"}
  BY DEF Idle
<1>4. \A r \in FinishRequest : r \in Request /\ r.kind \notin {"revoke", "rename"}
  BY DEF FinishRequest, Request
<1> QED  BY <1>1, <1>2, <1>3, <1>4, RequestStep

\* The variables keep their types, and rows never disappear.
THEOREM TypedAlways == Spec => []Typed
<1>1. Init => Typed
  BY ConstantsAssumption DEF Init, Typed, TypeOK, RowsStay, Idle
<1>2. Typed /\ [Next]_vars => Typed'
  <2>1. ASSUME Typed, Next PROVE Typed'
    BY <2>1, RequestsKept, ChallengeStep, RowStep, HistoryStep DEF Typed, TypeOK, RowsStay
  <2>2. ASSUME Typed, UNCHANGED vars PROVE Typed'
    BY <2>2 DEF vars, Typed, TypeOK, RowsStay
  <2> QED  BY <2>1, <2>2
<1> QED  BY <1>1, <1>2, PTL DEF Spec

\* Every variable holds values of its type.
THEOREM TypeCorrect == Spec => []TypeOK
BY TypedAlways, PTL DEF Typed

----------------------------------------------------------------------------

\* A step leaves a revoked row revoked, and opens no session for it.
LEMMA RevokedStep ==
  ASSUME Typed, Next, NEW k \in Key, passkeys[k] # Absent, passkeys[k].state = "revoked"
  PROVE  /\ passkeys'[k].state = "revoked"
         /\ opened' # opened => opened'[Len(opened')].key # k
<1>1. passkeys[k] \in Passkey /\ passkeys \in [Key -> Passkey \cup {Absent}]
  BY RowType DEF Typed, TypeOK
<1>2. CASE Quiet
  BY <1>2, QuietRows
<1>3. ASSUME NEW s \in Slot, SignIn(s)
      PROVE  passkeys'[k].state = "revoked" /\ opened'[Len(opened')].key # k
  <2>1. PICK i \in Key, n \in Count :
          /\ IsActive(i)
          /\ passkeys' = [passkeys EXCEPT ![i] = [passkeys[i] EXCEPT !.count = n]]
          /\ opened' = Append(opened, [key |-> i, count |-> n])
    BY <1>3, SignInRow
  <2>2. i # k
    BY <2>1 DEF IsActive
  <2>3. opened \in Seq([key : Key, count : Count])
    BY DEF Typed, TypeOK
  <2>4. opened'[Len(opened')] = [key |-> i, count |-> n]
    BY <2>1, <2>3
  <2> QED  BY <1>1, <2>1, <2>2, <2>4
<1>4. ASSUME NEW s \in Slot, Alarm(s)
      PROVE  passkeys'[k].state = "revoked" /\ UNCHANGED opened
  <2>1. PICK i \in Key :
          IsActive(i) /\ passkeys' = [passkeys EXCEPT ![i] = Alarmed(passkeys[i])]
    BY <1>4, AlarmRow
  <2> QED  BY <1>1, <1>4, <2>1, AlarmRow DEF IsActive
<1>5. ASSUME NEW i \in Key, DayPasses(i)
      PROVE  passkeys'[k].state = "revoked" /\ UNCHANGED opened
  <2>1. passkeys' = [passkeys EXCEPT ![i] = [passkeys[i] EXCEPT !.regressed = "no"]]
    BY <1>5, DayRow
  <2>2. [passkeys[k] EXCEPT !.regressed = "no"].state = "revoked"
    BY <1>1 DEF Passkey
  <2> QED  BY <1>1, <1>5, <2>1, <2>2, DayRow
<1> QED  BY <1>2, <1>3, <1>4, <1>5, Steps

\* A revoked passkey stays revoked and opens no session, however requests overlap.
THEOREM RevocationIsFinal == Spec => RevokedStaysOut
<1>1. Typed /\ [Next]_vars =>
        [\A k \in Key :
           passkeys[k] # Absent /\ passkeys[k].state = "revoked" =>
             /\ passkeys'[k].state = "revoked"
             /\ opened' # opened => opened'[Len(opened')].key # k]_vars
  BY RevokedStep
<1> QED  BY <1>1, TypedAlways, PTL DEF Spec, RevokedStaysOut

----------------------------------------------------------------------------

\* What makes the second alarm revoke: the first one is on record.
AlarmInv == RegressionKept /\ SecondAlarmRevokes

LEMMA AlarmStep ==
  ASSUME Typed, AlarmInv, Next
  PROVE  AlarmInv'
<1>1. /\ passkeys \in [Key -> Passkey \cup {Absent}]
      /\ alarms \in [Key -> Nat]
      /\ \A k \in Key : alarms[k] > 0 => passkeys[k] # Absent
      /\ \A k \in Key : alarms[k] > 0 /\ passkeys[k].state = "active"
                          => passkeys[k].regressed = "recently"
      /\ \A k \in Key : alarms[k] > 1 => passkeys[k].state = "revoked"
  BY DEF Typed, TypeOK, RowsStay, AlarmInv, RegressionKept, SecondAlarmRevokes
<1>2. CASE Quiet
  <2>1. \A k \in Key : alarms'[k] = alarms[k]
    BY <1>2, QuietRows
  <2>2. \A k \in Key : passkeys[k] # Absent =>
          /\ passkeys'[k].regressed = passkeys[k].regressed
          /\ passkeys'[k].state \in {passkeys[k].state, "revoked"}
    BY <1>2, QuietRows
  <2>3. \A n \in Nat : n > 1 => n > 0
    OBVIOUS
  <2> QED  BY <1>1, <2>1, <2>2, <2>3 DEF AlarmInv, RegressionKept, SecondAlarmRevokes
<1>3. ASSUME NEW s \in Slot, SignIn(s) PROVE AlarmInv'
  <2>1. PICK k \in Key, n \in Count :
          /\ passkeys[k] \in Passkey
          /\ passkeys' = [passkeys EXCEPT ![k] = [passkeys[k] EXCEPT !.count = n]]
          /\ UNCHANGED alarms
    BY <1>3, SignInRow
  <2>2. /\ [passkeys[k] EXCEPT !.count = n].state = passkeys[k].state
        /\ [passkeys[k] EXCEPT !.count = n].regressed = passkeys[k].regressed
    BY <2>1 DEF Passkey
  <2>3. \A i \in Key : /\ passkeys'[i].state = passkeys[i].state
                       /\ passkeys'[i].regressed = passkeys[i].regressed
    BY <1>1, <2>1, <2>2
  <2> QED  BY <1>1, <2>1, <2>3 DEF AlarmInv, RegressionKept, SecondAlarmRevokes
<1>4. ASSUME NEW s \in Slot, Alarm(s) PROVE AlarmInv'
  <2>1. PICK k \in Key :
          /\ IsActive(k) /\ passkeys[k] \in Passkey
          /\ passkeys' = [passkeys EXCEPT ![k] = Alarmed(passkeys[k])]
          /\ alarms' = [alarms EXCEPT ![k] = alarms[k] + 1]
    BY <1>4, AlarmRow
  <2>2. \A i \in Key \ {k} : passkeys'[i] = passkeys[i] /\ alarms'[i] = alarms[i]
    BY <1>1, <2>1
  <2>3. passkeys'[k] = Alarmed(passkeys[k]) /\ alarms'[k] = alarms[k] + 1
    BY <1>1, <2>1
  <2>4. passkeys'[k].state = "active" =>
          passkeys'[k].regressed = "recently" /\ passkeys[k].regressed = "no"
    BY <2>1, <2>3, AlarmedRow
  <2>5. passkeys'[k].state = "active" => alarms[k] = 0
    BY <1>1, <2>1, <2>4 DEF IsActive
  <2>6. passkeys'[k].state \in {"active", "revoked"}
    BY <2>1, <2>3, AlarmedRow DEF Passkey
  <2>7. alarms'[k] > 1 => passkeys'[k].state = "revoked"
    BY <2>3, <2>5, <2>6
  <2> QED  BY <1>1, <2>2, <2>4, <2>7 DEF AlarmInv, RegressionKept, SecondAlarmRevokes
<1>5. ASSUME NEW k \in Key, DayPasses(k) PROVE AlarmInv'
  <2>1. /\ passkeys' = [passkeys EXCEPT ![k] = [passkeys[k] EXCEPT !.regressed = "no"]]
        /\ alarms' = [alarms EXCEPT ![k] = 0]
    BY <1>5, DayRow
  <2>2. \A i \in Key \ {k} : passkeys'[i] = passkeys[i] /\ alarms'[i] = alarms[i]
    BY <1>1, <2>1
  <2>3. alarms'[k] = 0
    BY <1>1, <2>1
  <2> QED  BY <1>1, <2>2, <2>3 DEF AlarmInv, RegressionKept, SecondAlarmRevokes
<1> QED  BY <1>2, <1>3, <1>4, <1>5, Steps

\* Two regressions within a day revoke a passkey, since the first is committed.
THEOREM TwoAlarms == Spec => []SecondAlarmRevokes
<1>1. Init => AlarmInv
  BY DEF Init, AlarmInv, RegressionKept, SecondAlarmRevokes
<1>2. Typed /\ AlarmInv /\ [Next]_vars => AlarmInv'
  BY AlarmStep DEF vars, AlarmInv, RegressionKept, SecondAlarmRevokes
<1>3. AlarmInv => SecondAlarmRevokes
  BY DEF AlarmInv
<1> QED  BY <1>1, <1>2, <1>3, TypedAlways, PTL DEF Spec

----------------------------------------------------------------------------

\* What makes counts increase: the highest one is on record.
ReplayInv == CountKept /\ NoReplay

\* A row that keeps its device and does not lower its count.
Forward(k) ==
  /\ passkeys'[k] # Absent
  /\ passkeys'[k].device = passkeys[k].device
  /\ passkeys'[k].count = passkeys[k].count

\* What is known of the answers that opened sessions.
LEMMA OpenedType ==
  ASSUME Typed
  PROVE  /\ opened \in Seq([key : Key, count : Count]) /\ Len(opened) \in Nat
         /\ \A i \in 1 .. Len(opened) : opened[i].key \in Key /\ opened[i].count \in Nat
<1> DEFINE Answer == [key : Key, count : Count]
<1>1. opened \in Seq(Answer) /\ Len(opened) \in Nat
  BY DEF Typed, TypeOK
<1>2. ASSUME NEW S, opened \in Seq(S) PROVE \A i \in 1 .. Len(opened) : opened[i] \in S
  BY <1>2
<1>3. \A a \in Answer : a.key \in Key /\ a.count \in Nat
  BY ConstantsAssumption DEF Count
<1> QED  BY <1>1, <1>2, <1>3

\* Where no session is opened.
LEMMA NoSession ==
  ASSUME Typed, ReplayInv, UNCHANGED opened,
         \A k \in Key : passkeys[k] # Absent => Forward(k)
  PROVE  ReplayInv'
<1>1. opened \in Seq([key : Key, count : Count]) /\ Len(opened) \in Nat
  BY OpenedType
<1>2. \A i \in 1 .. Len(opened) : opened[i].key \in Key /\ passkeys[opened[i].key] # Absent
  BY OpenedType DEF ReplayInv, CountKept
<1>3. \A i \in 1 .. Len(opened) : Forward(opened[i].key)
  BY <1>2
<1>4. CountKept'
  BY <1>3 DEF ReplayInv, CountKept, Forward
<1>5. NoReplay'
  BY <1>1, <1>3 DEF ReplayInv, NoReplay, Forward
<1> QED  BY <1>4, <1>5 DEF ReplayInv

\* Arithmetic: a count that is no regression is higher, or both are zero.
LEMMA NoRegression ==
  ASSUME NEW n \in Nat, NEW stored \in Nat, ~Regressed(n, stored)
  PROVE  stored < n \/ (stored = 0 /\ n = 0)
BY DEF Regressed

\* Where one is opened.
LEMMA OneSession ==
  ASSUME Typed, ReplayInv, NEW s \in Slot, SignIn(s)
  PROVE  ReplayInv'
<1>1. PICK k \in Key, n \in Count :
        /\ IsActive(k) /\ ~IsAlarm(k, n)
        /\ passkeys[k] \in Passkey
        /\ passkeys' = [passkeys EXCEPT ![k] = [passkeys[k] EXCEPT !.count = n]]
        /\ opened' = Append(opened, [key |-> k, count |-> n])
  BY SignInRow
<1> DEFINE L == Len(opened)
<1>2. /\ opened \in Seq([key : Key, count : Count]) /\ L \in Nat
      /\ passkeys \in [Key -> Passkey \cup {Absent}]
  BY DEF Typed, TypeOK
<1>3. \A i \in 1 .. L : /\ opened[i].key \in Key
                        /\ opened[i].count \in Nat
                        /\ passkeys[opened[i].key] \in Passkey
                        /\ passkeys[opened[i].key].device = "single" =>
                             opened[i].count <= passkeys[opened[i].key].count
  BY OpenedType, RowType DEF ReplayInv, CountKept, Typed
<1>4. /\ Len(opened') = L + 1
      /\ \A i \in 1 .. L : opened'[i] = opened[i]
      /\ opened'[L + 1] = [key |-> k, count |-> n]
  BY <1>1, <1>2
<1>5. /\ n \in Nat /\ passkeys[k].count \in Nat
      /\ passkeys'[k] \in Passkey
      /\ passkeys'[k].count = n /\ passkeys'[k].device = passkeys[k].device
      /\ \A i \in Key \ {k} : passkeys'[i] = passkeys[i]
  BY <1>1, <1>2 DEF Passkey, Count
<1>6. passkeys[k].device = "single" =>
        passkeys[k].count < n \/ (passkeys[k].count = 0 /\ n = 0)
  BY <1>1, <1>5, NoRegression DEF IsAlarm
<1>7. ASSUME NEW i \in 1 .. L, opened[i].key = k, passkeys[k].device = "single"
      PROVE  opened[i].count <= n /\ (opened[i].count < n \/ (opened[i].count = 0 /\ n = 0))
  BY <1>3, <1>5, <1>6, <1>7
<1>8. \A i \in 1 .. L + 1 : i \in 1 .. L \/ i = L + 1
  BY <1>2
<1>9. CountKept'
  <2>1. ASSUME NEW i \in 1 .. L
        PROVE  /\ passkeys'[opened'[i].key] # Absent
               /\ passkeys'[opened'[i].key].device = "single" =>
                    opened'[i].count <= passkeys'[opened'[i].key].count
    <3>1. CASE opened[i].key = k
      BY <1>4, <1>5, <1>7, <3>1, RowIsThere
    <3>2. CASE opened[i].key # k
      BY <1>3, <1>4, <1>5, <3>2, RowIsThere
    <3> QED  BY <3>1, <3>2
  <2>2. /\ passkeys'[opened'[L + 1].key] # Absent
        /\ opened'[L + 1].count <= passkeys'[opened'[L + 1].key].count
    BY <1>4, <1>5, RowIsThere
  <2> HIDE DEF L
  <2> QED  BY <1>4, <1>8, <2>1, <2>2 DEF CountKept
<1>10. NoReplay'
  <2>1. ASSUME NEW j \in 1 .. L, NEW i \in 1 .. j - 1,
               opened'[i].key = opened'[j].key, passkeys'[opened'[i].key].device = "single"
        PROVE  \/ opened'[i].count < opened'[j].count
               \/ opened'[i].count = 0 /\ opened'[j].count = 0
    <3>1. i \in 1 .. L /\ opened'[i] = opened[i] /\ opened'[j] = opened[j]
      BY <1>2, <1>4
    <3>2. passkeys[opened[i].key].device = "single"
      BY <1>3, <1>5, <2>1, <3>1
    <3> QED  BY <1>2, <2>1, <3>1, <3>2 DEF ReplayInv, NoReplay
  <2>2. ASSUME NEW i \in 1 .. L,
               opened'[i].key = k, passkeys'[k].device = "single"
        PROVE  opened'[i].count < n \/ (opened'[i].count = 0 /\ n = 0)
    BY <1>4, <1>5, <1>7, <2>2
  <2>3. \A i \in 1 .. (L + 1) - 1 : i \in 1 .. L
    BY <1>2
  <2> HIDE DEF L
  <2>4. ASSUME NEW j \in 1 .. L + 1, NEW i \in 1 .. j - 1,
               opened'[i].key = opened'[j].key, passkeys'[opened'[i].key].device = "single"
        PROVE  \/ opened'[i].count < opened'[j].count
               \/ opened'[i].count = 0 /\ opened'[j].count = 0
    <3>1. CASE j \in 1 .. L
      BY <2>1, <2>4, <3>1
    <3>2. CASE j = L + 1
      BY <1>4, <2>2, <2>3, <2>4, <3>2
    <3> QED  BY <1>8, <3>1, <3>2
  <2> QED  BY <1>4, <2>4 DEF NoReplay
<1> QED  BY <1>9, <1>10 DEF ReplayInv

\* The counts of a single-device passkey's sessions increase, although one
\* challenge may serve several requests.
THEOREM RepliesServeOnce == Spec => []NoReplay
<1>1. Init => ReplayInv
  BY DEF Init, ReplayInv, CountKept, NoReplay
<1>2. ASSUME Typed, ReplayInv, Next PROVE ReplayInv'
  <2>1. CASE Quiet
    BY <1>2, <2>1, QuietRows, NoSession DEF Forward
  <2>2. ASSUME NEW s \in Slot, Alarm(s) PROVE ReplayInv'
    <3>1. PICK k \in Key :
            /\ passkeys[k] \in Passkey
            /\ passkeys' = [passkeys EXCEPT ![k] = Alarmed(passkeys[k])]
            /\ UNCHANGED opened
      BY <1>2, <2>2, AlarmRow
    <3>2. \A i \in Key : passkeys[i] # Absent => Forward(i)
      BY <1>2, <3>1, AlarmedRow, RowIsThere DEF Forward, Typed, TypeOK
    <3> QED  BY <1>2, <3>1, <3>2, NoSession
  <2>3. ASSUME NEW k \in Key, DayPasses(k) PROVE ReplayInv'
    <3>1. [passkeys[k] EXCEPT !.regressed = "no"] \in Passkey
      BY <1>2, <2>3, DayRow DEF Passkey
    <3>2. /\ [passkeys[k] EXCEPT !.regressed = "no"].count = passkeys[k].count
          /\ [passkeys[k] EXCEPT !.regressed = "no"].device = passkeys[k].device
      BY <1>2, <2>3, DayRow DEF Passkey
    <3>3. \A i \in Key : passkeys[i] # Absent => Forward(i)
      BY <1>2, <2>3, <3>1, <3>2, DayRow, RowIsThere DEF Forward, Typed, TypeOK
    <3> QED  BY <1>2, <2>3, <3>3, DayRow, NoSession
  <2> QED  BY <1>2, <2>1, <2>2, <2>3, OneSession, Steps
<1>3. ASSUME ReplayInv, UNCHANGED vars PROVE ReplayInv'
  BY <1>3 DEF vars, ReplayInv, CountKept, NoReplay
<1>4. ReplayInv => NoReplay
  BY DEF ReplayInv
<1> QED  BY <1>1, <1>2, <1>3, <1>4, TypedAlways, PTL DEF Spec

----------------------------------------------------------------------------
(* The section of the settings page.                                       *)

\* What the server has made of a call, once it has taken it.
Answers == {Page!Idle, [at |-> "done"], [at |-> "refused"]}

\* The types that the page's TypeOK leaves open.
PageTyped ==
  /\ kept \in Page!Kept /\ made \subseteq Key /\ DOMAIN kept \subseteq made
  /\ query \in [shown : Page!Kept \cup {Null},
                fetch : {Page!Idle, Page!Asked} \cup [at : {"answered"}, list : Page!Kept]]
  /\ dialog \in [kind : {"none"} \cup Page!Kind, key : Key \cup {Null}]
  /\ call = [k \in Page!Kind |-> call[k]]
  /\ call["add"] \in Answers \cup [at : {"sent"}, name : Label]
  /\ call["rename"] \in Answers \cup [at : {"sent"}, key : Key \cup {Null}, name : Label]
  /\ call["revoke"] \in Answers \cup [at : {"sent"}, key : Key \cup {Null}]
  /\ missed \in BOOLEAN

\* No change has been made that the page has not heard of.
Heard == ~missed /\ \A k \in Page!Kind : call[k].at # "done"

\* What is shown, or is on its way, is as old as the latest change.
UpToDate ==
  Heard => /\ query.fetch = Page!Idle => query.shown = kept
           /\ query.fetch.at = "answered" => query.fetch.list = kept

PageInv == PageTyped /\ UpToDate

\* A list of passkeys is a function on some of the keys.
LEMMA KeptIsFunction ==
  /\ \A f \in Page!Kept : DOMAIN f \subseteq Key /\ f \in [DOMAIN f -> Page!Passkey]
  /\ \A K \in SUBSET Key : [K -> Page!Passkey] \subseteq Page!Kept
BY DEF Page!Kept

\* Every call has an at.
LEMMA CallAt ==
  ASSUME PageTyped
  PROVE  \A k \in Page!Kind : call[k].at \in {"idle", "sent", "done", "refused"}
BY DEF PageTyped, Answers, Page!Kind, Page!Idle

\* These types are those of PasskeysSection, and finer.
LEMMA PageTypes == PageTyped => Page!TypeOK
BY CallAt DEF PageTyped, Page!TypeOK, Page!Asked, Page!Idle

\* The page opens without a list and asks for one.
LEMMA PageInit == Page!Init => PageInv
<1> SUFFICES ASSUME Page!Init PROVE PageInv
  OBVIOUS
<1>1. DOMAIN kept \subseteq Key
  BY KeptIsFunction DEF Page!Init
<1>2. PageTyped
  BY <1>1 DEF Page!Init, PageTyped, Answers, Page!Kind, Page!NoDialog
<1>3. UpToDate
  BY DEF Page!Init, UpToDate, Page!Asked, Page!Idle
<1> QED  BY <1>2, <1>3 DEF PageInv

\* A dialog is opened or closed.
LEMMA DialogStep ==
  ASSUME PageInv, UNCHANGED <<kept, made, query, call, missed>>,
         dialog' \in [kind : {"none"} \cup Page!Kind, key : Key \cup {Null}]
  PROVE  PageInv'
BY DEF PageInv, PageTyped, UpToDate, Heard

\* Dialogs open at a row that is listed, and close.
LEMMA OpenStep ==
  ASSUME PageInv, Page!OpenAdd \/ Page!OpenRename \/ Page!OpenRevoke \/ Page!Close PROVE PageInv'
<1>1. \A k \in Page!Listed : k \in Key
  BY KeptIsFunction DEF PageInv, PageTyped, Page!Listed
<1>2. dialog' \in [kind : {"none"} \cup Page!Kind, key : Key \cup {Null}]
  BY <1>1 DEF Page!OpenAdd, Page!OpenRename, Page!OpenRevoke, Page!Close, Page!Open, Page!NoDialog, Page!Kind
<1>3. UNCHANGED <<kept, made, query, call, missed>>
  BY DEF Page!OpenAdd, Page!OpenRename, Page!OpenRevoke, Page!Close, Page!Open
<1> QED  BY <1>2, <1>3, DialogStep

\* A call that changes hands without a change being made.
LEMMA CallStep ==
  ASSUME PageInv, UNCHANGED <<kept, made, query, dialog, missed>>,
         NEW kind \in Page!Kind, NEW c, c.at # "done",
         call[kind].at # "done",
         call' = [call EXCEPT ![kind] = c],
         kind = "add" => c \in Answers \cup [at : {"sent"}, name : Label],
         kind = "rename" => c \in Answers \cup [at : {"sent"}, key : Key \cup {Null}, name : Label],
         kind = "revoke" => c \in Answers \cup [at : {"sent"}, key : Key \cup {Null}]
  PROVE  PageInv'
<1>1. call' = [k \in Page!Kind |-> call'[k]] /\ \A k \in Page!Kind : call'[k] = IF k = kind THEN c ELSE call[k]
  BY DEF PageInv, PageTyped
<1>2. PageTyped'
  BY <1>1 DEF PageInv, PageTyped, Page!Kind
<1>3. Heard' => Heard
  BY <1>1 DEF Heard
<1>4. UpToDate'
  BY <1>3 DEF PageInv, UpToDate
<1> QED  BY <1>2, <1>4 DEF PageInv

\* The server has made a change, and its answer is on the way.
LEMMA ChangeStep ==
  ASSUME PageInv, NEW kind \in Page!Kind, Page!Done(kind), UNCHANGED <<query, dialog, missed>>,
         kept' \in Page!Kept, made' \subseteq Key, DOMAIN kept' \subseteq made'
  PROVE  PageInv'
<1>1. call' = [k \in Page!Kind |-> call'[k]]
      /\ \A k \in Page!Kind : call'[k] = IF k = kind THEN [at |-> "done"] ELSE call[k]
  BY DEF PageInv, PageTyped, Page!Done
<1>2. PageTyped'
  BY <1>1 DEF PageInv, PageTyped, Page!Kind, Answers
<1>3. ~Heard'
  BY <1>1 DEF Heard
<1> QED  BY <1>2, <1>3 DEF PageInv, UpToDate

\* Fewer passkeys are a list of passkeys.
LEMMA WithoutIsKept ==
  ASSUME kept \in Page!Kept, NEW K
  PROVE  Page!Without(K) \in Page!Kept /\ DOMAIN Page!Without(K) = DOMAIN kept \ K
<1>1. DOMAIN kept \ K \subseteq Key /\ \A k \in DOMAIN kept : kept[k] \in Page!Passkey
  BY KeptIsFunction
<1>2. Page!Without(K) \in [DOMAIN kept \ K -> Page!Passkey]
  BY <1>1 DEF Page!Without
<1> QED  BY <1>1, <1>2, KeptIsFunction

\* A new passkey takes its place among those that stay.
LEMMA RegisteredStep ==
  ASSUME PageInv, NEW verifies \in BOOLEAN, NEW touch \in BOOLEAN, Page!Registered(verifies, touch)
  PROVE  PageInv'
<1>1. call["add"].name \in Label
  BY DEF Page!Registered, PageInv, PageTyped, Answers, Page!Idle
<1> DEFINE rest == IF verifies THEN Page!Without({o \in DOMAIN kept : kept[o].touch}) ELSE kept
<1>2. PICK k \in Key \ made :
        /\ kept' = [o \in DOMAIN rest \cup {k} |->
                       IF o = k THEN [name |-> call["add"].name, touch |-> touch] ELSE rest[o]]
        /\ made' = made \cup {k}
  BY DEF Page!Registered
<1>0. kept \in Page!Kept /\ DOMAIN kept \subseteq made
  BY DEF PageInv, PageTyped
<1>3. rest \in Page!Kept /\ DOMAIN rest \subseteq made
  <2> DEFINE K == {o \in DOMAIN kept : kept[o].touch}
  <2>1. Page!Without(K) \in Page!Kept /\ DOMAIN Page!Without(K) = DOMAIN kept \ K
    <3> HIDE DEF K
    <3> QED  BY <1>0, WithoutIsKept
  <2> QED  BY <1>0, <2>1
<1>4. [name |-> call["add"].name, touch |-> touch] \in Page!Passkey
  BY <1>1 DEF Page!Passkey
<1>5. DOMAIN rest \subseteq Key /\ \A o \in DOMAIN rest : rest[o] \in Page!Passkey
  BY <1>3, KeptIsFunction
<1>6. kept' \in [DOMAIN rest \cup {k} -> Page!Passkey] /\ DOMAIN rest \cup {k} \in SUBSET Key
  BY <1>2, <1>4, <1>5
<1>7. kept' \in Page!Kept /\ DOMAIN kept' = DOMAIN rest \cup {k}
  BY <1>6, KeptIsFunction
<1>8. made' \subseteq Key /\ DOMAIN kept' \subseteq made'
  BY <1>2, <1>3, <1>7 DEF PageInv, PageTyped
<1> QED  BY <1>7, <1>8, ChangeStep DEF Page!Registered, Page!Kind

\* A passkey that is kept has another name.
LEMMA RenamedStep == ASSUME PageInv, Page!Renamed PROVE PageInv'
<1>1. call["rename"].name \in Label
  BY DEF Page!Renamed, PageInv, PageTyped, Answers, Page!Idle
<1>2. DOMAIN kept \subseteq Key /\ kept \in [DOMAIN kept -> Page!Passkey] /\ call["rename"].key \in DOMAIN kept
  BY KeptIsFunction DEF Page!Renamed, PageInv, PageTyped
<1>3. [kept[call["rename"].key] EXCEPT !.name = call["rename"].name] \in Page!Passkey
  BY <1>1, <1>2 DEF Page!Passkey
<1>4. kept' \in [DOMAIN kept -> Page!Passkey]
  BY <1>2, <1>3 DEF Page!Renamed
<1>5. kept' \in Page!Kept /\ DOMAIN kept' = DOMAIN kept
  BY <1>2, <1>4, KeptIsFunction
<1> QED  BY <1>5, ChangeStep DEF Page!Renamed, Page!Kind, PageInv, PageTyped

\* A passkey is kept no longer.
LEMMA SectionRevokedStep == ASSUME PageInv, Page!Revoked PROVE PageInv'
<1>1. kept' \in Page!Kept /\ DOMAIN kept' \subseteq DOMAIN kept
  <2> DEFINE K == {call["revoke"].key}
  <2>1. Page!Without(K) \in Page!Kept /\ DOMAIN Page!Without(K) = DOMAIN kept \ K
    <3>1. kept \in Page!Kept
      BY DEF PageInv, PageTyped
    <3> HIDE DEF K
    <3> QED  BY <3>1, WithoutIsKept
  <2> QED  BY <2>1 DEF Page!Revoked
<1> QED  BY <1>1, ChangeStep DEF Page!Revoked, Page!Kind, PageInv, PageTyped

\* Where a dialog's button may be pressed, what it sends is well typed.
LEMMA SendStep == ASSUME PageInv, Page!Enroll \/ Page!Rename \/ Page!Revoke PROVE PageInv'
<1>0. dialog.key \in Key \cup {Null} /\ Page!Idle.at # "done"
  BY DEF PageInv, PageTyped, Page!Idle
<1>1. CASE Page!Enroll
  <2>1. PICK n \in Label : Page!Send("add", [at |-> "sent", name |-> n])
    BY <1>1 DEF Page!Enroll
  <2>2. [at |-> "sent", name |-> n] \in [at : {"sent"}, name : Label]
    OBVIOUS
  <2> QED  BY <1>0, <2>1, <2>2, CallStep DEF Page!Send, Page!Kind
<1>2. CASE Page!Rename
  <2>1. PICK n \in Label : Page!Send("rename", [at |-> "sent", key |-> dialog.key, name |-> n])
    BY <1>2 DEF Page!Rename
  <2>2. [at |-> "sent", key |-> dialog.key, name |-> n] \in [at : {"sent"}, key : Key \cup {Null}, name : Label]
    BY <1>0
  <2> QED  BY <1>0, <2>1, <2>2, CallStep DEF Page!Send, Page!Kind
<1>3. CASE Page!Revoke
  <2>1. [at |-> "sent", key |-> dialog.key] \in [at : {"sent"}, key : Key \cup {Null}]
    BY <1>0
  <2> QED  BY <1>0, <1>3, <2>1, CallStep DEF Page!Revoke, Page!Send, Page!Kind
<1> QED  BY <1>1, <1>2, <1>3

\* The server turns a call down.
LEMMA RefusedStep == ASSUME PageInv, NEW kind \in Page!Kind, Page!Refused(kind) PROVE PageInv'
<1>1. call[kind].at # "done" /\ [at |-> "refused"].at # "done"
  BY DEF Page!Refused
<1> QED  BY <1>1, CallStep DEF Page!Refused, Answers

\* A call is over.
LEMMA CallEnds ==
  ASSUME PageInv, NEW kind \in Page!Kind, call' = [call EXCEPT ![kind] = Page!Idle]
  PROVE  /\ call' = [k \in Page!Kind |-> call'[k]]
         /\ \A k \in Page!Kind : call'[k] = IF k = kind THEN Page!Idle ELSE call[k]
BY DEF PageInv, PageTyped

\* The answer to a change asks for the list anew.
LEMMA SucceedStep == ASSUME PageInv, NEW kind \in Page!Kind, Page!Succeed(kind) PROVE PageInv'
<1>1. query' = [shown |-> query.shown, fetch |-> Page!Asked]
  BY DEF Page!Succeed, Page!Refetched, PageInv, PageTyped
<1>2. query' \in [shown : Page!Kept \cup {Null},
                  fetch : {Page!Idle, Page!Asked} \cup [at : {"answered"}, list : Page!Kept]]
  BY <1>1 DEF PageInv, PageTyped
<1>3. dialog' \in [kind : {"none"} \cup Page!Kind, key : Key \cup {Null}]
  BY DEF Page!Succeed, PageInv, PageTyped, Page!NoDialog
<1>4. PageTyped'
  BY <1>2, <1>3, CallEnds DEF Page!Succeed, PageInv, PageTyped, Page!Kind, Answers
<1>5. UpToDate'
  BY <1>1 DEF UpToDate, Page!Asked, Page!Idle
<1> QED  BY <1>4, <1>5 DEF PageInv

\* An answer that is lost is remembered, if it told of a change.
LEMMA FailStep == ASSUME PageInv, NEW kind \in Page!Kind, Page!Fail(kind) PROVE PageInv'
<1>1. PageTyped'
  BY CallEnds DEF Page!Fail, PageInv, PageTyped, Page!Kind, Answers
<1>2. Heard' => Heard
  BY CallEnds DEF Page!Fail, Heard
<1>3. UpToDate'
  BY <1>2 DEF Page!Fail, PageInv, UpToDate
<1> QED  BY <1>1, <1>3 DEF PageInv

\* A list is taken, arrives or is lost.
LEMMA FetchStep == ASSUME PageInv, Page!ServeFetch \/ Page!Deliver \/ Page!LoseFetch PROVE PageInv'
<1>1. CASE Page!ServeFetch
  <2>1. query' = [shown |-> query.shown, fetch |-> [at |-> "answered", list |-> kept]]
    BY <1>1 DEF Page!ServeFetch, PageInv, PageTyped
  <2>2. [at |-> "answered", list |-> kept] \in [at : {"answered"}, list : Page!Kept]
    BY DEF PageInv, PageTyped
  <2>3. query' \in [shown : Page!Kept \cup {Null},
                    fetch : {Page!Idle, Page!Asked} \cup [at : {"answered"}, list : Page!Kept]]
    BY <2>1, <2>2 DEF PageInv, PageTyped
  <2>4. PageTyped'
    BY <1>1, <2>3 DEF Page!ServeFetch, PageInv, PageTyped
  <2>5. UpToDate'
    BY <1>1, <2>1 DEF Page!ServeFetch, UpToDate, Page!Idle
  <2> QED  BY <2>4, <2>5 DEF PageInv
<1> USE DEF PageInv, PageTyped, UpToDate, Heard, Page!Asked, Page!Idle
<1>2. CASE Page!Deliver
  BY <1>2 DEF Page!Deliver
<1>3. CASE Page!LoseFetch
  <2>1. query' = [shown |-> query.shown, fetch |-> Page!Idle]
    BY <1>3 DEF Page!LoseFetch
  <2> QED  BY <1>3, <2>1 DEF Page!LoseFetch
<1> QED  BY <1>1, <1>2, <1>3

\* Every step of the page keeps the list as old as the latest change heard of.
LEMMA PageStep == PageInv /\ [Page!Next]_Page!vars => PageInv'
<1> SUFFICES ASSUME PageInv, [Page!Next]_Page!vars PROVE PageInv'
  OBVIOUS
<1>1. CASE UNCHANGED Page!vars
  BY <1>1 DEF Page!vars, PageInv, PageTyped, UpToDate, Heard
<1> QED
  BY <1>1, OpenStep, SendStep, RegisteredStep, RenamedStep, SectionRevokedStep, RefusedStep, SucceedStep,
     FailStep, FetchStep DEF Page!Next

\* At rest the list is what is kept, and its length tells whether a passkey is the last.
LEMMA PageShows == PageInv => Page!ShownAsKept
<1> SUFFICES ASSUME PageInv, Page!Quiet PROVE
        /\ query.shown = kept
        /\ dialog.key \in DOMAIN kept => (Page!SaysLast <=> DOMAIN kept = {dialog.key})
  BY DEF Page!ShownAsKept
<1>1. query.shown = kept
  BY DEF Page!Quiet, PageInv, UpToDate, Heard, Page!Idle
<1>2. Page!Listed = DOMAIN kept
  BY <1>1, PageAssumption DEF Page!Listed, PageInv, PageTyped
<1>3. IsFiniteSet(DOMAIN kept)
  BY KeptIsFunction, PageAssumption, FS_Subset DEF PageInv, PageTyped
<1>4. Cardinality(DOMAIN kept) = 1 <=> \E x : DOMAIN kept = {x}
  BY <1>3, FS_Singleton
<1>5. Page!Cardinality(DOMAIN kept) = Cardinality(DOMAIN kept)
  BY DEF Page!Cardinality, Cardinality
<1> QED  BY <1>1, <1>2, <1>4, <1>5 DEF Page!SaysLast

\* However the user's dialogs, the calls and the lists overlap: once nothing is
\* under way and nothing was missed, the settings page lists the passkeys that
\* are kept, and it says of a passkey that it is the last one exactly when it is.
THEOREM PageIsTold == SpecEither => []ShownAsKept
<1> DEFINE Inv == at = "page" => PageInv
<1>1. InitEither => Inv
  BY PageInit DEF InitEither
<1>2. Inv /\ [NextEither]_<<at, vars, pageVars>> => Inv'
  <2> SUFFICES ASSUME PageInv, [Page!Next]_Page!vars PROVE PageInv'
    BY DEF NextEither, pageVars, Page!vars
  <2> QED  BY PageStep
<1>3. Inv => ShownAsKept
  BY PageTypes, PageShows DEF PageInv, ShownAsKept
<1> QED  BY <1>1, <1>2, <1>3, PTL DEF SpecEither
=============================================================================
