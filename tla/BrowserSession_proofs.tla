--------------------------- MODULE BrowserSession_proofs ---------------------------
(***************************************************************************)
(* Proofs about BrowserSession, for any tabs, calls in flight and faults.  *)
(* One invariant for each property, all of them relative to Typed.         *)
(***************************************************************************)
EXTENDS BrowserSession, FiniteSetTheorems, TLAPS

\* A nonempty set of numbers has a least one.
LEMMA EarliestIs ==
  ASSUME NEW S \in SUBSET Nat, S # {}
  PROVE  Earliest(S) \in S /\ \A r \in S : Earliest(S) <= r
<1>1. IsWellFoundedOn(OpToRel(<, Nat), Nat)
  BY NatLessThanWellFounded
<1>2. PICK x \in S : \A y \in S : ~ (<<y, x>> \in OpToRel(<, Nat))
  BY <1>1, WFMin
<1>3. \A y \in S : ~ (y < x)
  BY <1>2 DEF OpToRel
<1>4. \A y \in S : x <= y
  BY <1>3
<1> QED  BY <1>4 DEF Earliest

----------------------------------------------------------------------------
(* Types.                                                                  *)

\* A call that asks for tokens, or has been given some, goes with a session.
Carries(r) == r.phase \in {"asking", "renewed"} \/ (r.phase = "ok" /\ r.kind = "login")
Entry == {r \in Busy : Carries(r) => r.token # None} \cup {Idle}

\* TypeOK, and: whatever is stored or goes with a call has been issued.
Issued == \A s \in HeldBy(stored, call) : s # None => server[s] # "unissued"
Typed ==
  /\ server \in [Session -> Worth]
  /\ stored \in Session \cup {None}
  /\ ui \in [Tab -> Shown]
  /\ flag \in [Tab -> {"free", "taken"}]
  /\ call \in [Call -> Entry]
  /\ faults \in 0 .. MaxFaults
  /\ cause \in {"none", "some"}
  /\ left \in {"in", "out"}
  /\ Issued

LEMMA TypedIsTypeOK == Typed => TypeOK
<1> SUFFICES ASSUME Typed PROVE TypeOK
  OBVIOUS
<1>1. stored = None \/ server[stored] \in {"good", "stale", "dead"}
  BY DEF Typed, Issued, HeldBy, Worth
<1>2. \A c \in Call : IsBusy(c) => call[c] \in Busy
  BY DEF Typed, Entry, IsBusy
<1> QED  BY <1>1, <1>2 DEF Typed, TypeOK

\* None stands for no session.
LEMMA NoneIsNoSession == None \notin Session
BY ConstantsAssumption DEF None, Session

\* Where fewer calls than sessions hold tokens, one session is free.
LEMMA FreshIs ==
  ASSUME Typed, NEW c \in Call
  PROVE  /\ Fresh(c) \in Session
         /\ Fresh(c) \notin HeldBy(stored, [call EXCEPT ![c] = Idle])
<1> DEFINE cl == [call EXCEPT ![c] = Idle]
           H == HeldBy(stored, cl)
           f == [b \in Call |-> IF cl[b] # Idle THEN cl[b].token ELSE stored]
<1>1. MaxCalls \in Nat /\ MaxCalls > 0
  BY ConstantsAssumption
<1>2. IsFiniteSet(Call) /\ Cardinality(Call) = MaxCalls
  BY <1>1, FS_Interval DEF Call
<1>3. IsFiniteSet(Session) /\ Cardinality(Session) = MaxCalls + 1
  BY <1>1, FS_Interval DEF Session
<1>4. cl[c] = Idle
  BY DEF Typed
<1>5. f \in Surjection(Call, H)
  <2>1. f \in [Call -> H]
    BY DEF HeldBy
  <2>2. \A s \in H : \E b \in Call : f[b] = s
    BY <1>4 DEF HeldBy
  <2> QED  BY <2>1, <2>2 DEF Surjection
<1>6. IsFiniteSet(H) /\ Cardinality(H) <= MaxCalls
  <2> HIDE DEF f, H
  <2> QED  BY <1>2, <1>5, FS_Surjection
<1>7. Session \ H # {}
  <2> SUFFICES ASSUME Session \in SUBSET H PROVE FALSE
    OBVIOUS
  <2>1. Cardinality(Session) <= Cardinality(H)
    BY <1>6, FS_Subset
  <2>2. Cardinality(H) \in Nat
    BY <1>6, FS_CardinalityType
  <2> QED  BY <1>1, <1>3, <1>6, <2>1, <2>2
<1>8. Session \ H \in SUBSET Nat
  BY <1>1 DEF Session
<1>9. Fresh(c) = Earliest(Session \ H)
  BY DEF Fresh
<1> HIDE DEF H
<1>10. Fresh(c) \in Session \ H
  BY <1>7, <1>8, <1>9, EarliestIs
<1> QED  BY <1>10 DEF H

\* What a call in flight is.
LEMMA BusyFields ==
  ASSUME Typed, NEW c \in Call, IsBusy(c)
  PROVE  /\ call[c] \in Busy /\ (Carries(call[c]) => call[c].token # None)
         /\ call[c].tab \in Tab /\ call[c].kind \in Kind /\ call[c].phase \in Phase
         /\ call[c].token \in Session \cup {None} /\ call[c].turn \in {"first", "retry"}
         /\ call[c].token \in HeldBy(stored, call)
<1>1. call[c] \in Entry /\ call[c] # Idle
  BY DEF Typed, IsBusy
<1>2. call[c] \in Busy /\ (Carries(call[c]) => call[c].token # None)
  BY <1>1 DEF Entry
<1>3. call[c].token \in HeldBy(stored, call)
  BY <1>1 DEF HeldBy
<1> QED  BY <1>2, <1>3 DEF Busy

\* A call with a phase that is not "idle" is in flight.
LEMMA InPhase == ASSUME NEW c \in Call, call[c].phase # "idle" PROVE IsBusy(c)
BY DEF IsBusy, Idle

\* One entry changes.
LEMMA PutIs ==
  ASSUME Typed, NEW c \in Call, NEW r \in Entry, call' = [call EXCEPT ![c] = r]
  PROVE  /\ call' \in [Call -> Entry]
         /\ \A b \in Call : call'[b] = IF b = c THEN r ELSE call[b]
BY DEF Typed

\* The entry that Answered makes: the call is over, or has its answer.
LEMMA AnsweredIs ==
  ASSUME Typed, NEW c \in Call, IsBusy(c), NEW phase \in {"ok", "denied", "failed"}, Answered(c, phase),
         phase = "ok" => call[c].kind # "login"
  PROVE  \E r \in Entry :
           /\ call' = [call EXCEPT ![c] = r]
           /\ \/ r = Idle /\ call[c].kind = "data" /\ phase # "denied"
              \/ /\ r \in Busy /\ r.tab = call[c].tab /\ r.kind = call[c].kind
                 /\ r.phase = phase /\ r.token = None
<1> DEFINE r == IF call[c].kind = "data" /\ phase # "denied" THEN Idle
                ELSE [call[c] EXCEPT !.phase = phase, !.token = None, !.turn = "first"]
<1>1. call' = [call EXCEPT ![c] = r]
  BY DEF Answered, Typed
<1>2. CASE call[c].kind = "data" /\ phase # "denied"
  BY <1>1, <1>2 DEF Entry
<1>3. CASE ~(call[c].kind = "data" /\ phase # "denied")
  <2>1. r = [call[c] EXCEPT !.phase = phase, !.token = None, !.turn = "first"]
    BY <1>3
  <2>2. /\ r \in Busy /\ r.tab = call[c].tab /\ r.kind = call[c].kind
        /\ r.phase = phase /\ r.token = None
    BY <2>1, BusyFields DEF Busy, Phase
  <2>3. r \in Entry
    BY <2>2 DEF Entry, Carries
  <2> QED  BY <1>1, <2>2, <2>3
<1> QED  BY <1>2, <1>3

\* The entry of a call whose refresh came to nothing.
LEMMA RefusalIs ==
  ASSUME Typed, NEW c \in Call, IsBusy(c), Refusal(c)
  PROVE  \E r \in Entry :
           /\ call' = [call EXCEPT ![c] = r]
           /\ r \in Busy /\ r.tab = call[c].tab /\ r.kind = call[c].kind
           /\ r.phase = "refused" /\ r.token = None
<1> DEFINE r == [call[c] EXCEPT !.phase = "refused", !.token = None]
<1>1. call' = [call EXCEPT ![c] = r]
  BY DEF Refusal, Typed
<1>2. /\ r \in Busy /\ r.tab = call[c].tab /\ r.kind = call[c].kind
      /\ r.phase = "refused" /\ r.token = None
  BY BusyFields DEF Busy, Phase
<1>3. r \in Entry
  BY <1>2 DEF Entry, Carries
<1> QED  BY <1>1, <1>2, <1>3

\* The entry of a call that is given the tokens of a new session.
LEMMA IssueIs ==
  ASSUME Typed, NEW c \in Call, IsBusy(c), NEW phase \in {"ok", "renewed"}, NEW w, Issue(c, phase, w)
  PROVE  \E r \in Entry :
           /\ call' = [call EXCEPT ![c] = r]
           /\ r \in Busy /\ r.tab = call[c].tab /\ r.kind = call[c].kind
           /\ r.phase = phase /\ r.token = Fresh(c)
<1> DEFINE r == [call[c] EXCEPT !.phase = phase, !.token = Fresh(c)]
<1>1. call' = [call EXCEPT ![c] = r]
  BY DEF Issue, Typed
<1>2. Fresh(c) \in Session /\ Fresh(c) # None
  BY FreshIs, NoneIsNoSession
<1>3. /\ r \in Busy /\ r.tab = call[c].tab /\ r.kind = call[c].kind
      /\ r.phase = phase /\ r.token = Fresh(c)
  BY <1>2, BusyFields DEF Busy, Phase
<1>4. r \in Entry
  BY <1>2, <1>3 DEF Entry
<1> QED  BY <1>1, <1>3, <1>4

\* A call that is sent.
LEMMA SentIs ==
  ASSUME NEW t \in Tab, NEW kind \in Kind, NEW s \in Session \cup {None}, NEW turn \in {"first", "retry"}
  PROVE  /\ Sent(t, kind, s, turn) \in Entry /\ Sent(t, kind, s, turn) \in Busy
         /\ Sent(t, kind, s, turn).tab = t /\ Sent(t, kind, s, turn).kind = kind
         /\ Sent(t, kind, s, turn).phase = "sent" /\ Sent(t, kind, s, turn).token = s
BY DEF Sent, Entry, Busy, Phase, Carries

\* Tokens change hands: nobody holds one that was held by nobody.
LEMMA PutHeld ==
  ASSUME Typed, NEW c \in Call, NEW r \in Entry, call' = [call EXCEPT ![c] = r],
         stored' \in HeldBy(stored, call) \cup {None},
         r = Idle \/ r.token \in HeldBy(stored, call) \cup {None}
  PROVE  HeldBy(stored', call') \subseteq HeldBy(stored, call) \cup {None}
<1>1. \A b \in Call : call'[b] = IF b = c THEN r ELSE call[b]
  BY PutIs
<1>2. \A b \in Call : call'[b] # Idle => call'[b].token \in HeldBy(stored, call) \cup {None}
  BY <1>1 DEF HeldBy
<1> QED  BY <1>2 DEF HeldBy

\* All that is held is a session or nothing.
LEMMA HeldIsSession ==
  ASSUME Typed PROVE HeldBy(stored, call) \subseteq Session \cup {None}
<1>1. \A b \in Call : call[b] # Idle => call[b].token \in Session \cup {None}
  BY BusyFields DEF IsBusy
<1> QED  BY <1>1 DEF HeldBy, Typed

\* What is held afterwards is worth what the step makes of it; the rest is forgotten.
LEMMA WorthsTyped ==
  ASSUME Typed, NEW w \in [Session -> Worth], Worths(w),
         \A s \in Session : server[s] # "unissued" => w[s] # "unissued",
         HeldBy(stored', call') \subseteq HeldBy(stored, call) \cup {None}
  PROVE  server' \in [Session -> Worth] /\ Issued'
<1>1. \A s \in Session : server'[s] = IF s \in HeldBy(stored', call') THEN w[s] ELSE "unissued"
  BY DEF Worths
<1>2. server' \in [Session -> Worth]
  BY DEF Worths, Worth
<1>3. ASSUME NEW s \in HeldBy(stored', call'), s # None PROVE server'[s] # "unissued"
  <2>1. s \in HeldBy(stored, call) /\ s \in Session
    BY <1>3, HeldIsSession
  <2> QED  BY <1>1, <1>3, <2>1 DEF Typed, Issued
<1> QED  BY <1>2, <1>3 DEF Issued

\* A call begins.
LEMMA BeginTyped ==
  ASSUME Typed, NEW c \in Call, NEW t \in Tab, NEW kind \in Kind, Begin(c, t, kind),
         ui' \in [Tab -> Shown], cause' \in {"none", "some"}, left' \in {"in", "out"}
  PROVE  Typed'
<1> DEFINE r == Sent(t, kind, stored, "first")
<1>1. stored \in Session \cup {None}
  BY DEF Typed
<1>2. r \in Entry /\ r.token = stored
  BY <1>1, SentIs
<1>3. call' = [call EXCEPT ![c] = r] /\ UNCHANGED <<server, stored, flag, faults>>
  BY DEF Begin
<1> HIDE DEF r
<1>4. call' \in [Call -> Entry]
  BY <1>2, <1>3, PutIs
<1>5. HeldBy(stored', call') \subseteq HeldBy(stored, call) \cup {None}
  <2>1. stored \in HeldBy(stored, call)
    BY DEF HeldBy
  <2> QED  BY <1>2, <1>3, <2>1, PutHeld
<1>6. Issued'
  BY <1>3, <1>5 DEF Issued, Typed
<1> QED  BY <1>3, <1>4, <1>6 DEF Typed

\* A step that ends with Worths, and changes an entry.
LEMMA PutTyped ==
  ASSUME Typed, NEW c \in Call, NEW r \in Entry, call' = [call EXCEPT ![c] = r],
         stored' \in HeldBy(stored, call) \cup {None},
         r = Idle \/ r.token \in HeldBy(stored, call) \cup {None},
         NEW w \in [Session -> Worth], Worths(w),
         \A s \in Session : server[s] # "unissued" => w[s] # "unissued",
         ui' \in [Tab -> Shown], flag' \in [Tab -> {"free", "taken"}],
         faults' \in 0 .. MaxFaults, cause' \in {"none", "some"}, left' \in {"in", "out"}
  PROVE  Typed'
<1>1. call' \in [Call -> Entry]
  BY PutIs
<1>2. HeldBy(stored', call') \subseteq HeldBy(stored, call) \cup {None}
  BY PutHeld
<1>3. server' \in [Session -> Worth] /\ Issued'
  BY <1>2, WorthsTyped
<1>4. stored' \in Session \cup {None}
  BY HeldIsSession
<1> QED  BY <1>1, <1>3, <1>4 DEF Typed

\* A session that ends is still one that was issued.
LEMMA EndedIs ==
  ASSUME Typed, NEW c \in Call
  PROVE  /\ Ended(c) \in [Session -> Worth]
         /\ \A s \in Session : server[s] # "unissued" => Ended(c)[s] # "unissued"
BY DEF Ended, Worth

\* The steps of the server and of the network, one by one.
LEMMA ServeTyped == ASSUME Typed, NEW c \in Call, Serve(c) PROVE Typed'
<1>1. IsBusy(c) /\ call[c].kind # "login"
  BY InPhase DEF Serve
<1>2. PICK phase \in {"ok", "denied", "failed"}, w \in {server, Ended(c)} :
        Answered(c, phase) /\ Worths(w)
  BY DEF Serve
<1>3. w \in [Session -> Worth] /\ \A s \in Session : server[s] # "unissued" => w[s] # "unissued"
  BY EndedIs DEF Typed
<1>4. UNCHANGED <<stored, ui, flag, left, faults, cause>>
  BY DEF Serve, client, history
<1>5. PICK r \in Entry : call' = [call EXCEPT ![c] = r] /\ (r = Idle \/ r.token = None)
  BY <1>1, <1>2, AnsweredIs
<1>6. stored' \in HeldBy(stored, call)
  BY <1>4 DEF HeldBy
<1> QED  BY <1>2, <1>3, <1>4, <1>5, <1>6, PutTyped DEF Typed

\* New tokens are issued.
LEMMA IssueTyped ==
  ASSUME Typed, NEW c \in Call, IsBusy(c), NEW phase \in {"ok", "renewed"}, Issue(c, phase, server),
         UNCHANGED <<client, history>>
  PROVE  Typed'
<1>1. PICK r \in Entry : call' = [call EXCEPT ![c] = r] /\ r \in Busy /\ r.token = Fresh(c)
  BY IssueIs
<1>2. call' \in [Call -> Entry] /\ \A b \in Call : call'[b] = IF b = c THEN r ELSE call[b]
  BY <1>1, PutIs
<1> DEFINE w == [server EXCEPT ![Fresh(c)] = "good"]
<1>3. Worths(w)
  BY DEF Issue
<1>4. Fresh(c) \in Session
  BY FreshIs
<1>5. w \in [Session -> Worth] /\ \A s \in Session : w[s] = IF s = Fresh(c) THEN "good" ELSE server[s]
  BY <1>4 DEF Typed, Worth
<1> HIDE DEF w
<1>6. UNCHANGED <<stored, ui, flag, left, faults, cause>>
  BY DEF client, history
<1>7. \A s \in Session : server'[s] = IF s \in HeldBy(stored', call') THEN w[s] ELSE "unissued"
  BY <1>3 DEF Worths
<1>8. server' \in [Session -> Worth]
  BY <1>3, <1>5 DEF Worths, Worth
<1>9. Issued'
  <2> SUFFICES ASSUME NEW s \in HeldBy(stored', call'), s # None PROVE server'[s] # "unissued"
    BY DEF Issued
  <2>1. s = Fresh(c) \/ s \in HeldBy(stored, call)
    BY <1>1, <1>2, <1>6 DEF HeldBy
  <2>2. s \in Session
    BY <1>4, <2>1, HeldIsSession
  <2>3. w[s] # "unissued"
    BY <1>5, <2>1, <2>2 DEF Typed, Issued
  <2> QED  BY <1>7, <2>2, <2>3
<1> QED  BY <1>2, <1>6, <1>8, <1>9 DEF Typed

LEMMA ServeLoginTyped == ASSUME Typed, NEW c \in Call, ServeLogin(c) PROVE Typed'
<1>1. IsBusy(c)
  BY InPhase DEF ServeLogin
<1>2. CASE Issue(c, "ok", server)
  BY <1>1, <1>2, IssueTyped DEF ServeLogin
<1>3. CASE Answered(c, "failed") /\ Worths(server)
  <2>1. PICK r \in Entry : call' = [call EXCEPT ![c] = r] /\ (r = Idle \/ r.token = None)
    BY <1>1, <1>3, AnsweredIs
  <2>2. UNCHANGED <<stored, ui, flag, left, faults, cause>>
    BY DEF ServeLogin, client, history
  <2>3. stored' \in HeldBy(stored, call)
    BY <2>2 DEF HeldBy
  <2> QED  BY <1>3, <2>1, <2>2, <2>3, PutTyped DEF Typed
<1> QED  BY <1>2, <1>3 DEF ServeLogin

LEMMA ServeRefreshTyped == ASSUME Typed, NEW c \in Call, ServeRefresh(c) PROVE Typed'
<1>1. IsBusy(c)
  BY InPhase DEF ServeRefresh
<1>2. CASE Issue(c, "renewed", server)
  BY <1>1, <1>2, IssueTyped DEF ServeRefresh
<1>3. CASE Refusal(c) /\ Worths(server)
  <2>1. PICK r \in Entry : call' = [call EXCEPT ![c] = r] /\ r.token = None
    BY <1>1, <1>3, RefusalIs
  <2>2. UNCHANGED <<stored, ui, flag, left, faults, cause>>
    BY DEF ServeRefresh, client, history
  <2>3. stored' \in HeldBy(stored, call)
    BY <2>2 DEF HeldBy
  <2> QED  BY <1>3, <2>1, <2>2, <2>3, PutTyped DEF Typed
<1> QED  BY <1>2, <1>3 DEF ServeRefresh, Kept

\* A fault is counted, and known to history.
LEMMA FaultIs ==
  ASSUME Typed, Fault PROVE faults' \in 0 .. MaxFaults /\ cause' = "some"
BY ConstantsAssumption DEF Typed, Fault

LEMMA LoseTyped == ASSUME Typed, NEW c \in Call, Lose(c) PROVE Typed'
<1>1. IsBusy(c) /\ (Answered(c, "failed") \/ Refusal(c)) /\ Worths(server)
  BY DEF Lose
<1>2. PICK r \in Entry : call' = [call EXCEPT ![c] = r] /\ (r = Idle \/ r.token = None)
  BY <1>1, AnsweredIs, RefusalIs
<1>3. UNCHANGED <<stored, ui, flag, left>> /\ faults' \in 0 .. MaxFaults /\ cause' = "some"
  BY FaultIs DEF Lose, client
<1>4. stored' \in HeldBy(stored, call)
  BY <1>3 DEF HeldBy
<1> QED  BY <1>1, <1>2, <1>3, <1>4, PutTyped DEF Typed

LEMMA FadeTyped ==
  ASSUME Typed, (\E s \in Session : Expire(s) \/ Lapse(s)) \/ RevokeElsewhere PROVE Typed'
<1>1. UNCHANGED <<stored, ui, flag, left, call>>
  BY DEF Expire, Lapse, RevokeElsewhere, client
<1>2. faults' \in 0 .. MaxFaults /\ cause' \in {"none", "some"}
  BY FaultIs DEF Expire, Lapse, RevokeElsewhere, history, Typed
<1>3. server' \in [Session -> Worth] /\ Issued'
  <2>1. ASSUME NEW s \in Session, NEW worth \in {"stale", "dead"}, server' = [server EXCEPT ![s] = worth]
        PROVE  server' \in [Session -> Worth] /\ Issued'
    <3>1. server' \in [Session -> Worth] /\ \A x \in Session : server[x] # "unissued" => server'[x] # "unissued"
      BY <2>1 DEF Typed, Worth
    <3> QED  BY <1>1, <3>1, HeldIsSession DEF Typed, Issued
  <2>2. CASE RevokeElsewhere
    <3> DEFINE w == [s \in Session |-> "dead"]
    <3>1. w \in [Session -> Worth] /\ \A s \in Session : w[s] # "unissued"
      BY DEF Worth
    <3>2. Worths(w)
      BY <2>2 DEF RevokeElsewhere
    <3> HIDE DEF w
    <3> QED  BY <1>1, <3>1, <3>2, WorthsTyped
  <2> QED  BY <2>1, <2>2 DEF Expire, Lapse
<1> QED  BY <1>1, <1>2, <1>3 DEF Typed

\* The steps of the browser, one by one.
LEMMA ThrowTyped == ASSUME Typed, NEW c \in Call, IsBusy(c), Throw(c) PROVE Typed'
<1>1. call' = [call EXCEPT ![c] = Idle] /\ Idle \in Entry
  BY DEF Throw, End, Entry
<1>2. UNCHANGED <<flag, left, faults, cause>> /\ Worths(server)
  BY DEF Throw, history
<1>3. stored' \in {stored, None} /\ (ui' = ui \/ ui' = [ui EXCEPT ![call[c].tab] = "login"])
  BY DEF Throw, Show
<1>4. ui' \in [Tab -> Shown]
  BY <1>3 DEF Typed, Shown
<1>5. stored' \in HeldBy(stored, call) \cup {None}
  BY <1>3 DEF HeldBy
<1> QED  BY <1>1, <1>2, <1>4, <1>5, PutTyped DEF Typed

LEMMA SucceedTyped == ASSUME Typed, NEW c \in Call, Succeed(c) PROVE Typed'
<1>1. IsBusy(c) /\ call[c].phase = "ok"
  BY InPhase DEF Succeed
<1>2. UNCHANGED <<flag, faults, cause>> /\ Worths(server)
  BY DEF Succeed, history
<1>3. ui' \in [Tab -> Shown] /\ left' \in {"in", "out"}
  BY DEF Succeed, Show, Typed, Shown
<1>4. CASE call[c].kind = "login" /\ stored' = call[c].token
           /\ call' = [call EXCEPT ![c] = Sent(call[c].tab, "me", stored', "first")]
  <2> DEFINE r == Sent(call[c].tab, "me", call[c].token, "first")
  <2>1. r \in Entry /\ r.token = call[c].token /\ call[c].token \in HeldBy(stored, call)
    BY <1>1, BusyFields, SentIs DEF Kind
  <2>2. call' = [call EXCEPT ![c] = r]
    BY <1>4
  <2> HIDE DEF r
  <2> QED  BY <1>2, <1>3, <1>4, <2>1, <2>2, PutTyped DEF Typed
<1>5. CASE End(c) /\ stored' \in {stored, None}
  <2>1. call' = [call EXCEPT ![c] = Idle] /\ Idle \in Entry /\ stored' \in HeldBy(stored, call) \cup {None}
    BY <1>5 DEF End, Entry, HeldBy
  <2> QED  BY <1>2, <1>3, <2>1, PutTyped DEF Typed
<1> QED  BY <1>4, <1>5 DEF Succeed

\* Calls end, or go on with tokens that are held.
LEMMA CallsTyped ==
  ASSUME Typed, call' \in [Call -> Entry],
         \A b \in Call : call'[b] \in {Idle, call[b]} \/ call'[b].token = stored,
         stored' \in {stored, None},
         Worths(server), ui' \in [Tab -> Shown], flag' \in [Tab -> {"free", "taken"}],
         UNCHANGED <<faults, cause, left>>
  PROVE  Typed'
<1>1. \A b \in Call : call'[b] # Idle => call'[b].token \in HeldBy(stored, call)
  BY DEF HeldBy
<1>2. HeldBy(stored', call') \subseteq HeldBy(stored, call) \cup {None}
  BY <1>1 DEF HeldBy
<1>3. server' \in [Session -> Worth] /\ Issued'
  BY <1>2, WorthsTyped DEF Typed
<1> QED  BY <1>3 DEF Typed

\* Another page is loaded in the tab.
LEMMA UnloadIs ==
  ASSUME Typed, NEW t \in Tab, Unload(t)
  PROVE  /\ call' \in [Call -> Entry] /\ \A b \in Call : call'[b] = IF b \in CallsOf(t) THEN Idle ELSE call[b]
         /\ flag' \in [Tab -> {"free", "taken"}] /\ \A u \in Tab : flag'[u] = IF u = t THEN "free" ELSE flag[u]
BY DEF Unload, Typed, Entry

LEMMA OustTyped == ASSUME Typed, NEW t \in Tab, Oust(t) PROVE Typed'
<1>1. ui' \in [Tab -> Shown] /\ stored' = None /\ UNCHANGED <<faults, cause, left>> /\ Worths(server) /\ Unload(t)
  BY DEF Oust, Show, history, Typed, Shown
<1> QED  BY <1>1, UnloadIs, CallsTyped

LEMMA DeniedTyped == ASSUME Typed, NEW c \in Call, Denied(c) PROVE Typed'
<1>1. IsBusy(c) /\ call[c].tab \in Tab
  BY InPhase, BusyFields DEF Denied
<1>2. CASE Throw(c) \/ Oust(call[c].tab)
  BY <1>1, <1>2, ThrowTyped, OustTyped
<1>3. CASE /\ stored # None
           /\ flag' = [flag EXCEPT ![call[c].tab] = "taken"]
           /\ call' = [call EXCEPT ![c].phase = "asking", ![c].token = stored]
           /\ UNCHANGED <<server, history, stored, ui, left>>
  <2> DEFINE r == [call[c] EXCEPT !.phase = "asking", !.token = stored]
  <2>1. r \in Busy /\ r.token = stored
    BY <1>1, BusyFields DEF Busy, Phase, Typed
  <2>2. r \in Entry
    BY <1>3, <2>1 DEF Entry
  <2>3. call' = [call EXCEPT ![c] = r]
    BY <1>3 DEF Typed
  <2> HIDE DEF r
  <2>4. call' \in [Call -> Entry] /\ \A b \in Call : call'[b] = IF b = c THEN r ELSE call[b]
    BY <2>2, <2>3, PutIs
  <2>5. HeldBy(stored', call') \subseteq HeldBy(stored, call) \cup {None}
    BY <1>3, <2>1, <2>4 DEF HeldBy
  <2>6. Issued'
    BY <1>3, <2>5 DEF Typed, Issued
  <2> QED  BY <1>3, <2>4, <2>6 DEF Typed, history
<1> QED  BY <1>2, <1>3 DEF Denied

LEMMA RenewedTyped == ASSUME Typed, NEW c \in Call, Renewed(c) PROVE Typed'
<1>1. IsBusy(c) /\ stored' = call[c].token
  BY InPhase DEF Renewed
<1> DEFINE r == Sent(call[c].tab, call[c].kind, call[c].token, "retry")
<1>2. r \in Entry /\ r.token = call[c].token /\ call[c].token \in HeldBy(stored, call)
  BY <1>1, BusyFields, SentIs
<1>3. call' = [call EXCEPT ![c] = r]
  BY <1>1 DEF Renewed, Typed
<1>4. Worths(server) /\ flag' \in [Tab -> {"free", "taken"}] /\ UNCHANGED <<ui, left, faults, cause>>
  BY DEF Renewed, Typed, history
<1> HIDE DEF r
<1> QED  BY <1>1, <1>2, <1>3, <1>4, PutTyped DEF Typed

\* What is loaded: nothing of the tab goes on but the question who the user is.
LEMMA ReloadIs ==
  ASSUME Typed, NEW t \in Tab, Reload(t)
  PROVE  /\ call' \in [Call -> Entry]
         /\ flag' \in [Tab -> {"free", "taken"}] /\ \A u \in Tab : flag'[u] = IF u = t THEN "free" ELSE flag[u]
         /\ ui' \in [Tab -> Shown]
         /\ UNCHANGED <<stored, faults, cause, left>> /\ Worths(server)
         /\ \/ /\ ui' = [ui EXCEPT ![t] = "login"]
               /\ \A b \in Call : call'[b] = IF b \in CallsOf(t) THEN Idle ELSE call[b]
            \/ /\ ui' = [ui EXCEPT ![t] = "nobody"]
               /\ \E n \in Call :
                     /\ IsBusy(n) => n \in CallsOf(t)
                     /\ \A b \in Call : call'[b] = IF b = n THEN Sent(t, "me", stored, "first")
                                               ELSE IF b \in CallsOf(t) THEN Idle ELSE call[b]
<1>1. UNCHANGED <<stored, faults, cause, left>> /\ Worths(server)
  BY DEF Reload, history
<1>2. CASE stored = None
  <2>1. Unload(t) /\ Show(t, "login")
    BY <1>2 DEF Reload
  <2>2. ui' = [ui EXCEPT ![t] = "login"] /\ ui' \in [Tab -> Shown]
    BY <2>1 DEF Show, Typed, Shown
  <2> QED  BY <1>1, <2>1, <2>2, UnloadIs
<1>3. CASE stored # None
  <2> DEFINE rest == {c \in Call : IsBusy(c) /\ c \notin CallsOf(t)}
             n == Earliest(Call \ rest)
             me == Sent(t, "me", stored, "first")
  <2>1. /\ rest # Call
        /\ call' = [c \in Call |-> IF c \in rest THEN call[c] ELSE IF c = n THEN me ELSE Idle]
        /\ flag' = [flag EXCEPT ![t] = "free"] /\ ui' = [ui EXCEPT ![t] = "nobody"]
    BY <1>3 DEF Reload, Show
  <2>2. n \in Call \ rest
    <3>1. Call \ rest \in SUBSET Nat /\ Call \ rest # {}
      BY <2>1, ConstantsAssumption DEF Call
    <3> HIDE DEF rest
    <3> QED  BY <3>1, EarliestIs
  <2>3. me \in Entry
    BY SentIs DEF Typed, Kind
  <2> HIDE DEF n, me
  <2>4. call' \in [Call -> Entry]
    BY <2>1, <2>3 DEF Typed, Entry
  <2>5. \A b \in Call : call'[b] = IF b = n THEN me ELSE IF b \in CallsOf(t) THEN Idle ELSE call[b]
    BY <2>1, <2>2 DEF IsBusy
  <2>6. IsBusy(n) => n \in CallsOf(t)
    BY <2>2
  <2> QED  BY <1>1, <2>1, <2>2, <2>4, <2>5, <2>6 DEF Typed, Shown, me
<1> QED  BY <1>2, <1>3

LEMMA ReloadTyped == ASSUME Typed, NEW t \in Tab, Reload(t) PROVE Typed'
<1>0. Sent(t, "me", stored, "first").token = stored
  BY DEF Sent
<1>1. \A b \in Call : call'[b] \in {Idle, call[b]} \/ call'[b].token = stored
  BY <1>0, ReloadIs
<1> QED  BY <1>1, ReloadIs, CallsTyped

\* A call begins in one of four ways.
LEMMA BeginsTyped ==
  ASSUME Typed, NEW c \in Call, NEW t \in Tab, Ask(c, t) \/ FetchUser(c, t) \/ LogOut(c, t) \/ LogIn(c, t)
  PROVE  Typed'
BY BeginTyped DEF Ask, FetchUser, LogOut, LogIn, Kind, Typed

LEMMA TypedStep == Typed /\ [Next]_vars => Typed'
<1> SUFFICES ASSUME Typed, [Next]_vars PROVE Typed'
  OBVIOUS
<1>1. ASSUME NEW c \in Call, Resume(c) PROVE Typed'
  BY <1>1, InPhase, ThrowTyped, SucceedTyped, DeniedTyped, RenewedTyped, OustTyped, BusyFields
  DEF Resume, Fail, Refused
<1>2. CASE UNCHANGED vars
  BY <1>2 DEF vars, Typed, Issued
<1> QED
  BY <1>1, <1>2, BeginsTyped, ServeTyped, ServeLoginTyped, ServeRefreshTyped, LoseTyped, ReloadTyped,
     FadeTyped DEF Next

LEMMA TypedInit == Init => Typed
BY ConstantsAssumption DEF Init, Typed, Issued, HeldBy, Entry, Worth, Shown, None

\* The variables keep their types; whatever is stored or goes with a call has been
\* issued, and for each new session a number is free.
THEOREM TypeCorrect == Spec => []TypeOK
<1>1. Typed => TypeOK
  BY TypedIsTypeOK
<1> QED  BY <1>1, TypedInit, TypedStep, PTL DEF Spec

----------------------------------------------------------------------------
(* The flag.                                                               *)

RefreshingOf(t) == {c \in CallsOf(t) : Refreshing(c)}

\* Where the flag is set one call of the tab refreshes the tokens, else none does.
FlagInv ==
  \A t \in Tab : IF flag[t] = "taken" THEN \E c \in Call : RefreshingOf(t) = {c}
                                     ELSE RefreshingOf(t) = {}

\* A refreshing call is in flight.
LEMMA RefreshingIs ==
  ASSUME NEW c \in Call, Refreshing(c) PROVE IsBusy(c)
BY DEF Refreshing, IsBusy, Idle

\* A step after which the same calls of the same tabs refresh the tokens.
LEMMA SameFlags ==
  ASSUME FlagInv, UNCHANGED flag,
         \A b \in Call : /\ Refreshing(b)' <=> Refreshing(b)
                         /\ Refreshing(b) => call'[b].tab = call[b].tab
  PROVE  FlagInv'
<1>1. ASSUME NEW b \in Call, NEW t \in Tab
      PROVE  (b \in CallsOf(t) /\ Refreshing(b))' <=> b \in CallsOf(t) /\ Refreshing(b)
  BY <1>1 DEF CallsOf, Refreshing, IsBusy, Idle
<1>2. \A t \in Tab : RefreshingOf(t)' = RefreshingOf(t)
  BY <1>1 DEF RefreshingOf, CallsOf
<1> QED  BY <1>2 DEF FlagInv

\* The same where one entry changes.
LEMMA SameFlagsPut ==
  ASSUME Typed, FlagInv, UNCHANGED flag, NEW c \in Call, NEW r \in Entry, call' = [call EXCEPT ![c] = r],
         r.phase \in {"asking", "renewed", "refused"} <=> Refreshing(c),
         Refreshing(c) => r.tab = call[c].tab
  PROVE  FlagInv'
<1>1. \A b \in Call : call'[b] = IF b = c THEN r ELSE call[b]
  BY PutIs
<1> QED  BY <1>1, SameFlags DEF Refreshing

\* A tab whose calls that refresh the tokens are over, by a step that leaves the others alone.
LEMMA FreeFlag ==
  ASSUME FlagInv, NEW t \in Tab, \A u \in Tab : flag'[u] = IF u = t THEN "free" ELSE flag[u],
         \A b \in Call : /\ b \in CallsOf(t) \/ ~IsBusy(b) => ~Refreshing(b)'
                         /\ b \notin CallsOf(t) /\ IsBusy(b) => call'[b] = call[b]
  PROVE  FlagInv'
<1>1. \A b \in Call : Refreshing(b)' => Refreshing(b) /\ call'[b] = call[b] /\ b \notin CallsOf(t)
  BY DEF Refreshing
<1>2. RefreshingOf(t)' = {}
  BY <1>1 DEF RefreshingOf, CallsOf, IsBusy
<1>3. ASSUME NEW u \in Tab, u # t PROVE RefreshingOf(u)' = RefreshingOf(u)
  <2>1. ASSUME NEW b \in Call PROVE (b \in CallsOf(u) /\ Refreshing(b))' <=> b \in CallsOf(u) /\ Refreshing(b)
    BY <1>1, <1>3, <2>1 DEF CallsOf, Refreshing, IsBusy
  <2> QED  BY <2>1 DEF RefreshingOf, CallsOf
<1> QED  BY <1>2, <1>3 DEF FlagInv

\* Steps that leave the flags as they are take no call into a refresh or out of one.
LEMMA BeginFlag ==
  ASSUME Typed, FlagInv, NEW c \in Call, NEW t \in Tab, NEW kind \in Kind, Begin(c, t, kind) PROVE FlagInv'
<1>1. Sent(t, kind, stored, "first") \in Entry /\ Sent(t, kind, stored, "first").phase = "sent"
  BY SentIs DEF Typed
<1>2. ~Refreshing(c)
  BY RefreshingIs DEF Begin
<1> QED  BY <1>1, <1>2, SameFlagsPut DEF Begin

LEMMA ServesFlag ==
  ASSUME Typed, FlagInv, NEW c \in Call, Serve(c) \/ ServeLogin(c) \/ ServeRefresh(c) \/ Lose(c) PROVE FlagInv'
<1>1. IsBusy(c) /\ UNCHANGED flag
  BY InPhase DEF Serve, ServeLogin, ServeRefresh, Lose, client
<1>2. CASE Refreshing(c)
  <2>1. Refusal(c) \/ \E w : Issue(c, "renewed", w)
    BY <1>2 DEF Refreshing, Serve, ServeLogin, ServeRefresh, Lose
  <2>2. PICK r \in Entry : /\ call' = [call EXCEPT ![c] = r] /\ r.tab = call[c].tab
                           /\ r.phase \in {"renewed", "refused"}
    BY <1>1, <2>1, RefusalIs, IssueIs
  <2> QED  BY <1>1, <1>2, <2>2, SameFlagsPut
<1>3. CASE ~Refreshing(c)
  <2>1. \/ \E phase \in {"ok", "denied", "failed"} : Answered(c, phase) /\ (phase = "ok" => call[c].kind # "login")
        \/ \E w : Issue(c, "ok", w)
    BY <1>3 DEF Refreshing, Serve, ServeLogin, ServeRefresh, Lose
  <2>2. PICK r \in Entry : /\ call' = [call EXCEPT ![c] = r]
                           /\ r = Idle \/ r.phase \in {"ok", "denied", "failed"}
    BY <1>1, <2>1, AnsweredIs, IssueIs
  <2>3. r.phase \notin {"asking", "renewed", "refused"}
    BY <2>2 DEF Idle
  <2> QED  BY <1>1, <1>3, <2>2, <2>3, SameFlagsPut
<1> QED  BY <1>2, <1>3

\* Steps of the browser.
LEMMA ThrowFlag ==
  ASSUME Typed, FlagInv, NEW c \in Call, ~Refreshing(c), Throw(c) PROVE FlagInv'
BY SameFlagsPut DEF Throw, End, Entry, Idle

LEMMA SucceedFlag == ASSUME Typed, FlagInv, NEW c \in Call, Succeed(c) PROVE FlagInv'
<1>1. IsBusy(c) /\ ~Refreshing(c) /\ UNCHANGED flag
  BY InPhase DEF Succeed, Refreshing
<1>2. PICK r : call' = [call EXCEPT ![c] = r] /\ (r = Idle \/ r = Sent(call[c].tab, "me", call[c].token, "first"))
  BY DEF Succeed, End
<1>3. r \in Entry /\ r.phase \in {"idle", "sent"}
  BY <1>1, <1>2, BusyFields, SentIs DEF Idle, Entry, Kind
<1> QED  BY <1>1, <1>2, <1>3, SameFlagsPut

LEMMA OustFlag == ASSUME Typed, FlagInv, NEW t \in Tab, Oust(t) PROVE FlagInv'
<1>1. \A b \in Call : call'[b] = IF b \in CallsOf(t) THEN Idle ELSE call[b]
  BY UnloadIs DEF Oust
<1>2. \A u \in Tab : flag'[u] = IF u = t THEN "free" ELSE flag[u]
  BY UnloadIs DEF Oust
<1> QED  BY <1>1, <1>2, FreeFlag DEF Refreshing, IsBusy, Idle

LEMMA DeniedFlag == ASSUME Typed, FlagInv, NEW c \in Call, Denied(c) PROVE FlagInv'
<1>1. IsBusy(c) /\ call[c].tab \in Tab /\ ~Refreshing(c) /\ call[c] \in Busy
  BY InPhase, BusyFields DEF Denied, Refreshing
<1>2. CASE Throw(c) \/ Oust(call[c].tab)
  BY <1>1, <1>2, ThrowFlag, OustFlag
<1>3. CASE /\ flag[call[c].tab] # "taken"
           /\ flag' = [flag EXCEPT ![call[c].tab] = "taken"]
           /\ call' = [call EXCEPT ![c].phase = "asking", ![c].token = stored]
  <2> PICK t \in Tab : t = call[c].tab
    BY <1>1
  <2> DEFINE r == [call[c] EXCEPT !.phase = "asking", !.token = stored]
  <2>1. r.phase = "asking" /\ r.tab = t /\ r # Idle
    BY <1>1 DEF Busy, Idle
  <2>2. call' = [call EXCEPT ![c] = r]
    BY <1>3 DEF Typed
  <2> HIDE DEF r
  <2>3. \A b \in Call : call'[b] = IF b = c THEN r ELSE call[b]
    BY <2>2 DEF Typed
  <2>4. RefreshingOf(t)' = {c}
    <3>1. RefreshingOf(t) = {}
      BY <1>1, <1>3 DEF FlagInv
    <3> QED  BY <2>1, <2>3, <3>1 DEF RefreshingOf, CallsOf, Refreshing, IsBusy
  <2>5. ASSUME NEW u \in Tab, u # t PROVE RefreshingOf(u)' = RefreshingOf(u)
    BY <1>1, <2>1, <2>3, <2>5 DEF RefreshingOf, CallsOf, Refreshing, IsBusy
  <2>6. \A u \in Tab : flag'[u] = IF u = t THEN "taken" ELSE flag[u]
    BY <1>3 DEF Typed
  <2> QED  BY <2>4, <2>5, <2>6 DEF FlagInv
<1> QED  BY <1>2, <1>3 DEF Denied

LEMMA RenewedFlag == ASSUME Typed, FlagInv, NEW c \in Call, Renewed(c) PROVE FlagInv'
<1>1. IsBusy(c) /\ call[c].tab \in Tab /\ Refreshing(c)
  BY InPhase, BusyFields DEF Renewed, Refreshing
<1> PICK t \in Tab : t = call[c].tab
  BY <1>1
<1> DEFINE r == Sent(call[c].tab, call[c].kind, stored', "retry")
<1>2. call' = [call EXCEPT ![c] = r] /\ r.phase = "sent"
  BY DEF Renewed, Sent, Typed
<1> HIDE DEF r
<1>3. \A b \in Call : call'[b] = IF b = c THEN r ELSE call[b]
  BY <1>2 DEF Typed
<1>4. RefreshingOf(t) = {c}
  <2>1. c \in RefreshingOf(t)
    BY <1>1 DEF RefreshingOf, CallsOf
  <2> QED  BY <1>1, <2>1 DEF FlagInv
<1>5. \A u \in Tab : flag'[u] = IF u = t THEN "free" ELSE flag[u]
  BY DEF Renewed, Typed
<1>6. RefreshingOf(t)' = {}
  BY <1>2, <1>3, <1>4 DEF RefreshingOf, CallsOf, Refreshing, IsBusy
<1>7. ASSUME NEW u \in Tab, u # t PROVE RefreshingOf(u)' = RefreshingOf(u)
  BY <1>2, <1>3, <1>7 DEF RefreshingOf, CallsOf, Refreshing, IsBusy
<1> QED  BY <1>5, <1>6, <1>7 DEF FlagInv

LEMMA ReloadFlag == ASSUME Typed, FlagInv, NEW t \in Tab, Reload(t) PROVE FlagInv'
<1>1. \A u \in Tab : flag'[u] = IF u = t THEN "free" ELSE flag[u]
  BY ReloadIs
<1>2. Sent(t, "me", stored, "first").phase = "sent" /\ Idle.phase = "idle"
  BY DEF Sent, Idle
<1>3. \A b \in Call : ~IsBusy(b) => ~Refreshing(b)
  BY RefreshingIs
<1>4. \A b \in Call : /\ b \in CallsOf(t) \/ ~IsBusy(b) => ~Refreshing(b)'
                      /\ b \notin CallsOf(t) /\ IsBusy(b) => call'[b] = call[b]
  <2>1. \A b \in Call : call'[b].phase \in {"sent", "idle"} \/ (b \notin CallsOf(t) /\ call'[b] = call[b])
    BY <1>2, ReloadIs
  <2>2. \A b \in Call : b \notin CallsOf(t) /\ IsBusy(b) => call'[b] = call[b]
    BY ReloadIs
  <2> QED  BY <1>3, <2>1, <2>2, ReloadIs DEF Refreshing
<1> QED  BY <1>1, <1>4, FreeFlag

LEMMA FlagStep == Typed /\ FlagInv /\ [Next]_vars => FlagInv'
<1> SUFFICES ASSUME Typed, FlagInv, [Next]_vars PROVE FlagInv'
  OBVIOUS
<1>1. ASSUME NEW c \in Call, Resume(c) PROVE FlagInv'
  <2>1. CASE Fail(c)     BY <2>1, ThrowFlag DEF Fail, Refreshing
  <2>2. CASE Succeed(c)  BY <2>2, SucceedFlag
  <2>3. CASE Denied(c)   BY <2>3, DeniedFlag
  <2>4. CASE Renewed(c)  BY <2>4, RenewedFlag
  <2>5. CASE Refused(c)  BY <2>5, InPhase, BusyFields, OustFlag DEF Refused
  <2> QED  BY <1>1, <2>1, <2>2, <2>3, <2>4, <2>5 DEF Resume
<1>2. ASSUME NEW c \in Call, NEW t \in Tab, Ask(c, t) \/ FetchUser(c, t) \/ LogOut(c, t) \/ LogIn(c, t)
      PROVE  FlagInv'
  BY <1>2, BeginFlag DEF Ask, FetchUser, LogOut, LogIn, Kind
<1>3. CASE (\E s \in Session : Expire(s) \/ Lapse(s)) \/ RevokeElsewhere \/ UNCHANGED vars
  <2>1. UNCHANGED <<flag, call>>
    BY <1>3 DEF Expire, Lapse, RevokeElsewhere, vars, client
  <2> QED  BY <2>1, SameFlags DEF Refreshing
<1> QED
  BY <1>1, <1>2, <1>3, ServesFlag, ReloadFlag DEF Next

\* isRefreshing is set exactly while one call of the tab refreshes the tokens, however
\* the calls of several tabs are answered, denied, lost and sent again.
THEOREM FlagIsKept == Spec => []FlagIsTrue
<1>1. Init => FlagInv
  BY DEF Init, FlagInv, RefreshingOf, CallsOf, IsBusy
<1>2. FlagInv => FlagIsTrue
  <2> SUFFICES ASSUME FlagInv, NEW t \in Tab
               PROVE  Cardinality(RefreshingOf(t)) = IF flag[t] = "taken" THEN 1 ELSE 0
    BY DEF FlagIsTrue, RefreshingOf
  <2> QED  BY FS_Singleton, FS_EmptySet DEF FlagInv
<1> QED  BY <1>1, <1>2, TypedInit, TypedStep, FlagStep, PTL DEF Spec

----------------------------------------------------------------------------
(* The user is asked for.                                                  *)

AskedFor(t) == \E c \in Call : IsBusy(c) /\ call[c].tab = t /\ call[c].kind = "me"
AskedInv == \A t \in Tab : ui[t] = "nobody" => AskedFor(t)

\* Calls that go on, and tabs that come to nobody only with a question under way.
LEMMA AskedOn ==
  ASSUME AskedInv,
         \A t \in Tab : ui'[t] = "nobody" => ui[t] = "nobody" \/ AskedFor(t)',
         \A t \in Tab, b \in Call : IsBusy(b) /\ call[b].tab = t /\ call[b].kind = "me" =>
            \/ IsBusy(b)' /\ call'[b].tab = t /\ call'[b].kind = "me"
            \/ ui'[t] # "nobody"
            \/ AskedFor(t)'
  PROVE  AskedInv'
<1> SUFFICES ASSUME NEW t \in Tab, ui'[t] = "nobody", ui[t] = "nobody" PROVE AskedFor(t)'
  BY DEF AskedInv
<1>1. PICK b \in Call : IsBusy(b) /\ call[b].tab = t /\ call[b].kind = "me"
  BY DEF AskedInv, AskedFor
<1>2. \/ IsBusy(b)' /\ call'[b].tab = t /\ call'[b].kind = "me"
      \/ AskedFor(t)'
  BY <1>1
<1> QED  BY <1>2 DEF AskedFor, IsBusy

\* One entry changes, and is asking for the user afterwards if it was before.
LEMMA AskedPut ==
  ASSUME Typed, AskedInv, UNCHANGED ui, NEW c \in Call, NEW r \in Entry, call' = [call EXCEPT ![c] = r],
         IsBusy(c) /\ call[c].kind = "me" => r # Idle /\ r.tab = call[c].tab /\ r.kind = "me"
  PROVE  AskedInv'
<1>1. \A b \in Call : call'[b] = IF b = c THEN r ELSE call[b]
  BY PutIs
<1> QED  BY <1>1, AskedOn DEF IsBusy

\* A call for the user stays, or is replaced by one, or the page is left.
LEMMA BeginAsked ==
  ASSUME Typed, AskedInv, NEW c \in Call, NEW t \in Tab, NEW kind \in Kind, Begin(c, t, kind), UNCHANGED ui
  PROVE  AskedInv'
<1>1. Sent(t, kind, stored, "first") \in Entry
  BY SentIs DEF Typed
<1> QED  BY <1>1, AskedPut DEF Begin

LEMMA BusyIsNotIdle == ASSUME NEW r \in Busy PROVE r # Idle
BY DEF Busy, Idle

LEMMA ServesAsked ==
  ASSUME Typed, AskedInv, NEW c \in Call, Serve(c) \/ ServeLogin(c) \/ ServeRefresh(c) \/ Lose(c) PROVE AskedInv'
<1>1. IsBusy(c) /\ UNCHANGED ui
  BY InPhase DEF Serve, ServeLogin, ServeRefresh, Lose, client
<1>2. \/ Refusal(c) \/ \E phase \in {"ok", "renewed"} : \E w : Issue(c, phase, w)
      \/ \E phase \in {"ok", "denied", "failed"} : Answered(c, phase) /\ (phase = "ok" => call[c].kind # "login")
  BY DEF Serve, ServeLogin, ServeRefresh, Lose
<1>3. PICK r \in Entry : /\ call' = [call EXCEPT ![c] = r]
                         /\ call[c].kind # "data" => r \in Busy /\ r.tab = call[c].tab /\ r.kind = call[c].kind
  BY <1>1, <1>2, AnsweredIs, RefusalIs, IssueIs
<1> QED  BY <1>1, <1>3, BusyIsNotIdle, AskedPut

\* Steps of the browser.
LEMMA ThrowAsked ==
  ASSUME Typed, AskedInv, NEW c \in Call, IsBusy(c), Throw(c) PROVE AskedInv'
<1>1. \A b \in Call : call'[b] = IF b = c THEN Idle ELSE call[b]
  BY DEF Throw, End, Typed
<1>2. call[c].tab \in Tab
  BY BusyFields
<1>3. ui' = ui \/ ui' = [ui EXCEPT ![call[c].tab] = "login"]
  BY DEF Throw, Show
<1>4. call[c].kind = "me" => ui' = [ui EXCEPT ![call[c].tab] = "login"]
  BY DEF Throw, Show
<1>5. \A t \in Tab : ui'[t] = "nobody" => ui[t] = "nobody"
  BY <1>3 DEF Typed
<1>6. call[c].kind = "me" => ui'[call[c].tab] # "nobody"
  BY <1>2, <1>4 DEF Typed
<1> QED  BY <1>1, <1>5, <1>6, AskedOn DEF IsBusy

LEMMA SucceedAsked == ASSUME Typed, AskedInv, NEW c \in Call, Succeed(c) PROVE AskedInv'
<1>1. IsBusy(c)
  BY InPhase DEF Succeed
<1>2. PICK t \in Tab : t = call[c].tab
  BY <1>1, BusyFields
<1>3. CASE call[c].kind = "login"
  <2> DEFINE r == Sent(t, "me", call[c].token, "first")
  <2>1. r.tab = t /\ r.kind = "me" /\ r # Idle
    BY DEF Sent, Idle
  <2>2. call' = [call EXCEPT ![c] = r] /\ ui' = [ui EXCEPT ![t] = IF ui[t] = "login" THEN "nobody" ELSE ui[t]]
    BY <1>2, <1>3 DEF Succeed, Show, Kind
  <2> HIDE DEF r
  <2>3. \A b \in Call : call'[b] = IF b = c THEN r ELSE call[b]
    BY <2>2 DEF Typed
  <2>4. AskedFor(t)'
    BY <2>1, <2>3 DEF AskedFor, IsBusy
  <2>5. \A u \in Tab : u # t => ui'[u] = ui[u]
    BY <2>2 DEF Typed
  <2> QED  BY <1>2, <1>3, <2>3, <2>4, <2>5, AskedOn DEF IsBusy
<1>4. CASE call[c].kind # "login"
  <2>1. call' = [call EXCEPT ![c] = Idle] /\ \E what \in {"user", "login"} : ui' = [ui EXCEPT ![t] = what]
    BY <1>2, <1>4 DEF Succeed, End, Show
  <2>2. ui'[t] # "nobody" /\ \A u \in Tab : ui'[u] = "nobody" => ui[u] = "nobody"
    BY <2>1 DEF Typed
  <2>3. \A b \in Call : call'[b] = IF b = c THEN Idle ELSE call[b]
    BY <2>1 DEF Typed
  <2> QED  BY <1>2, <2>2, <2>3, AskedOn DEF IsBusy
<1> QED  BY <1>3, <1>4

LEMMA OustAsked == ASSUME Typed, AskedInv, NEW t \in Tab, Oust(t) PROVE AskedInv'
<1>1. \A b \in Call : call'[b] = IF b \in CallsOf(t) THEN Idle ELSE call[b]
  BY UnloadIs DEF Oust
<1>2. \A u \in Tab : ui'[u] = IF u = t THEN "login" ELSE ui[u]
  BY DEF Oust, Show, Typed
<1> QED  BY <1>1, <1>2, AskedOn DEF IsBusy, CallsOf

LEMMA DeniedAsked == ASSUME Typed, AskedInv, NEW c \in Call, Denied(c) PROVE AskedInv'
<1>1. IsBusy(c) /\ call[c].tab \in Tab /\ call[c] \in Busy
  BY InPhase, BusyFields DEF Denied
<1>2. CASE Throw(c) \/ Oust(call[c].tab)
  BY <1>1, <1>2, ThrowAsked, OustAsked
<1>3. CASE /\ call' = [call EXCEPT ![c].phase = "asking", ![c].token = stored]
           /\ UNCHANGED ui
  <2> DEFINE r == [call[c] EXCEPT !.phase = "asking", !.token = stored]
  <2>1. r.phase = "asking" /\ r.tab = call[c].tab /\ r.kind = call[c].kind /\ r # Idle
    BY <1>1 DEF Busy, Idle
  <2>2. call' = [call EXCEPT ![c] = r]
    BY <1>3 DEF Typed
  <2> HIDE DEF r
  <2>3. \A b \in Call : call'[b] = IF b = c THEN r ELSE call[b]
    BY <2>2 DEF Typed
  <2> QED  BY <1>3, <2>1, <2>3, AskedOn DEF IsBusy
<1> QED  BY <1>2, <1>3 DEF Denied

LEMMA RenewedAsked == ASSUME Typed, AskedInv, NEW c \in Call, Renewed(c) PROVE AskedInv'
<1>1. IsBusy(c)
  BY InPhase DEF Renewed
<1> DEFINE r == Sent(call[c].tab, call[c].kind, call[c].token, "retry")
<1>2. r \in Entry /\ r # Idle /\ r.tab = call[c].tab /\ r.kind = call[c].kind
  BY <1>1, BusyFields, SentIs, BusyIsNotIdle
<1>3. call' = [call EXCEPT ![c] = r] /\ UNCHANGED ui
  BY <1>1 DEF Renewed, Typed
<1> HIDE DEF r
<1> QED  BY <1>2, <1>3, AskedPut

LEMMA ReloadAsked == ASSUME Typed, AskedInv, NEW t \in Tab, Reload(t) PROVE AskedInv'
<1>1. \A b \in Call : b \notin CallsOf(t) /\ IsBusy(b) => call'[b] = call[b]
  BY ReloadIs
<1>2. \A u \in Tab : u # t => ui'[u] = ui[u]
  BY ReloadIs DEF Typed
<1>3. ui'[t] = "login" \/ AskedFor(t)'
  <2>1. Sent(t, "me", stored, "first").tab = t /\ Sent(t, "me", stored, "first").kind = "me"
        /\ Sent(t, "me", stored, "first") # Idle
    BY DEF Sent, Idle
  <2>2. ui'[t] = "login" \/ \E n \in Call : call'[n] = Sent(t, "me", stored, "first")
    BY ReloadIs DEF Typed
  <2> QED  BY <2>1, <2>2 DEF AskedFor, IsBusy
<1> QED  BY <1>1, <1>2, <1>3, AskedOn DEF IsBusy, CallsOf

LEMMA AskedStep == Typed /\ AskedInv /\ [Next]_vars => AskedInv'
<1> SUFFICES ASSUME Typed, AskedInv, [Next]_vars PROVE AskedInv'
  OBVIOUS
<1>1. ASSUME NEW c \in Call, Resume(c) PROVE AskedInv'
  <2>1. CASE Fail(c)     BY <2>1, InPhase, ThrowAsked DEF Fail
  <2>2. CASE Succeed(c)  BY <2>2, SucceedAsked
  <2>3. CASE Denied(c)   BY <2>3, DeniedAsked
  <2>4. CASE Renewed(c)  BY <2>4, RenewedAsked
  <2>5. CASE Refused(c)  BY <2>5, InPhase, BusyFields, OustAsked DEF Refused
  <2> QED  BY <1>1, <2>1, <2>2, <2>3, <2>4, <2>5 DEF Resume
<1>2. ASSUME NEW c \in Call, NEW t \in Tab, Ask(c, t) \/ FetchUser(c, t) \/ LogOut(c, t) \/ LogIn(c, t)
      PROVE  AskedInv'
  BY <1>2, BeginAsked DEF Ask, FetchUser, LogOut, LogIn, Kind
<1>3. CASE (\E s \in Session : Expire(s) \/ Lapse(s)) \/ RevokeElsewhere \/ UNCHANGED vars
  <2>1. UNCHANGED <<ui, call>>
    BY <1>3 DEF Expire, Lapse, RevokeElsewhere, vars, client
  <2> QED  BY <2>1 DEF AskedInv, AskedFor, IsBusy
<1> QED
  BY <1>1, <1>2, <1>3, ServesAsked, ReloadAsked DEF Next

\* A page that is shown without its user has asked for him and will hear, whatever
\* happens to the tokens meanwhile.
THEOREM PageHasAsked == Spec => []UserIsAskedFor
<1>1. Init => AskedInv
  BY DEF Init, AskedInv
<1>2. AskedInv => UserIsAskedFor
  BY DEF AskedInv, AskedFor, UserIsAskedFor, CallsOf
<1> QED  BY <1>1, <1>2, TypedInit, TypedStep, AskedStep, PTL DEF Spec

----------------------------------------------------------------------------
(* What becomes of logins, logouts and refreshes.                          *)

\* No call has become a login, a logout, a logout that succeeded or a refused refresh.
Plain ==
  \A b \in Call : call'[b] # Idle =>
    /\ call'[b].kind \in {"login", "logout"} => call[b] # Idle /\ call'[b].kind = call[b].kind
    /\ call'[b].kind = "logout" /\ call'[b].phase = "ok" => call[b].phase = "ok"
    /\ call'[b].phase = "refused" => call[b].phase = "refused"

\* Sessions are forgotten at most.
ServerKeeps == \A s \in Session : server'[s] \in {server[s], "unissued"}

\* Worths forgets at most.
LEMMA WorthsKeep == Worths(server) \/ UNCHANGED server => ServerKeeps
BY DEF Worths, ServerKeeps

\* Steps of the browser, but for a logout.
LEMMA PutPlain ==
  ASSUME Typed, NEW c \in Call, NEW r \in Entry, call' = [call EXCEPT ![c] = r],
         r # Idle => /\ r.kind \in {"login", "logout"} => IsBusy(c) /\ r.kind = call[c].kind
                     /\ r.phase \notin {"ok", "refused"}
  PROVE  Plain
<1>1. \A b \in Call : call'[b] = IF b = c THEN r ELSE call[b]
  BY PutIs
<1> QED  BY <1>1 DEF Plain, IsBusy

LEMMA BeginPlain ==
  ASSUME Typed, NEW c \in Call, NEW t \in Tab, NEW kind \in {"data", "me"}, Begin(c, t, kind) PROVE Plain
<1>1. Sent(t, kind, stored, "first") \in Entry /\ Sent(t, kind, stored, "first").kind = kind
      /\ Sent(t, kind, stored, "first").phase = "sent"
  BY SentIs DEF Typed, Kind
<1> QED  BY <1>1, PutPlain DEF Begin

LEMMA ThrowPlain ==
  ASSUME Typed, NEW c \in Call, Throw(c) PROVE Plain /\ ServerKeeps /\ UNCHANGED <<cause, left>>
<1>1. Plain
  BY PutPlain DEF Throw, End, Entry
<1> QED  BY <1>1, WorthsKeep DEF Throw, history

LEMMA OustPlain ==
  ASSUME Typed, NEW t \in Tab, Oust(t) PROVE Plain /\ ServerKeeps /\ UNCHANGED <<cause, left>>
<1>1. \A b \in Call : call'[b] = IF b \in CallsOf(t) THEN Idle ELSE call[b]
  BY UnloadIs DEF Oust
<1>2. Plain
  BY <1>1 DEF Plain
<1> QED  BY <1>2, WorthsKeep DEF Oust, history

LEMMA ReloadPlain ==
  ASSUME Typed, NEW t \in Tab, Reload(t) PROVE Plain /\ ServerKeeps /\ UNCHANGED <<cause, left, stored>>
<1>1. Sent(t, "me", stored, "first").kind = "me" /\ Sent(t, "me", stored, "first").phase = "sent"
  BY DEF Sent
<1>2. \A b \in Call : call'[b] \in {call[b], Idle, Sent(t, "me", stored, "first")}
  BY ReloadIs
<1>3. Plain
  BY <1>1, <1>2 DEF Plain
<1> QED  BY <1>3, WorthsKeep, ReloadIs

LEMMA DeniedPlain ==
  ASSUME Typed, NEW c \in Call, Denied(c) PROVE Plain /\ ServerKeeps /\ UNCHANGED <<cause, left>>
<1>1. IsBusy(c) /\ call[c].tab \in Tab /\ call[c] \in Busy
  BY InPhase, BusyFields DEF Denied
<1>2. CASE Throw(c) \/ Oust(call[c].tab)
  BY <1>1, <1>2, ThrowPlain, OustPlain
<1>3. CASE /\ call' = [call EXCEPT ![c].phase = "asking", ![c].token = stored]
           /\ UNCHANGED <<server, history, stored, ui, left>>
  <2> DEFINE r == [call[c] EXCEPT !.phase = "asking", !.token = stored]
  <2>1. r.phase = "asking" /\ r.kind = call[c].kind
    BY <1>1 DEF Busy
  <2>2. call' = [call EXCEPT ![c] = r]
    BY <1>3 DEF Typed
  <2> HIDE DEF r
  <2>3. \A b \in Call : call'[b] = IF b = c THEN r ELSE call[b]
    BY <2>2 DEF Typed
  <2>4. Plain
    BY <1>1, <2>1, <2>3 DEF Plain, IsBusy
  <2> QED  BY <1>3, <2>4, WorthsKeep DEF history
<1> QED  BY <1>2, <1>3 DEF Denied

LEMMA RenewedPlain ==
  ASSUME Typed, NEW c \in Call, Renewed(c)
  PROVE  Plain /\ ServerKeeps /\ UNCHANGED <<cause, left>> /\ stored' # None
<1>1. IsBusy(c) /\ call[c].token # None
  BY InPhase, BusyFields DEF Renewed, Carries
<1> DEFINE r == Sent(call[c].tab, call[c].kind, call[c].token, "retry")
<1>2. r \in Entry /\ r.phase = "sent" /\ r.kind = call[c].kind
  BY <1>1, BusyFields, SentIs
<1>3. call' = [call EXCEPT ![c] = r] /\ stored' = call[c].token /\ Worths(server) /\ UNCHANGED <<cause, left>>
  BY <1>1 DEF Renewed, Typed, history
<1> HIDE DEF r
<1>4. Plain
  BY <1>1, <1>2, <1>3, PutPlain
<1> QED  BY <1>1, <1>3, <1>4, WorthsKeep

LEMMA SucceedPlain ==
  ASSUME Typed, NEW c \in Call, Succeed(c)
  PROVE  /\ Plain /\ ServerKeeps /\ UNCHANGED cause
         /\ \/ call[c].kind = "logout" /\ call[c].phase = "ok" /\ call' = [call EXCEPT ![c] = Idle]
            \/ UNCHANGED left /\ (stored' = stored \/ stored' # None)
<1>1. IsBusy(c) /\ call[c].phase = "ok" /\ Worths(server) /\ UNCHANGED cause
  BY InPhase DEF Succeed, history
<1>2. CASE call[c].kind = "login"
  <2> DEFINE r == Sent(call[c].tab, "me", call[c].token, "first")
  <2>1. r \in Entry /\ r.kind = "me" /\ r.phase = "sent" /\ call[c].token # None
    BY <1>1, <1>2, BusyFields, SentIs DEF Kind, Carries
  <2>2. call' = [call EXCEPT ![c] = r] /\ stored' = call[c].token /\ UNCHANGED left
    BY <1>2 DEF Succeed
  <2> HIDE DEF r
  <2> QED  BY <1>1, <2>1, <2>2, PutPlain, WorthsKeep
<1>3. CASE call[c].kind \in {"me", "logout"}
  <2>1. call' = [call EXCEPT ![c] = Idle] /\ Idle \in Entry
    BY <1>3 DEF Succeed, End, Entry
  <2>2. call[c].kind = "me" => UNCHANGED <<left, stored>>
    BY DEF Succeed
  <2>3. Plain
    BY <2>1, PutPlain
  <2> QED  BY <1>1, <1>3, <2>1, <2>2, <2>3, WorthsKeep
<1> QED  BY <1>2, <1>3 DEF Succeed

----------------------------------------------------------------------------
(* Signed out.                                                             *)

Hand(c) == IsBusy(c) /\ call[c].kind \in {"login", "logout"}
AllDead == \A s \in Session : server[s] \in {"dead", "unissued"}
LogoutServed == \E c \in Call : IsBusy(c) /\ call[c].kind = "logout" /\ call[c].phase = "ok"

\* One login or logout at a time; when a logout has been served, and when the user is
\* out, no session of his is alive, and none is about to be made.
OutInv ==
  /\ \A b, c \in Call : Hand(b) /\ Hand(c) => b = c
  /\ LogoutServed => AllDead
  /\ left = "out" => AllDead /\ \A c \in Call : IsBusy(c) => call[c].kind # "login"

\* What is dead stays dead, but for a new session.
LEMMA KeepsDead == AllDead /\ ServerKeeps => AllDead'
BY DEF AllDead, ServerKeeps

LEMMA PlainOut ==
  ASSUME OutInv, Plain, AllDead => AllDead', UNCHANGED left PROVE OutInv'
<1>1. \A b \in Call : Hand(b)' => Hand(b) /\ call'[b].kind = call[b].kind
  BY DEF Plain, Hand, IsBusy
<1>2. LogoutServed' => LogoutServed
  BY DEF Plain, LogoutServed, IsBusy
<1>3. (\A c \in Call : IsBusy(c) => call[c].kind # "login") => \A c \in Call : call'[c] # Idle => call'[c].kind # "login"
  BY DEF Plain, IsBusy
<1> QED  BY <1>1, <1>2, <1>3 DEF OutInv, IsBusy

\* A login or a logout begins alone.
LEMMA HandOut ==
  ASSUME OneHand, Typed, OutInv, NEW c \in Call, NEW t \in Tab, LogOut(c, t) \/ LogIn(c, t) PROVE OutInv'
<1>1. \A b \in Call : ~Hand(b)
  BY DEF LogOut, LogIn, HandIsFree, Hand
<1>2. PICK kind \in {"login", "logout"} : Begin(c, t, kind) /\ (left' = "in" \/ (UNCHANGED left /\ kind = "logout"))
  BY DEF LogOut, LogIn
<1> DEFINE r == Sent(t, kind, stored, "first")
<1>3. r.kind = kind /\ r.phase = "sent"
  BY DEF Sent
<1>4. call' = [call EXCEPT ![c] = r] /\ UNCHANGED server
  BY <1>2 DEF Begin
<1> HIDE DEF r
<1>5. \A b \in Call : call'[b] = IF b = c THEN r ELSE call[b]
  BY <1>4 DEF Typed
<1>6. ~LogoutServed' /\ \A b \in Call : Hand(b)' => b = c
  BY <1>1, <1>3, <1>5 DEF LogoutServed, Hand, IsBusy
<1>7. left' = "out" => AllDead' /\ \A b \in Call : IsBusy(b)' => call'[b].kind # "login"
  BY <1>2, <1>3, <1>4, <1>5 DEF OutInv, AllDead, IsBusy
<1> QED  BY <1>6, <1>7 DEF OutInv

\* A logout that is served ends every session.
LEMMA ServeOut == ASSUME Typed, OutInv, NEW c \in Call, Serve(c) PROVE OutInv'
<1>1. IsBusy(c) /\ call[c].kind # "login" /\ UNCHANGED left /\ call[c].phase = "sent"
  BY InPhase DEF Serve, client
<1>2. PICK phase \in {"ok", "denied", "failed"} :
        /\ Answered(c, phase)
        /\ \/ phase # "ok" \/ call[c].kind # "logout"
           \/ phase = "ok" /\ Worths(Ended(c))
        /\ Worths(server) \/ Worths(Ended(c))
  BY DEF Serve
<1>3. PICK r \in Entry :
        /\ call' = [call EXCEPT ![c] = r]
        /\ r = Idle \/ (r.kind = call[c].kind /\ r.phase = phase)
  BY <1>1, <1>2, AnsweredIs
<1>4. \A b \in Call : call'[b] = IF b = c THEN r ELSE call[b]
  BY <1>3, PutIs
<1>5. Worths(Ended(c)) => AllDead'
  BY DEF Worths, Ended, AllDead
<1>6. AllDead => AllDead'
  BY <1>2, <1>5, WorthsKeep, KeepsDead
<1>7. \A b \in Call : Hand(b)' => Hand(b) /\ call'[b].kind = call[b].kind
  BY <1>1, <1>3, <1>4 DEF Hand, IsBusy
<1>8. LogoutServed' => LogoutServed \/ AllDead'
  BY <1>2, <1>3, <1>4, <1>5 DEF LogoutServed, IsBusy
<1>9. left' = "out" => \A b \in Call : IsBusy(b)' => call'[b].kind # "login"
  BY <1>1, <1>3, <1>4 DEF OutInv, IsBusy
<1> QED  BY <1>1, <1>6, <1>7, <1>8, <1>9 DEF OutInv

\* Sessions are made only where none is to be made, and no logout has been served.
LEMMA IssueOut ==
  ASSUME Typed, OutInv, NEW c \in Call, IsBusy(c), NEW phase \in {"ok", "renewed"}, NEW w, Issue(c, phase, w),
         phase = "renewed" \/ call[c].kind = "login", ~LogoutServed, left # "out", UNCHANGED left
  PROVE  OutInv'
<1>1. PICK r \in Entry : call' = [call EXCEPT ![c] = r] /\ r.kind = call[c].kind /\ r.phase = phase
  BY IssueIs
<1>2. \A b \in Call : call'[b] = IF b = c THEN r ELSE call[b]
  BY <1>1, PutIs
<1>3. \A b \in Call : Hand(b)' => Hand(b)
  BY <1>1, <1>2 DEF Hand, IsBusy
<1>4. ~LogoutServed'
  BY <1>1, <1>2 DEF LogoutServed, IsBusy
<1> QED  BY <1>3, <1>4 DEF OutInv

LEMMA ServeLoginOut == ASSUME Typed, OutInv, NEW c \in Call, ServeLogin(c) PROVE OutInv'
<1>1. IsBusy(c) /\ Hand(c) /\ call[c].kind = "login" /\ UNCHANGED left
  BY InPhase DEF ServeLogin, client, Hand
<1>2. ~LogoutServed /\ left # "out"
  BY <1>1 DEF OutInv, LogoutServed, Hand
<1>3. CASE Issue(c, "ok", server)
  BY <1>1, <1>2, <1>3, IssueOut
<1>4. CASE Answered(c, "failed") /\ Worths(server)
  <2>1. PICK r \in Entry : call' = [call EXCEPT ![c] = r] /\ (r = Idle \/ (r.kind = call[c].kind /\ r.phase = "failed"))
    BY <1>1, <1>4, AnsweredIs
  <2>2. Plain
    BY <1>1, <2>1, PutPlain
  <2> QED  BY <1>1, <1>4, <2>2, WorthsKeep, KeepsDead, PlainOut
<1> QED  BY <1>3, <1>4 DEF ServeLogin

\* A call that has ended, or has failed, or has no tokens.
LEMMA RefusalOut ==
  ASSUME Typed, OutInv, NEW c \in Call, IsBusy(c), Refusal(c), Worths(server), UNCHANGED left PROVE OutInv'
<1>1. PICK r \in Entry : call' = [call EXCEPT ![c] = r] /\ r.kind = call[c].kind /\ r.phase = "refused"
  BY RefusalIs
<1>2. \A b \in Call : call'[b] = IF b = c THEN r ELSE call[b]
  BY <1>1, PutIs
<1>3. \A b \in Call : Hand(b)' => Hand(b) /\ call'[b].kind = call[b].kind
  BY <1>1, <1>2 DEF Hand, IsBusy
<1>4. LogoutServed' => LogoutServed
  BY <1>1, <1>2 DEF LogoutServed, IsBusy
<1>5. left' = "out" => \A b \in Call : IsBusy(b)' => call'[b].kind # "login"
  BY <1>1, <1>2 DEF OutInv, IsBusy
<1>6. AllDead => AllDead'
  BY WorthsKeep, KeepsDead
<1> QED  BY <1>3, <1>4, <1>5, <1>6 DEF OutInv

LEMMA ServeRefreshOut == ASSUME Typed, OutInv, NEW c \in Call, ServeRefresh(c) PROVE OutInv'
<1>1. IsBusy(c) /\ UNCHANGED left
  BY InPhase DEF ServeRefresh, client
<1>2. CASE server[call[c].token] # "dead" /\ Issue(c, "renewed", server)
  <2>1. call[c].token \in Session /\ server[call[c].token] # "unissued"
    BY <1>1, BusyFields DEF ServeRefresh, Carries, Typed, Issued
  <2>2. ~AllDead
    BY <1>2, <2>1 DEF AllDead
  <2> QED  BY <1>1, <1>2, <2>2, IssueOut DEF OutInv
<1>3. CASE Refusal(c) /\ Worths(server)
  BY <1>1, <1>3, RefusalOut
<1> QED  BY <1>2, <1>3 DEF ServeRefresh, Kept

LEMMA LoseOut == ASSUME Typed, OutInv, NEW c \in Call, Lose(c) PROVE OutInv'
<1>1. IsBusy(c) /\ Worths(server) /\ UNCHANGED left
  BY DEF Lose, client
<1>2. CASE Refusal(c)
  BY <1>1, <1>2, RefusalOut
<1>3. CASE Answered(c, "failed")
  <2>1. PICK r \in Entry : call' = [call EXCEPT ![c] = r] /\ (r = Idle \/ (r.kind = call[c].kind /\ r.phase = "failed"))
    BY <1>1, <1>3, AnsweredIs
  <2>2. Plain
    BY <1>1, <2>1, PutPlain
  <2> QED  BY <1>1, <2>2, WorthsKeep, KeepsDead, PlainOut
<1> QED  BY <1>2, <1>3 DEF Lose

LEMMA SucceedOut == ASSUME Typed, OutInv, NEW c \in Call, Succeed(c) PROVE OutInv'
<1>1. Plain /\ ServerKeeps
  BY SucceedPlain
<1>2. CASE UNCHANGED left
  BY <1>1, <1>2, KeepsDead, PlainOut
<1>3. CASE call[c].kind = "logout" /\ call[c].phase = "ok" /\ call' = [call EXCEPT ![c] = Idle]
  <2>1. IsBusy(c)
    BY <1>3, InPhase
  <2>2. LogoutServed /\ Hand(c)
    BY <1>3, <2>1 DEF LogoutServed, Hand
  <2>3. AllDead' /\ \A b \in Call : b # c => ~Hand(b)
    BY <1>1, <2>2, KeepsDead DEF OutInv
  <2>4. \A b \in Call : call'[b] = IF b = c THEN Idle ELSE call[b]
    BY <1>3 DEF Typed
  <2>5. \A b \in Call : ~Hand(b)'
    BY <2>3, <2>4 DEF Hand, IsBusy
  <2> QED  BY <2>3, <2>5 DEF OutInv, Hand
<1> QED  BY <1>2, <1>3, SucceedPlain

LEMMA OutStep == ASSUME OneHand PROVE Typed /\ OutInv /\ [Next]_vars => OutInv'
<1> SUFFICES ASSUME Typed, OutInv, [Next]_vars PROVE OutInv'
  OBVIOUS
<1>1. ASSUME NEW c \in Call, Resume(c) PROVE OutInv'
  <2>1. CASE Fail(c)     BY <2>1, ThrowPlain, KeepsDead, PlainOut DEF Fail
  <2>2. CASE Succeed(c)  BY <2>2, SucceedOut
  <2>3. CASE Denied(c)   BY <2>3, DeniedPlain, KeepsDead, PlainOut
  <2>4. CASE Renewed(c)  BY <2>4, RenewedPlain, KeepsDead, PlainOut
  <2>5. CASE Refused(c)  BY <2>5, InPhase, BusyFields, OustPlain, KeepsDead, PlainOut DEF Refused
  <2> QED  BY <1>1, <2>1, <2>2, <2>3, <2>4, <2>5 DEF Resume
<1>2. ASSUME NEW c \in Call, NEW t \in Tab, Ask(c, t) \/ FetchUser(c, t) \/ LogOut(c, t) \/ LogIn(c, t)
      PROVE  OutInv'
  <2>1. CASE Ask(c, t) \/ FetchUser(c, t)
    <3>1. Plain /\ UNCHANGED <<server, left>>
      BY <2>1, BeginPlain DEF Ask, FetchUser, Begin
    <3> QED  BY <3>1, PlainOut DEF AllDead
  <2> QED  BY <1>2, <2>1, HandOut, OneHand
<1>3. CASE (\E s \in Session : Expire(s) \/ Lapse(s)) \/ RevokeElsewhere \/ UNCHANGED vars
  <2>1. UNCHANGED <<left, call>>
    BY <1>3 DEF Expire, Lapse, RevokeElsewhere, vars, client
  <2>2. AllDead => AllDead'
    BY <1>3 DEF Expire, Lapse, RevokeElsewhere, vars, AllDead, Worths
  <2> QED  BY <2>1, <2>2, PlainOut DEF Plain
<1>4. ASSUME NEW t \in Tab, Reload(t) PROVE OutInv'
  BY <1>4, ReloadPlain, KeepsDead, PlainOut
<1> QED
  BY <1>1, <1>2, <1>3, <1>4, ServeOut, ServeLoginOut, ServeRefreshOut, LoseOut DEF Next

\* When the user waits for the end of a login or a logout before he begins another, nobody
\* is signed in again after a logout that succeeded, by no answer that comes late in any tab.
THEOREM OutIsOut == ASSUME OneHand PROVE Spec => []SignedOutStaysOut
<1>1. Init => OutInv
  BY DEF Init, OutInv, Hand, LogoutServed, IsBusy
<1>2. Typed /\ OutInv => SignedOutStaysOut
  BY DEF Typed, Issued, HeldBy, OutInv, AllDead, SignedOutStaysOut, StoredIsDead
<1>3. Typed /\ OutInv /\ [Next]_vars => OutInv'
  BY OutStep, OneHand
<1> QED  BY <1>1, <1>2, <1>3, TypedInit, TypedStep, PTL DEF Spec

----------------------------------------------------------------------------
(* Why tokens are dropped.                                                 *)

\* Before the first cause nothing has ended, nobody logs out, and no refresh is refused.
CauseInv ==
  cause = "none" =>
    /\ \A s \in Session : server[s] # "dead"
    /\ \A c \in Call : IsBusy(c) => call[c].kind # "logout" /\ call[c].phase # "refused"

\* Steps of the browser end nothing.
LEMMA PlainCause ==
  ASSUME CauseInv, Plain, ServerKeeps, UNCHANGED cause PROVE CauseInv'
<1> SUFFICES ASSUME cause = "none"
             PROVE  /\ \A s \in Session : server'[s] # "dead"
                    /\ \A c \in Call : call'[c] # Idle => call'[c].kind # "logout" /\ call'[c].phase # "refused"
  BY DEF CauseInv, IsBusy
<1>1. \A s \in Session : server'[s] # "dead"
  <2>1. \A s \in Session : server[s] # "dead"
    BY DEF CauseInv
  <2>2. \A s \in Session : server'[s] = server[s] \/ server'[s] = "unissued"
    BY DEF ServerKeeps
  <2>3. "unissued" # "dead"
    OBVIOUS
  <2> QED  BY <2>1, <2>2, <2>3
<1>2. ASSUME NEW c \in Call, call'[c] # Idle PROVE call'[c].kind # "logout" /\ call'[c].phase # "refused"
  BY <1>2 DEF CauseInv, Plain, IsBusy, Idle
<1> QED  BY <1>1, <1>2

\* An entry changes, and it is no logout that has begun, and no refusal.
LEMMA PutCause ==
  ASSUME Typed, CauseInv, NEW c \in Call, IsBusy(c), NEW r \in Entry, call' = [call EXCEPT ![c] = r],
         r # Idle => r.kind = call[c].kind /\ r.phase # "refused",
         (\A s \in Session : server[s] # "dead") => \A s \in Session : server'[s] # "dead",
         UNCHANGED cause
  PROVE  CauseInv'
<1>1. \A b \in Call : call'[b] = IF b = c THEN r ELSE call[b]
  BY PutIs
<1> QED  BY <1>1 DEF CauseInv, IsBusy

\* The server ends a session for a logout alone.
LEMMA NotDead ==
  ASSUME Worths(server), \A s \in Session : server[s] # "dead"
  PROVE  \A s \in Session : server'[s] # "dead"
BY DEF Worths

LEMMA ServeCause == ASSUME Typed, CauseInv, NEW c \in Call, Serve(c) PROVE CauseInv'
<1>1. IsBusy(c) /\ call[c].kind # "login" /\ UNCHANGED cause
  BY InPhase DEF Serve, history
<1>2. PICK phase \in {"ok", "denied", "failed"} :
        Answered(c, phase) /\ (Worths(server) \/ call[c].kind = "logout")
  BY DEF Serve
<1>3. PICK r \in Entry :
        /\ call' = [call EXCEPT ![c] = r]
        /\ r = Idle \/ (r.kind = call[c].kind /\ r.phase = phase)
  BY <1>1, <1>2, AnsweredIs
<1>4. CASE call[c].kind = "logout"
  BY <1>1, <1>4 DEF CauseInv
<1>5. CASE Worths(server)
  BY <1>1, <1>3, <1>5, NotDead, PutCause
<1> QED  BY <1>2, <1>4, <1>5

LEMMA IssueCause ==
  ASSUME Typed, CauseInv, NEW c \in Call, IsBusy(c), NEW phase \in {"ok", "renewed"},
         Issue(c, phase, server), UNCHANGED cause
  PROVE  CauseInv'
<1>1. PICK r \in Entry :
        call' = [call EXCEPT ![c] = r] /\ r.kind = call[c].kind /\ r.phase # "refused"
  BY IssueIs
<1>2. Fresh(c) \in Session
  BY FreshIs
<1>3. (\A s \in Session : server[s] # "dead") => \A s \in Session : server'[s] # "dead"
  BY <1>2 DEF Issue, Worths, Typed
<1> QED  BY <1>1, <1>3, PutCause

LEMMA ServeLoginCause == ASSUME Typed, CauseInv, NEW c \in Call, ServeLogin(c) PROVE CauseInv'
<1>1. IsBusy(c) /\ UNCHANGED cause
  BY InPhase DEF ServeLogin, history
<1>2. CASE Issue(c, "ok", server)
  BY <1>1, <1>2, IssueCause
<1>3. CASE Answered(c, "failed") /\ Worths(server)
  <2>1. PICK r \in Entry :
          call' = [call EXCEPT ![c] = r] /\ (r = Idle \/ (r.kind = call[c].kind /\ r.phase = "failed"))
    BY <1>1, <1>3, AnsweredIs
  <2> QED  BY <1>1, <1>3, <2>1, NotDead, PutCause
<1> QED  BY <1>2, <1>3 DEF ServeLogin

\* A refresh is refused for the session it came with, which is dead.
LEMMA ServeRefreshCause == ASSUME Typed, CauseInv, NEW c \in Call, ServeRefresh(c) PROVE CauseInv'
<1>1. IsBusy(c) /\ UNCHANGED cause /\ call[c].phase = "asking"
  BY InPhase DEF ServeRefresh, history
<1>2. CASE Issue(c, "renewed", server)
  BY <1>1, <1>2, IssueCause
<1>3. CASE server[call[c].token] = "dead"
  <2>1. call[c].token \in Session
    BY <1>1, BusyFields DEF Carries
  <2> QED  BY <1>1, <1>3, <2>1 DEF CauseInv
<1> QED  BY <1>2, <1>3 DEF ServeRefresh, Kept

LEMMA CauseStep == Typed /\ CauseInv /\ [Next]_vars => CauseInv'
<1> SUFFICES ASSUME Typed, CauseInv, [Next]_vars PROVE CauseInv'
  OBVIOUS
<1>1. ASSUME NEW c \in Call, Resume(c) PROVE CauseInv'
  <2>1. CASE Fail(c)     BY <2>1, ThrowPlain, PlainCause DEF Fail
  <2>2. CASE Succeed(c)  BY <2>2, SucceedPlain, PlainCause
  <2>3. CASE Denied(c)   BY <2>3, DeniedPlain, PlainCause
  <2>4. CASE Renewed(c)  BY <2>4, RenewedPlain, PlainCause
  <2>5. CASE Refused(c)  BY <2>5, InPhase, BusyFields, OustPlain, PlainCause DEF Refused
  <2> QED  BY <1>1, <2>1, <2>2, <2>3, <2>4, <2>5 DEF Resume
<1>2. ASSUME NEW c \in Call, NEW t \in Tab, Ask(c, t) \/ FetchUser(c, t) PROVE CauseInv'
  <2>1. Plain /\ UNCHANGED <<server, cause>>
    BY <1>2, BeginPlain DEF Ask, FetchUser, Begin
  <2> QED  BY <2>1, WorthsKeep, PlainCause
<1>3. ASSUME NEW c \in Call, NEW t \in Tab, LogIn(c, t) PROVE CauseInv'
  <2> DEFINE r == Sent(t, "login", stored, "first")
  <2>1. r.kind = "login" /\ r.phase = "sent"
    BY DEF Sent
  <2>2. call' = [call EXCEPT ![c] = r] /\ UNCHANGED <<server, cause>>
    BY <1>3 DEF LogIn, Begin
  <2> HIDE DEF r
  <2>3. \A b \in Call : call'[b] = IF b = c THEN r ELSE call[b]
    BY <2>2 DEF Typed
  <2> QED  BY <2>1, <2>2, <2>3 DEF CauseInv, IsBusy
<1>4. ASSUME \/ \E c \in Call : Lose(c) \/ \E t \in Tab : LogOut(c, t)
             \/ \E s \in Session : Lapse(s)
             \/ RevokeElsewhere
      PROVE  CauseInv'
  BY <1>4 DEF Lose, LogOut, Lapse, RevokeElsewhere, Fault, CauseInv
<1>5. CASE (\E s \in Session : Expire(s)) \/ UNCHANGED vars
  <2>1. UNCHANGED <<cause, call>> /\ \A s \in Session : server'[s] = "dead" => server[s] = "dead"
    BY <1>5 DEF Expire, vars, client, history, Typed
  <2> QED  BY <2>1 DEF CauseInv, IsBusy
<1>6. ASSUME NEW t \in Tab, Reload(t) PROVE CauseInv'
  BY <1>6, ReloadPlain, PlainCause
<1> QED
  BY <1>1, <1>2, <1>3, <1>4, <1>5, <1>6, ServeCause, ServeLoginCause, ServeRefreshCause DEF Next

\* Only a logout, and a refresh that was refused, drop tokens.
LEMMA DropStep ==
  ASSUME Typed, CauseInv, [Next]_vars, stored # None, stored' = None PROVE cause = "some"
<1>1. ASSUME NEW c \in Call, call[c].phase = "refused" \/ (IsBusy(c) /\ call[c].kind = "logout") PROVE cause = "some"
  BY <1>1, InPhase DEF CauseInv, Typed
<1>2. ASSUME NEW c \in Call, Throw(c), IsBusy(c) PROVE cause = "some"
  BY <1>1, <1>2 DEF Throw
<1>3. ASSUME NEW c \in Call, Resume(c) PROVE cause = "some"
  <2>1. CASE Fail(c)     BY <1>2, <2>1, InPhase DEF Fail
  <2>2. CASE Succeed(c)  BY <1>1, <2>2, SucceedPlain, InPhase
  <2>3. CASE Denied(c)   BY <1>2, <2>3, InPhase DEF Denied
  <2>4. CASE Renewed(c)  BY <2>4, RenewedPlain
  <2>5. CASE Refused(c)  BY <1>1, <2>5 DEF Refused
  <2> QED  BY <1>3, <2>1, <2>2, <2>3, <2>4, <2>5 DEF Resume
<1>4. ASSUME NEW t \in Tab, Reload(t) PROVE FALSE
  BY <1>4, ReloadPlain
<1>5. ASSUME \/ \E c \in Call : \/ \E t \in Tab : Ask(c, t) \/ FetchUser(c, t) \/ LogOut(c, t) \/ LogIn(c, t)
                                \/ Serve(c) \/ ServeLogin(c) \/ ServeRefresh(c) \/ Lose(c)
             \/ \E s \in Session : Expire(s) \/ Lapse(s)
             \/ RevokeElsewhere \/ UNCHANGED vars
      PROVE  FALSE
  BY <1>5 DEF Ask, FetchUser, LogOut, LogIn, Begin, Serve, ServeLogin, ServeRefresh, Lose,
              Expire, Lapse, RevokeElsewhere, vars, client
<1> QED  BY <1>3, <1>4, <1>5 DEF Next

\* However many tabs and calls refresh the same tokens, a tab drops them only where the
\* user logs out, a session was ended or has expired, or a call was lost.
THEOREM TokensDroppedForCause == Spec => DroppedForCause
<1>1. Init => CauseInv
  BY DEF Init, CauseInv, IsBusy
<1>2. Typed /\ CauseInv /\ [Next]_vars => [stored # None /\ stored' = None => cause = "some"]_vars
  BY DropStep
<1> QED  BY <1>1, <1>2, TypedInit, TypedStep, CauseStep, PTL DEF Spec, DroppedForCause
=============================================================================
