---------------------------- MODULE MCPages_proofs ----------------------------
(***************************************************************************)
(* Theorems about the pages: the way in (SignIn), the wizards (Wizards),   *)
(* the second factor (SecondFactor) and the restore (Restore), each of     *)
(* which is a behaviour of MCPages that visits that page.  For each of     *)
(* them there is an inductive invariant over its own variables, which the  *)
(* theorems at the end turn into what every behaviour of MCPages keeps.    *)
(***************************************************************************)
EXTENDS MCPages, FiniteSetTheorems, SequenceTheorems, NaturalsInduction, TLAPS

-----------------------------------------------------------------------------
(* The way in: values.                                                     *)

ServerType == [setup : BOOLEAN, accounts : SUBSET User, factors : [User -> SUBSET SI!Factor]]
ProvedType == [User -> SUBSET ({"password"} \cup SI!Factor)]
TokensType == [tokens : User \cup {Null}, flag : BOOLEAN, user : User \cup {Null},
               shown : BOOLEAN, dismissed : BOOLEAN]
LoginType == [route : {"login", "setup", "register", "app"}, checking : BOOLEAN,
              stage : SI!Stage, name : User \cup {Null}, partial : User \cup {Null},
              offered : SUBSET SI!Factor, choice : SI!Factor \cup {"none"},
              busy : BOOLEAN, tapping : BOOLEAN, prompt : BOOLEAN]

\* Finitely many calls, no more than the bound; those that name an account name a user.
CallInv ==
  /\ call \subseteq SI!Call /\ IsFiniteSet(call) /\ Cardinality(call) <= MaxCalls
  /\ \A c \in call : c.kind \in {"totp", "setup", "register"} => c.who \in User

\* A code is asked of, and sent for, a user whose password has been accepted.
CodeInv ==
  /\ \A c \in call : c.kind = "totp" => "password" \in proved[c.who]
  /\ login.partial # Null => "password" \in proved[login.partial]

\* The prompt has opened only if the session has noted it, and then nothing is waited for.
PromptInv ==
  /\ listing \in {0, 1} /\ opened \in {0, 1}
  /\ listing = 1 => store.shown = FALSE
  /\ opened = 1 => store.shown = TRUE

SignInv ==
  /\ accounts \in ServerType /\ proved \in ProvedType /\ store \in TokensType /\ login \in LoginType
  /\ fetching \in [User -> 0 .. SI!MaxFetches]
  /\ login.route = "app" => store.flag = TRUE
  /\ CallInv /\ CodeInv /\ PromptInv

LEMMA SignInvTypes == SignInv => SI!TypeOK /\ SI!PromptOpensOnce
<1> SUFFICES ASSUME SignInv PROVE SI!TypeOK /\ SI!PromptOpensOnce
  OBVIOUS
<1>1. SI!Cardinality(call) = Cardinality(call)
  BY DEF SI!Cardinality, Cardinality
<1>2. call \subseteq SI!Call /\ SI!Cardinality(call) <= MaxCalls
  BY <1>1 DEF SignInv, CallInv
<1>3. listing \in 0 .. 2 /\ opened \in 0 .. 2 /\ opened <= 1
  BY DEF SignInv, PromptInv
<1>4. login.route = "app" => store.flag
  BY DEF SignInv
<1> QED
  BY <1>2, <1>3, <1>4 DEF SignInv, SI!TypeOK, SI!PromptOpensOnce, ServerType, ProvedType, TokensType, LoginType

LEMMA MountedIs ==
  ASSUME NEW r \in {"login", "setup", "register", "app"}
  PROVE  SI!Mounted(r) \in LoginType /\ SI!Mounted(r).partial = Null /\ SI!Mounted(r).route = r
BY DEF SI!Mounted, LoginType, SI!Stage

-----------------------------------------------------------------------------
(* The way in: calls.                                                      *)

\* Every call is one of before, live or orphaned.
Fewer == \A c \in call' : \E d \in call : c.kind = d.kind /\ c.who = d.who

LEMMA CallsMapped ==
  ASSUME CallInv, NEW D \in SUBSET call, NEW g \in [D -> SI!Call],
         \A d \in D : g[d].kind = d.kind /\ g[d].who = d.who,
         call' = {g[d] : d \in D}
  PROVE  CallInv' /\ Fewer
<1>1. IsFiniteSet(call) /\ Cardinality(call) <= MaxCalls /\ MaxCalls \in Nat
  BY PagesAssumption DEF CallInv
<1>2. IsFiniteSet(D) /\ Cardinality(D) <= Cardinality(call)
  BY <1>1, FS_Subset
<1>3. IsFiniteSet(call') /\ Cardinality(call') <= Cardinality(D)
  <2> DEFINE T == call'
  <2>1. g \in Surjection(D, T)
    BY DEF Surjection
  <2> HIDE DEF T
  <2>2. IsFiniteSet(T) /\ Cardinality(T) <= Cardinality(D)
    BY <1>2, <2>1, FS_Surjection
  <2> QED  BY <2>2 DEF T
<1>4. Cardinality(call') \in Nat /\ Cardinality(D) \in Nat /\ Cardinality(call) \in Nat
  BY <1>1, <1>2, <1>3, FS_CardinalityType
<1>5. Cardinality(call') <= MaxCalls
  BY <1>1, <1>2, <1>3, <1>4
<1>6. call' \subseteq SI!Call /\ Fewer
  BY DEF Fewer
<1>7. \A c \in call' : c.kind \in {"totp", "setup", "register"} => c.who \in User
  BY <1>6 DEF CallInv, Fewer
<1> QED  BY <1>3, <1>5, <1>6, <1>7 DEF CallInv

LEMMA OrphanIs ==
  ASSUME NEW c \in SI!Call
  PROVE  /\ [c EXCEPT !.live = FALSE] \in SI!Call
         /\ [c EXCEPT !.live = FALSE].kind = c.kind /\ [c EXCEPT !.live = FALSE].who = c.who
BY DEF SI!Call

LEMMA CallsFewer ==
  ASSUME CallInv, NEW D \in SUBSET call,
         \/ call' = D
         \/ call' = SI!Orphaned(D)
         \/ call' = {IF c.kind = "passkey" THEN [c EXCEPT !.live = FALSE] ELSE c : c \in D}
  PROVE  CallInv' /\ Fewer
<1>1. D \subseteq SI!Call
  BY DEF CallInv
<1>2. CASE call' = D
  <2> DEFINE g == [c \in D |-> c]
  <2>1. g \in [D -> SI!Call] /\ call' = {g[c] : c \in D} /\ \A c \in D : g[c].kind = c.kind /\ g[c].who = c.who
    BY <1>1, <1>2
  <2> HIDE DEF g
  <2> QED  BY <2>1, CallsMapped
<1>3. CASE call' = SI!Orphaned(D)
  <2> DEFINE g == [c \in D |-> [c EXCEPT !.live = FALSE]]
  <2>1. g \in [D -> SI!Call] /\ \A c \in D : g[c].kind = c.kind /\ g[c].who = c.who
    BY <1>1, OrphanIs
  <2>2. call' = {g[c] : c \in D}
    BY <1>3 DEF SI!Orphaned
  <2> HIDE DEF g
  <2> QED  BY <2>1, <2>2, CallsMapped
<1>4. CASE call' = {IF c.kind = "passkey" THEN [c EXCEPT !.live = FALSE] ELSE c : c \in D}
  <2> DEFINE g == [c \in D |-> IF c.kind = "passkey" THEN [c EXCEPT !.live = FALSE] ELSE c]
  <2>1. g \in [D -> SI!Call] /\ \A c \in D : g[c].kind = c.kind /\ g[c].who = c.who
    BY <1>1, OrphanIs
  <2>2. call' = {g[c] : c \in D}
    BY <1>4
  <2> HIDE DEF g
  <2> QED  BY <2>1, <2>2, CallsMapped
<1> QED  BY <1>2, <1>3, <1>4

\* A call is answered and taken away.
LEMMA CallDone == ASSUME CallInv, NEW c, SI!Done(c) PROVE CallInv' /\ Fewer
<1> DEFINE D == call \ {c}
<1>1. D \in SUBSET call /\ (call' = D \/ call' = SI!Orphaned(D))
  BY DEF SI!Done
<1> HIDE DEF D
<1> QED  BY <1>1, CallsFewer

\* A call begins.
LEMMA CallBegun ==
  ASSUME CallInv, NEW c \in SI!Call, SI!Begin(c),
         c.kind \in {"totp", "setup", "register"} => c.who \in User
  PROVE  CallInv' /\ call' = call \cup {c}
<1>1. c \notin call /\ SI!Cardinality(call) < MaxCalls /\ call' = call \cup {c}
  BY DEF SI!Begin
<1>2. SI!Cardinality(call) = Cardinality(call)
  BY DEF SI!Cardinality, Cardinality
<1>3. IsFiniteSet(call) /\ MaxCalls \in Nat
  BY PagesAssumption DEF CallInv
<1>4. IsFiniteSet(call \cup {c}) /\ Cardinality(call \cup {c}) = Cardinality(call) + 1
  BY <1>1, <1>3, FS_AddElement
<1>5. Cardinality(call) \in Nat
  BY <1>3, FS_CardinalityType
<1>6. Cardinality(call') <= MaxCalls
  BY <1>1, <1>2, <1>3, <1>4, <1>5
<1> QED  BY <1>1, <1>4, <1>6 DEF CallInv

-----------------------------------------------------------------------------
(* The way in: steps.                                                      *)

\* What a code needs is kept while proofs are only added.
LEMMA CodesKept ==
  ASSUME CodeInv, CallInv, Fewer, \A u \in User : "password" \in proved[u] => "password" \in proved'[u],
         login'.partial # Null => \/ login'.partial = login.partial
                                  \/ "password" \in proved'[login'.partial],
         login.partial \in User \cup {Null}
  PROVE  CodeInv'
BY DEF CodeInv, CallInv, Fewer

\* The page alone changes, or calls of it begin and go.
LEMMA PageStep ==
  ASSUME SignInv, UNCHANGED <<accounts, proved, store, fetching, listing, opened>>,
         login' \in LoginType, login'.partial \in {login.partial, Null},
         login'.route = "app" => login.route = "app", CallInv',
         \A c \in call' : \/ \E d \in call : c.kind = d.kind /\ c.who = d.who
                          \/ c.kind = "totp" => c.who = login.partial /\ c.who # Null
  PROVE  SignInv'
<1>1. CodeInv'
  BY DEF SignInv, CodeInv
<1>2. PromptInv'
  BY DEF SignInv, PromptInv
<1>3. login'.route = "app" => store'.flag = TRUE
  BY DEF SignInv
<1> QED  BY <1>1, <1>2, <1>3 DEF SignInv

LEMMA PageOnly ==
  ASSUME SignInv, UNCHANGED <<accounts, proved, store, fetching, listing, opened>>,
         login' \in LoginType, login'.partial \in {login.partial, Null},
         login'.route = "app" => login.route = "app", CallInv', Fewer
  PROVE  SignInv'
BY PageStep DEF Fewer

\* What a call of the login page may begin with.
LEMMA LoginCall ==
  ASSUME NEW k \in {"setup", "register", "login", "totp", "passkey", "enroll"},
         NEW u \in User \cup {Null}, NEW b \in User \cup {Null}
  PROVE  /\ [kind |-> k, who |-> u, bridge |-> b, live |-> TRUE] \in SI!Call
         /\ [kind |-> k, who |-> u, bridge |-> b, live |-> TRUE].kind = k
         /\ [kind |-> k, who |-> u, bridge |-> b, live |-> TRUE].who = u
BY DEF SI!Call

LEMMA PageActions ==
  ASSUME SignInv, \/ SI!CheckSetup \/ SI!TypeName \/ SI!SwitchStage \/ SI!SwapFactor \/ SI!OpenLogin
                  \/ \E c \in call : SI!Refuse(c)
  PROVE  SignInv'
<1>0. UNCHANGED <<accounts, proved, store, fetching, listing, opened>>
  BY DEF SI!CheckSetup, SI!TypeName, SI!SwitchStage, SI!SwapFactor, SI!OpenLogin, SI!Refuse
<1>1. login \in LoginType /\ CallInv
  BY DEF SignInv
<1>2. call' \in {call, SI!Orphaned(call)} => CallInv' /\ Fewer
  BY <1>1, CallsFewer
<1>3. CASE SI!CheckSetup
  <2>1. login' \in {[login EXCEPT !.checking = FALSE], SI!Mounted("setup")} /\ call' \in {call, SI!Orphaned(call)}
    BY <1>3 DEF SI!CheckSetup
  <2>2. login' \in LoginType /\ login'.partial \in {login.partial, Null} /\ (login'.route = "app" => login.route = "app")
    <3>1. CASE login' = [login EXCEPT !.checking = FALSE]
      BY <1>1, <3>1 DEF LoginType
    <3>2. CASE login' = SI!Mounted("setup")
      BY <3>2, MountedIs
    <3> QED  BY <2>1, <3>1, <3>2
  <2> QED  BY <1>0, <1>2, <2>1, <2>2, PageOnly
<1>4. CASE SI!TypeName
  <2>1. PICK u \in User : login' = [login EXCEPT !.name = u]
    BY <1>4 DEF SI!TypeName
  <2>2. login' \in LoginType /\ login'.partial = login.partial /\ login'.route = login.route
    BY <1>1, <2>1 DEF LoginType
  <2>3. call' = call
    BY <1>4 DEF SI!TypeName
  <2> QED  BY <1>0, <1>2, <2>2, <2>3, PageOnly
<1>5. CASE SI!SwitchStage \/ SI!SwapFactor
  <2>1. CallInv' /\ Fewer
    <3>1. call' = {IF c.kind = "passkey" THEN [c EXCEPT !.live = FALSE] ELSE c : c \in call}
      BY <1>5 DEF SI!SwitchStage, SI!SwapFactor
    <3> QED  BY <1>1, <3>1, CallsFewer
  <2>2. login' \in LoginType /\ login'.partial = login.partial /\ login'.route = login.route
    <3>1. CASE SI!SwitchStage
      <4>1. PICK g \in {"password", "initial"} : login' = [login EXCEPT !.stage = g, !.tapping = FALSE]
        BY <3>1 DEF SI!SwitchStage
      <4> QED  BY <1>1, <4>1 DEF LoginType, SI!Stage
    <3>2. CASE SI!SwapFactor
      <4>1. PICK g \in {"totp", "passkey"} : login' = [login EXCEPT !.choice = g, !.tapping = FALSE]
        BY <3>2 DEF SI!SwapFactor
      <4> QED  BY <1>1, <4>1 DEF LoginType, SI!Factor
    <3> QED  BY <1>5, <3>1, <3>2
  <2> QED  BY <1>0, <2>1, <2>2, PageOnly
<1>6. CASE SI!OpenLogin
  <2>1. login' = SI!Mounted("login") /\ call' = call
    BY <1>6 DEF SI!OpenLogin
  <2>2. login' \in LoginType /\ login'.partial = Null /\ login'.route = "login"
    BY <2>1, MountedIs
  <2> QED  BY <1>0, <1>2, <2>1, <2>2, PageOnly
<1>7. ASSUME NEW c \in call, SI!Refuse(c) PROVE SignInv'
  <2>1. SI!Done(c) /\ login' \in {login, [login EXCEPT !.tapping = FALSE], [login EXCEPT !.busy = FALSE]}
    BY <1>7 DEF SI!Refuse
  <2>2. login' \in LoginType /\ login'.partial = login.partial /\ login'.route = login.route
    BY <1>1, <2>1 DEF LoginType
  <2>3. CallInv' /\ Fewer
    BY <1>1, <2>1, CallDone
  <2> QED  BY <1>0, <2>2, <2>3, PageOnly
<1> QED  BY <1>3, <1>4, <1>5, <1>6, <1>7

\* Calls of the pages.
LEMMA CallActions ==
  ASSUME SignInv, SI!SubmitPassword \/ SI!SubmitTotp \/ SI!TapPasskey \/ SI!SubmitAccount \/ SI!SetUpPasskey
  PROVE  SignInv'
<1>0. UNCHANGED <<accounts, proved, store, fetching, listing, opened>>
  BY DEF SI!SubmitPassword, SI!SubmitTotp, SI!TapPasskey, SI!SubmitAccount, SI!SetUpPasskey
<1>1. login \in LoginType /\ CallInv /\ store.tokens \in User \cup {Null}
  BY DEF SignInv, TokensType
<1>2. login.name \in User \cup {Null} /\ login.partial \in User \cup {Null}
      /\ login.route \in {"login", "setup", "register", "app"}
  BY <1>1 DEF LoginType
<1>3. login' \in {[login EXCEPT !.busy = TRUE], [login EXCEPT !.tapping = TRUE]}
  BY DEF SI!SubmitPassword, SI!SubmitTotp, SI!TapPasskey, SI!SubmitAccount, SI!SetUpPasskey
<1>4. login' \in LoginType /\ login'.partial = login.partial /\ login'.route = login.route
  BY <1>1, <1>3 DEF LoginType
<1>5. ASSUME NEW c \in SI!Call, SI!Begin(c), c.kind \in {"totp", "setup", "register"} => c.who \in User,
             c.kind = "totp" => c.who = login.partial /\ c.who # Null
      PROVE  SignInv'
  <2>1. CallInv' /\ call' = call \cup {c}
    BY <1>1, <1>5, CallBegun
  <2> QED  BY <1>0, <1>4, <1>5, <2>1, PageStep
<1>6. CASE SI!SubmitPassword
  <2> DEFINE c == [kind |-> "login", who |-> login.name, bridge |-> Null, live |-> TRUE]
  <2>1. SI!Begin(c)
    BY <1>6 DEF SI!SubmitPassword
  <2>2. c \in SI!Call /\ c.kind = "login"
    BY <1>2, LoginCall
  <2> HIDE DEF c
  <2> QED  BY <1>5, <2>1, <2>2
<1>7. CASE SI!SubmitTotp
  <2> DEFINE c == [kind |-> "totp", who |-> login.partial, bridge |-> login.partial, live |-> TRUE]
  <2>1. SI!Begin(c) /\ login.partial # Null
    BY <1>7 DEF SI!SubmitTotp
  <2>2. c \in SI!Call /\ c.kind = "totp" /\ c.who = login.partial
    BY <1>2, LoginCall
  <2> HIDE DEF c
  <2> QED  BY <1>2, <1>5, <2>1, <2>2
<1>8. CASE SI!TapPasskey
  <2> DEFINE c == [kind |-> "passkey", who |-> login.name, bridge |-> login.partial, live |-> TRUE]
  <2>1. SI!Begin(c)
    BY <1>8 DEF SI!TapPasskey
  <2>2. c \in SI!Call /\ c.kind = "passkey"
    BY <1>2, LoginCall
  <2> HIDE DEF c
  <2> QED  BY <1>5, <2>1, <2>2
<1>9. CASE SI!SubmitAccount
  <2>1. PICK u \in User : SI!Begin([kind |-> login.route, who |-> u, bridge |-> Null, live |-> TRUE])
    BY <1>9 DEF SI!SubmitAccount
  <2>2. login.route \in {"setup", "register"}
    BY <1>9 DEF SI!SubmitAccount
  <2> DEFINE c == [kind |-> login.route, who |-> u, bridge |-> Null, live |-> TRUE]
  <2>3. c \in SI!Call /\ c.kind = login.route /\ c.who = u
    BY <2>2, LoginCall
  <2>4. SI!Begin(c)
    BY <2>1
  <2> HIDE DEF c
  <2> QED  BY <1>5, <2>2, <2>3, <2>4
<1>10. CASE SI!SetUpPasskey
  <2> DEFINE c == [kind |-> "enroll", who |-> store.tokens, bridge |-> Null, live |-> TRUE]
  <2>1. SI!Begin(c)
    BY <1>10 DEF SI!SetUpPasskey
  <2>2. c \in SI!Call /\ c.kind = "enroll"
    BY <1>1, LoginCall
  <2> HIDE DEF c
  <2> QED  BY <1>5, <2>1, <2>2
<1> QED  BY <1>6, <1>7, <1>8, <1>9, <1>10

\* Accounts made and passkeys enrolled.
LEMMA AccountActions ==
  ASSUME SignInv, NEW c \in call, SI!AnswerAccount(c) \/ SI!AnswerEnroll(c)
  PROVE  SignInv'
<1>0. UNCHANGED <<proved, store, fetching, listing, opened>> /\ SI!Done(c)
  BY DEF SI!AnswerAccount, SI!AnswerEnroll
<1>1. login \in LoginType /\ CallInv /\ accounts \in ServerType
  BY DEF SignInv
<1>2. CallInv' /\ Fewer
  BY <1>0, <1>1, CallDone
<1>3. accounts' \in ServerType /\ login' \in LoginType /\ login'.partial \in {login.partial, Null}
      /\ (login'.route = "app" => login.route = "app")
  <2>1. CASE SI!AnswerAccount(c)
    <3>1. c.who \in User
      BY <1>1, <2>1 DEF SI!AnswerAccount, CallInv
    <3>2. accounts' = [accounts EXCEPT !.setup = TRUE, !.accounts = accounts.accounts \cup {c.who}]
      BY <2>1 DEF SI!AnswerAccount
    <3>3. accounts' \in ServerType
      BY <1>1, <3>1, <3>2 DEF ServerType
    <3>4. login' = SI!Mounted("login")
      BY <2>1 DEF SI!AnswerAccount
    <3> QED  BY <3>3, <3>4, MountedIs
  <2>2. CASE SI!AnswerEnroll(c)
    <3>1. accounts' = [accounts EXCEPT !.factors = [accounts.factors EXCEPT ![c.who] = accounts.factors[c.who] \cup {"passkey"}]]
      BY <2>2 DEF SI!AnswerEnroll
    <3>2. [accounts.factors EXCEPT ![c.who] = accounts.factors[c.who] \cup {"passkey"}] \in [User -> SUBSET SI!Factor]
      BY <1>1 DEF ServerType, SI!Factor
    <3>3. accounts' \in ServerType
      BY <1>1, <3>1, <3>2 DEF ServerType
    <3>4. login' \in {login, [login EXCEPT !.prompt = FALSE, !.busy = FALSE]}
      BY <2>2 DEF SI!AnswerEnroll
    <3>5. login' \in LoginType /\ login'.partial = login.partial /\ login'.route = login.route
      BY <1>1, <3>4 DEF LoginType
    <3> QED  BY <3>3, <3>5
  <2> QED  BY <2>1, <2>2
<1>4. CodeInv'
  BY <1>0, <1>2, <1>3 DEF SignInv, CodeInv, Fewer
<1>5. PromptInv'
  BY <1>0 DEF SignInv, PromptInv
<1>6. login'.route = "app" => store'.flag = TRUE
  BY <1>0, <1>3 DEF SignInv
<1> QED  BY <1>0, <1>2, <1>3, <1>4, <1>5, <1>6 DEF SignInv

\* Tokens are stored.
LEMMA Stored ==
  ASSUME SignInv, NEW u \in User, SI!Store(u)
  PROVE  /\ store' \in TokensType /\ store'.tokens = u /\ store'.flag = TRUE /\ store'.shown = store.shown
         /\ fetching' \in [User -> 0 .. SI!MaxFetches]
         /\ login' \in LoginType /\ login'.partial \in {login.partial, Null}
         /\ UNCHANGED <<listing, opened>>
<1>1. store \in TokensType /\ login \in LoginType /\ fetching \in [User -> 0 .. SI!MaxFetches]
  BY DEF SignInv
<1>2. store' = [store EXCEPT !.tokens = u, !.flag = TRUE]
  BY DEF SI!Store
<1>3. store' \in TokensType /\ store'.tokens = u /\ store'.flag = TRUE /\ store'.shown = store.shown
  BY <1>1, <1>2 DEF TokensType
<1>4. PICK more \in {1, 2} : fetching[u] + more <= SI!MaxFetches /\ fetching' = [fetching EXCEPT ![u] = fetching[u] + more]
  BY DEF SI!Store
<1>5. fetching' \in [User -> 0 .. SI!MaxFetches]
  BY <1>1, <1>4 DEF SI!MaxFetches
<1>6. login' \in {login, SI!Mounted("app")}
  BY DEF SI!Store
<1>7. login' \in LoginType /\ login'.partial \in {login.partial, Null}
  BY <1>1, <1>6, MountedIs
<1>8. UNCHANGED <<listing, opened>>
  BY DEF SI!Store
<1> QED  BY <1>3, <1>5, <1>7, <1>8

\* A proof is added.
LEMMA Proven ==
  ASSUME proved \in ProvedType, NEW u \in User, NEW f \in {"password"} \cup SI!Factor,
         proved' = [proved EXCEPT ![u] = proved[u] \cup {f}]
  PROVE  /\ proved' \in ProvedType /\ f \in proved'[u]
         /\ \A v \in User : proved[v] \subseteq proved'[v]
BY DEF ProvedType

\* The three answers that may store tokens; when they do, these have been earned.
LEMMA ProofActions ==
  ASSUME SignInv, NEW c \in call, SI!AnswerLogin(c) \/ SI!AnswerTotp(c) \/ SI!AnswerPasskey(c)
  PROVE  SignInv' /\ SI!EarnedStep
<1>1. /\ login \in LoginType /\ CallInv /\ accounts \in ServerType /\ proved \in ProvedType
      /\ store \in TokensType /\ CodeInv
  BY DEF SignInv
<1>2. c.who \in User
  BY <1>1 DEF SI!AnswerLogin, SI!AnswerTotp, SI!AnswerPasskey, ServerType, CallInv
<1>3. SI!Done(c) /\ accounts' = accounts
  BY DEF SI!AnswerLogin, SI!AnswerTotp, SI!AnswerPasskey
<1>4. CallInv' /\ Fewer
  BY <1>1, <1>3, CallDone
<1>5. login.partial \in User \cup {Null}
  BY <1>1 DEF LoginType
<1>6. ASSUME SI!Store(c.who), NEW f \in {"password"} \cup SI!Factor,
             proved' = [proved EXCEPT ![c.who] = proved[c.who] \cup {f}],
             \/ f = "passkey"
             \/ f = "totp" /\ "password" \in proved[c.who]
             \/ f = "password" /\ accounts.factors[c.who] = {}
      PROVE  SignInv' /\ SI!EarnedStep
  <2>1. /\ store' \in TokensType /\ store'.tokens = c.who /\ store'.flag = TRUE /\ store'.shown = store.shown
        /\ fetching' \in [User -> 0 .. SI!MaxFetches]
        /\ login' \in LoginType /\ login'.partial \in {login.partial, Null}
        /\ UNCHANGED <<listing, opened>>
    BY <1>2, <1>6, Stored
  <2>2. proved' \in ProvedType /\ f \in proved'[c.who] /\ \A v \in User : proved[v] \subseteq proved'[v]
    BY <1>1, <1>2, <1>6, Proven
  <2>3. CodeInv'
    BY <1>1, <1>4, <1>5, <2>1, <2>2, CodesKept
  <2>4. PromptInv'
    BY <2>1 DEF SignInv, PromptInv
  <2>5. SI!EarnedStep
    BY <1>2, <1>6, <2>1, <2>2 DEF SI!EarnedStep, SI!Earned
  <2> QED  BY <1>3, <1>4, <2>1, <2>2, <2>3, <2>4, <2>5 DEF SignInv
<1>7. CASE SI!AnswerTotp(c)
  <2>1. c.kind = "totp" /\ SI!Store(c.who) /\ proved' = [proved EXCEPT ![c.who] = proved[c.who] \cup {"totp"}]
    BY <1>7 DEF SI!AnswerTotp
  <2>2. "password" \in proved[c.who] /\ "totp" \in {"password"} \cup SI!Factor
    BY <1>1, <2>1 DEF CodeInv, SI!Factor
  <2> QED  BY <1>6, <2>1, <2>2
<1>8. CASE SI!AnswerPasskey(c)
  <2>1. SI!Store(c.who) /\ proved' = [proved EXCEPT ![c.who] = proved[c.who] \cup {"passkey"}]
    BY <1>8 DEF SI!AnswerPasskey
  <2>2. "passkey" \in {"password"} \cup SI!Factor
    BY DEF SI!Factor
  <2> QED  BY <1>6, <2>1, <2>2
<1>9. CASE SI!AnswerLogin(c)
  <2>1. proved' = [proved EXCEPT ![c.who] = proved[c.who] \cup {"password"}]
    BY <1>9 DEF SI!AnswerLogin
  <2>2. CASE SI!Available(c.who) = {}
    <3>1. SI!Store(c.who) /\ accounts.factors[c.who] = {}
      BY <1>9, <2>2 DEF SI!AnswerLogin, SI!Available
    <3> QED  BY <1>6, <2>1, <3>1
  <2>3. CASE SI!Available(c.who) # {}
    <3>1. UNCHANGED <<store, fetching, listing, opened>>
      BY <1>9, <2>3 DEF SI!AnswerLogin
    <3>2. PICK o \in SUBSET SI!Factor, h \in SI!Factor :
            \/ login' = login
            \/ login' = [login EXCEPT !.partial = c.who, !.offered = o, !.choice = h,
                                      !.stage = "second_factor", !.busy = FALSE, !.tapping = FALSE]
      <4>1. SI!Available(c.who) \in SUBSET SI!Factor
        BY <1>1, <1>2 DEF SI!Available, ServerType
      <4>2. \E h \in SI!Factor : h = IF "passkey" \in SI!Available(c.who) THEN "passkey" ELSE "totp"
        BY DEF SI!Factor
      <4> QED  BY <1>9, <2>3, <4>1, <4>2 DEF SI!AnswerLogin
    <3>3. login' \in LoginType /\ login'.partial \in {login.partial, c.who} /\ login'.route = login.route
      <4>1. CASE login' = login
        BY <1>1, <4>1
      <4>2. CASE login' = [login EXCEPT !.partial = c.who, !.offered = o, !.choice = h,
                                        !.stage = "second_factor", !.busy = FALSE, !.tapping = FALSE]
        <5>1. h \in SI!Factor \cup {"none"} /\ "second_factor" \in SI!Stage
          BY DEF SI!Stage
        <5> QED  BY <1>1, <1>2, <4>2, <5>1 DEF LoginType
      <4> QED  BY <3>2, <4>1, <4>2
    <3>4. proved' \in ProvedType /\ "password" \in proved'[c.who] /\ \A v \in User : proved[v] \subseteq proved'[v]
      BY <1>1, <1>2, <2>1, Proven
    <3>5. CodeInv'
      BY <1>1, <1>4, <1>5, <3>3, <3>4, CodesKept
    <3>6. PromptInv'
      BY <3>1 DEF SignInv, PromptInv
    <3>7. SI!EarnedStep
      BY <3>1 DEF SI!EarnedStep
    <3>8. login'.route = "app" => store'.flag = TRUE
      BY <3>1, <3>3 DEF SignInv
    <3> QED  BY <1>3, <1>4, <3>1, <3>3, <3>4, <3>5, <3>6, <3>7, <3>8 DEF SignInv
  <2> QED  BY <2>2, <2>3
<1> QED  BY <1>7, <1>8, <1>9

\* The shell.
LEMMA ShellActions ==
  ASSUME SignInv, \/ \E u \in User : SI!UserFetched(u) \/ SI!FetchFailed(u)
                  \/ SI!Listed \/ SI!ClosePrompt \/ SI!LogOut
  PROVE  SignInv'
<1>1. /\ login \in LoginType /\ CallInv /\ CodeInv /\ PromptInv /\ accounts \in ServerType /\ proved \in ProvedType
      /\ store \in TokensType /\ fetching \in [User -> 0 .. SI!MaxFetches]
      /\ login.route = "app" => store.flag = TRUE
  BY DEF SignInv
<1>2. login.partial \in User \cup {Null}
  BY <1>1 DEF LoginType
<1>3. call' \in {call, SI!Orphaned(call)} => CallInv' /\ Fewer
  BY <1>1, CallsFewer
<1>4. ASSUME NEW u \in User, fetching[u] > 0, fetching' = [fetching EXCEPT ![u] = fetching[u] - 1]
      PROVE  fetching' \in [User -> 0 .. SI!MaxFetches]
  BY <1>1, <1>4 DEF SI!MaxFetches
<1>5. ASSUME NEW u \in User, SI!UserFetched(u) PROVE SignInv'
  <2>1. /\ fetching[u] > 0 /\ fetching' = [fetching EXCEPT ![u] = fetching[u] - 1]
        /\ store' = [store EXCEPT !.user = u, !.flag = TRUE]
        /\ login' \in {login, SI!Mounted("app")} /\ call' \in {call, SI!Orphaned(call)}
        /\ UNCHANGED <<accounts, proved, opened>>
    BY <1>5 DEF SI!UserFetched
  <2>2. listing' = IF store.shown \/ store.dismissed THEN 0 ELSE 1
    BY <1>5 DEF SI!UserFetched, SI!Watch
  <2>3. store' \in TokensType /\ store'.shown = store.shown /\ store'.flag = TRUE
    BY <1>1, <2>1 DEF TokensType
  <2>4. login' \in LoginType /\ login'.partial \in {login.partial, Null}
    BY <1>1, <2>1, MountedIs
  <2>5. PromptInv'
    <3>1. store.shown \in BOOLEAN
      BY <1>1 DEF TokensType
    <3>2. listing' \in {0, 1} /\ (listing' = 1 => store.shown = FALSE)
      BY <2>2, <3>1
    <3> QED  BY <1>1, <2>1, <2>3, <3>2 DEF PromptInv
  <2>6. CodeInv'
    BY <1>1, <1>2, <1>3, <2>1, <2>4, CodesKept
  <2> QED  BY <1>1, <1>3, <1>4, <2>1, <2>3, <2>4, <2>5, <2>6 DEF SignInv
<1>6. ASSUME NEW u \in User, SI!FetchFailed(u) PROVE SignInv'
  <2>1. /\ fetching[u] > 0 /\ fetching' = [fetching EXCEPT ![u] = fetching[u] - 1]
        /\ store' = [store EXCEPT !.user = Null, !.flag = FALSE]
        /\ login' = IF login.route = "app" THEN SI!Mounted("login") ELSE login
        /\ call' \in {call, SI!Orphaned(call)} /\ listing' = 0
        /\ UNCHANGED <<accounts, proved, opened>>
    BY <1>6 DEF SI!FetchFailed
  <2>3. store' \in TokensType /\ store'.shown = store.shown
    BY <1>1, <2>1 DEF TokensType
  <2>4. login' \in LoginType /\ login'.partial \in {login.partial, Null} /\ login'.route # "app"
    BY <1>1, <2>1, MountedIs
  <2>5. PromptInv'
    BY <1>1, <2>1, <2>3 DEF PromptInv
  <2>6. CodeInv'
    BY <1>1, <1>2, <1>3, <2>1, <2>4, CodesKept
  <2> QED  BY <1>1, <1>3, <1>4, <2>1, <2>3, <2>4, <2>5, <2>6 DEF SignInv
<1>7. ASSUME UNCHANGED <<accounts, proved, call, fetching>>, store' \in TokensType, store'.flag = store.flag,
             login' \in LoginType, login'.partial = login.partial, login'.route = login.route, PromptInv'
      PROVE  SignInv'
  <2>1. CallInv' /\ Fewer
    BY <1>3, <1>7
  <2>2. CodeInv'
    BY <1>1, <1>2, <1>7, <2>1, CodesKept
  <2> QED  BY <1>1, <1>7, <2>1, <2>2 DEF SignInv
<1>8. CASE SI!Listed
  <2>1. listing > 0 /\ listing' = listing - 1 /\ UNCHANGED <<accounts, proved, call, fetching>>
    BY <1>8 DEF SI!Listed
  <2>2. listing = 1 /\ listing' = 0 /\ opened = 0 /\ store.shown = FALSE
    BY <1>1, <2>1 DEF PromptInv
  <2>3. CASE UNCHANGED <<store, login, opened>>
    BY <1>1, <1>7, <2>1, <2>2, <2>3 DEF PromptInv
  <2>4. CASE store' = [store EXCEPT !.shown = TRUE] /\ login' = [login EXCEPT !.prompt = TRUE] /\ opened' = opened + 1
    <3>1. store' \in TokensType /\ store'.flag = store.flag /\ store'.shown = TRUE
      BY <1>1, <2>4 DEF TokensType
    <3>2. login' \in LoginType /\ login'.partial = login.partial /\ login'.route = login.route
      BY <1>1, <2>4 DEF LoginType
    <3>3. PromptInv'
      BY <2>2, <2>4, <3>1 DEF PromptInv
    <3> QED  BY <1>7, <2>1, <3>1, <3>2, <3>3
  <2> QED  BY <1>8, <2>3, <2>4 DEF SI!Listed
<1>9. CASE SI!ClosePrompt
  <2>1. /\ login' = [login EXCEPT !.prompt = FALSE] /\ store' \in {store, [store EXCEPT !.dismissed = TRUE]}
        /\ UNCHANGED <<accounts, proved, call, fetching, listing, opened>>
    BY <1>9 DEF SI!ClosePrompt
  <2>2. store' \in TokensType /\ store'.flag = store.flag /\ store'.shown = store.shown
    BY <1>1, <2>1 DEF TokensType
  <2>3. login' \in LoginType /\ login'.partial = login.partial /\ login'.route = login.route
    BY <1>1, <2>1 DEF LoginType
  <2>4. PromptInv'
    BY <1>1, <2>1, <2>2 DEF PromptInv
  <2> QED  BY <1>7, <2>1, <2>2, <2>3, <2>4
<1>10. CASE SI!LogOut
  <2>1. /\ call = {} /\ login' = SI!Mounted("login") /\ listing' = 0 /\ proved' = [u \in User |-> {}]
        /\ store' = [store EXCEPT !.tokens = Null, !.flag = FALSE, !.user = Null]
        /\ UNCHANGED <<accounts, call, fetching, opened>>
    BY <1>10 DEF SI!LogOut
  <2>2. store' \in TokensType /\ store'.shown = store.shown
    BY <1>1, <2>1 DEF TokensType
  <2>3. login' \in LoginType /\ login'.partial = Null /\ login'.route = "login"
    BY <2>1, MountedIs
  <2>4. proved' \in ProvedType
    BY <2>1 DEF ProvedType
  <2>5. PromptInv'
    BY <1>1, <2>1, <2>2 DEF PromptInv
  <2>6. CodeInv'
    BY <2>1, <2>3 DEF CodeInv
  <2> QED  BY <1>1, <1>3, <2>1, <2>2, <2>3, <2>4, <2>5, <2>6 DEF SignInv
<1> QED  BY <1>5, <1>6, <1>8, <1>9, <1>10

\* No other action stores tokens.
LEMMA TokensKept ==
  ASSUME SignInv, \/ SI!CheckSetup \/ SI!TypeName \/ SI!SwitchStage \/ SI!SwapFactor
                  \/ SI!SubmitPassword \/ SI!SubmitTotp \/ SI!TapPasskey \/ SI!SubmitAccount \/ SI!OpenLogin
                  \/ \E c \in call : SI!AnswerAccount(c) \/ SI!AnswerEnroll(c) \/ SI!Refuse(c)
                  \/ \E u \in User : SI!UserFetched(u) \/ SI!FetchFailed(u)
                  \/ SI!Listed \/ SI!ClosePrompt \/ SI!SetUpPasskey \/ SI!LogOut
  PROVE  SI!EarnedStep
<1>1. store \in TokensType
  BY DEF SignInv
<1>2. \/ store' = store
      \/ \E u \in User : store' = [store EXCEPT !.user = u, !.flag = TRUE]
      \/ store' = [store EXCEPT !.user = Null, !.flag = FALSE]
      \/ store' = [store EXCEPT !.shown = TRUE]
      \/ store' = [store EXCEPT !.dismissed = TRUE]
      \/ store' = [store EXCEPT !.tokens = Null, !.flag = FALSE, !.user = Null]
  BY DEF SI!CheckSetup, SI!TypeName, SI!SwitchStage, SI!SwapFactor, SI!SubmitPassword, SI!SubmitTotp,
         SI!TapPasskey, SI!SubmitAccount, SI!OpenLogin, SI!AnswerAccount, SI!AnswerEnroll, SI!Refuse,
         SI!UserFetched, SI!FetchFailed, SI!Listed, SI!ClosePrompt, SI!SetUpPasskey, SI!LogOut
<1>3. store'.tokens \in {store.tokens, Null}
  BY <1>1, <1>2 DEF TokensType
<1> QED  BY <1>3 DEF SI!EarnedStep

LEMMA SignInStep == SignInv /\ [SI!Next]_SI!vars => SignInv' /\ SI!EarnedStep
<1> SUFFICES ASSUME SignInv, [SI!Next]_SI!vars PROVE SignInv' /\ SI!EarnedStep
  OBVIOUS
<1>1. CASE UNCHANGED SI!vars
  BY <1>1 DEF SI!vars, SignInv, CallInv, CodeInv, PromptInv, SI!EarnedStep
<1>2. CASE SI!Next
  BY <1>2, PageActions, CallActions, AccountActions, ProofActions, ShellActions, TokensKept DEF SI!Next
<1> QED  BY <1>1, <1>2

LEMMA SignInInit == SI!Init => SignInv
<1> SUFFICES ASSUME SI!Init PROVE SignInv
  OBVIOUS
<1>1. accounts \in ServerType
  BY DEF SI!Init, ServerType
<1>2. proved \in ProvedType
  BY DEF SI!Init, ProvedType
<1>3. store = [tokens |-> Null, flag |-> FALSE, user |-> Null, shown |-> FALSE, dismissed |-> FALSE]
  BY DEF SI!Init
<1>4. store \in TokensType /\ store.shown = FALSE
  BY <1>3 DEF TokensType
<1>5. login \in LoginType /\ login.partial = Null /\ login.route # "app"
  BY MountedIs DEF SI!Init
<1>6. fetching \in [User -> 0 .. SI!MaxFetches]
  BY DEF SI!Init, SI!MaxFetches
<1>7. CallInv
  <2>1. call = {} /\ MaxCalls \in Nat
    BY PagesAssumption DEF SI!Init
  <2>2. IsFiniteSet({}) /\ Cardinality({}) = 0
    BY FS_EmptySet
  <2> QED  BY <2>1, <2>2 DEF CallInv
<1>8. CodeInv
  BY <1>5 DEF SI!Init, CodeInv
<1>9. PromptInv
  BY <1>4 DEF SI!Init, PromptInv
<1> QED  BY <1>1, <1>2, <1>4, <1>5, <1>6, <1>7, <1>8, <1>9 DEF SignInv

-----------------------------------------------------------------------------
(* Lists.                                                                  *)

\* A list of bounded length.
LEMMA ListsIs ==
  ASSUME NEW S, NEW s PROVE s \in WZ!Lists(S) <=> s \in Seq(S) /\ Len(s) <= MaxTargets
<1>1. MaxTargets \in Nat
  BY PagesAssumption
<1>2. ASSUME s \in WZ!Lists(S) PROVE s \in Seq(S) /\ Len(s) <= MaxTargets
  <2>1. PICK m \in 0 .. MaxTargets : s \in [1 .. m -> S]
    BY <1>2 DEF WZ!Lists, WZ!SeqOf
  <2> QED  BY <1>1, <2>1
<1>3. ASSUME s \in Seq(S), Len(s) <= MaxTargets PROVE s \in WZ!Lists(S)
  <2>1. Len(s) \in 0 .. MaxTargets /\ s \in [1 .. Len(s) -> S]
    BY <1>1, <1>3
  <2> QED  BY <2>1 DEF WZ!Lists, WZ!SeqOf
<1> QED  BY <1>2, <1>3

LEMMA RemoveAtIs == ASSUME NEW S, NEW s \in Seq(S), NEW i \in 1 .. Len(s)
  PROVE  /\ WZ!RemoveAt(s,i) \in Seq(S) /\ Len(WZ!RemoveAt(s,i)) = Len(s) - 1
         /\ \A k \in 1 .. Len(s) - 1 : WZ!RemoveAt(s,i)[k] = IF k < i THEN s[k] ELSE s[k+1]
<1> DEFINE u == SubSeq(s, 1, i - 1)
           v == SubSeq(s, i + 1, Len(s))
<1>1. i \in Nat /\ i >= 1 /\ i <= Len(s) /\ Len(s) \in Nat
  OBVIOUS
<1>2. u \in Seq(S) /\ Len(u) = i - 1 /\ \A k \in 1 .. i - 1 : u[k] = s[k]
  BY <1>1
<1>3. v \in Seq(S) /\ Len(v) = Len(s) - i /\ \A k \in 1 .. Len(s) - i : v[k] = s[k + i]
  BY <1>1
<1> HIDE DEF u, v
<1>4. u \o v \in Seq(S) /\ Len(u \o v) = Len(s) - 1
  <2>1. u \o v \in Seq(S) /\ Len(u \o v) = Len(u) + Len(v)
    BY <1>2, <1>3, ConcatProperties
  <2> QED  BY <1>1, <1>2, <1>3, <2>1
<1>5. ASSUME NEW k \in 1 .. Len(s) - 1 PROVE (u \o v)[k] = IF k < i THEN s[k] ELSE s[k + 1]
  <2>1. CASE k < i
    BY <1>1, <1>2, <1>3, <2>1
  <2>2. CASE ~(k < i)
    <3>1. (u \o v)[k] = v[k - (i - 1)]
      BY <1>1, <1>2, <1>3, <2>2
    <3>2. k - (i - 1) \in 1 .. Len(s) - i /\ k - (i - 1) + i = k + 1
      BY <1>1, <2>2
    <3>3. v[k - (i - 1)] = s[k - (i - 1) + i]
      BY <1>3, <3>2
    <3> QED  BY <2>2, <3>1, <3>2, <3>3
  <2> QED  BY <2>1, <2>2
<1> QED  BY <1>4, <1>5 DEF u, v, WZ!RemoveAt

-----------------------------------------------------------------------------
(* The wizards.                                                            *)

\* What a target in a dialog may be: complete, or without the id it needs.
Sound(targets) == \A k \in DOMAIN targets : targets[k].id = Null \/ WZ!Fits(targets[k])
Complete(targets) == \A k \in DOMAIN targets : WZ!Fits(targets[k])

FormType == [open : BOOLEAN, id : QuickAction \cup {Null}, step : 1 .. Len(WZ!Steps[kind]), named : BOOLEAN,
             targets : WZ!Lists(WZ!Target), triggers : 0 .. MaxTargets]

\* The dialog has a trigger and sound targets, complete ones past their step; so has what
\* is sent, and what is stored.
FormInv ==
  /\ Sound(form.targets) /\ form.triggers > 0
  /\ kind = "quick" /\ form.step > 2 => WZ!CanProceedTargets
  /\ kind = "schedule" => form.id = Null
SaveInv(s) ==
  saving[s] # WZ!Nothing =>
    /\ Sound(saving[s].targets)
    /\ kind = "quick" => Complete(saving[s].targets)
    /\ kind = "schedule" => saving[s].triggers > 0 /\ saving[s].id = Null
WizardInv ==
  /\ WZ!TypeOK
  /\ WZ!StoredFormsFit
  /\ WZ!RunningIsRunning
  /\ FormInv
  /\ \A s \in {"new", "edit"} : SaveInv(s)

LEMMA KindsOfTargets == WZ!Type = {"device", "all"}
BY DEF WZ!Type

\* A target without an id is one, and can stand in a dialog.
LEMMA BlankTarget ==
  ASSUME NEW t \in WZ!Type
  PROVE  /\ [type |-> t, id |-> Null] \in WZ!Target
         /\ t = "all" => WZ!Fits([type |-> t, id |-> Null])
BY DEF WZ!Target, WZ!Fits

LEMMA TargetType == ASSUME NEW x \in WZ!Target PROVE x.type \in WZ!Type /\ x = [type |-> x.type, id |-> x.id]
BY DEF WZ!Target

\* A target that is chosen fits.
LEMMA ChosenTarget ==
  ASSUME NEW x \in WZ!Target, NEW i \in [device |-> {"lamp"}, all |-> {}][x.type]
  PROVE  [x EXCEPT !.id = i] \in WZ!Target /\ WZ!Fits([x EXCEPT !.id = i])
<1>1. x.type \in {"device", "all"} /\ x = [type |-> x.type, id |-> x.id]
  BY TargetType, KindsOfTargets
<1>2. x.type = "device" /\ i = "lamp"
  BY <1>1
<1>3. [x EXCEPT !.id = i] = [type |-> "device", id |-> "lamp"]
  BY <1>1, <1>2
<1>4. "lamp" \in [device |-> {"lamp"}, all |-> {}]["device"] /\ "device" \in DOMAIN [device |-> {"lamp"}, all |-> {}]
  OBVIOUS
<1>5. [type |-> "device", id |-> "lamp"] \in WZ!Target
  BY <1>4 DEF WZ!Target, WZ!Type
<1> QED  BY <1>3, <1>4, <1>5 DEF WZ!Fits

\* What may go on past the step of the targets is complete.
LEMMA ProceedComplete ==
  ASSUME form.targets \in Seq(WZ!Target), Sound(form.targets), WZ!CanProceedTargets
  PROVE  Complete(form.targets)
BY DEF Sound, Complete, WZ!CanProceedTargets, WZ!Fits

LEMMA CompleteSound == ASSUME NEW x, Complete(x) PROVE Sound(x)
BY DEF Complete, Sound

\* The list a dialog begins with.
LEMMA AllTarget ==
  /\ <<[type |-> "all", id |-> Null]>> \in WZ!Lists(WZ!Target)
  /\ Complete(<<[type |-> "all", id |-> Null]>>)
<1>1. [type |-> "all", id |-> Null] \in WZ!Target /\ WZ!Fits([type |-> "all", id |-> Null])
  BY BlankTarget, KindsOfTargets
<1> DEFINE x == <<[type |-> "all", id |-> Null]>>
<1>2. x \in Seq(WZ!Target) /\ Len(x) = 1
  BY <1>1
<1>3. Complete(x)
  BY <1>1 DEF Complete
<1>4. MaxTargets \in Nat \ {0}
  BY PagesAssumption
<1> HIDE DEF x
<1>5. x \in WZ!Lists(WZ!Target)
  <2>1. Len(x) <= MaxTargets
    BY <1>2, <1>4
  <2> QED  BY <1>2, <2>1, ListsIs
<1> QED  BY <1>3, <1>5 DEF x

LEMMA NoTargets == <<>> \in WZ!Lists(WZ!Target) /\ Complete(<<>>)
<1> DEFINE x == <<>>
<1>1. x \in Seq(WZ!Target) /\ Len(x) = 0 /\ MaxTargets \in Nat
  BY PagesAssumption
<1>2. Complete(x)
  BY DEF Complete
<1> HIDE DEF x
<1>3. Len(x) <= MaxTargets
  BY <1>1
<1>4. x \in WZ!Lists(WZ!Target)
  BY <1>1, <1>3, ListsIs
<1> QED  BY <1>2, <1>4 DEF x

LEMMA BlankIs ==
  ASSUME kind \in {"quick", "schedule"}
  PROVE  /\ WZ!BlankForm \in FormType
         /\ Sound(WZ!BlankForm.targets) /\ WZ!BlankForm.triggers = 1 /\ WZ!BlankForm.step = 1
         /\ WZ!BlankForm.id = Null
<1>1. WZ!BlankForm.targets = <<[type |-> "all", id |-> Null]>>
  BY DEF WZ!BlankForm
<1>2. 1 \in 1 .. Len(WZ!Steps[kind]) /\ 1 \in 0 .. MaxTargets
  <2>1. Len(WZ!Steps["quick"]) = 4 /\ Len(WZ!Steps["schedule"]) = 5
    BY DEF WZ!Steps
  <2>2. Len(WZ!Steps[kind]) \in {4, 5}
    BY <2>1
  <2>3. MaxTargets \in Nat \ {0}
    BY PagesAssumption
  <2> DEFINE n == Len(WZ!Steps[kind])
  <2> HIDE DEF n
  <2>4. 1 \in 1 .. n
    <3>1. n \in {4, 5}
      BY <2>2 DEF n
    <3> QED  BY <3>1
  <2>5. 1 \in 0 .. MaxTargets
    BY <2>3
  <2> QED  BY <2>4, <2>5 DEF n
<1>3. WZ!BlankForm \in FormType
  BY <1>2, AllTarget DEF FormType, WZ!BlankForm
<1> QED  BY <1>1, <1>3, AllTarget, CompleteSound DEF WZ!BlankForm

LEMMA NothingIs ==
  /\ WZ!Nothing \in WZ!Save
  /\ WZ!Nothing \in [targets : WZ!Lists(WZ!Target), triggers : 0 .. MaxTargets, id : {Null}]
  /\ Sound(WZ!Nothing.targets)
BY NoTargets, CompleteSound, PagesAssumption DEF WZ!Nothing, WZ!Save

\* The dialog alone changes.
LEMMA FormPut ==
  ASSUME WizardInv, UNCHANGED WZ!others, form' \in FormType, FormInv' PROVE WizardInv'
<1>1. WZ!TypeOK'
  BY DEF WizardInv, WZ!TypeOK, WZ!others, FormType
<1> QED
  BY <1>1 DEF WizardInv, WZ!others, WZ!StoredFormsFit, WZ!Fits, WZ!RunningIsRunning, SaveInv, Sound, Complete

\* What the inductive invariant says of the dialog.
LEMMA FormIs ==
  ASSUME WizardInv
  PROVE  /\ form \in FormType /\ kind \in {"quick", "schedule"}
         /\ form.targets \in Seq(WZ!Target) /\ Len(form.targets) <= MaxTargets
         /\ Sound(form.targets) /\ form.triggers > 0
         /\ kind = "quick" /\ form.step > 2 => WZ!CanProceedTargets
         /\ kind = "schedule" => form.id = Null
<1>1. form \in FormType /\ kind \in {"quick", "schedule"} /\ FormInv
  BY DEF WizardInv, WZ!TypeOK, FormType
<1>2. form.targets \in WZ!Lists(WZ!Target)
  BY <1>1 DEF FormType
<1> QED  BY <1>1, <1>2, ListsIs DEF FormInv

\* Opening, closing, moving between the steps.
LEMMA FormSteps ==
  ASSUME WizardInv,
         \/ WZ!OpenCreate \/ WZ!Close \/ WZ!NextStep \/ WZ!Back \/ WZ!TypeName
         \/ WZ!AddTrigger \/ WZ!RemoveTrigger
  PROVE  WizardInv'
<1>0. UNCHANGED WZ!others /\ UNCHANGED kind
  BY DEF WZ!OpenCreate, WZ!Close, WZ!NextStep, WZ!Back, WZ!TypeName, WZ!AddTrigger, WZ!RemoveTrigger, WZ!others
<1>1. /\ form \in FormType /\ kind \in {"quick", "schedule"}
      /\ Sound(form.targets) /\ form.triggers > 0
      /\ kind = "quick" /\ form.step > 2 => WZ!CanProceedTargets
      /\ kind = "schedule" => form.id = Null
      /\ MaxTargets \in Nat \ {0}
  BY FormIs, PagesAssumption
<1>2. /\ form.step \in 1 .. Len(WZ!Steps[kind]) /\ form.triggers \in 0 .. MaxTargets
      /\ Len(WZ!Steps[kind]) \in {4, 5}
      /\ WZ!Steps["quick"][2] = "targets" /\ WZ!Steps["quick"][1] = "name"
  BY <1>1 DEF FormType, WZ!Steps
<1>3. ASSUME form' \in FormType, Sound(form'.targets), form'.triggers > 0, kind = "schedule" => form'.id = Null,
             kind = "quick" /\ form'.step > 2 => form'.targets = form.targets /\ WZ!CanProceedTargets
      PROVE  WizardInv'
  <2>1. WZ!CanProceedTargets /\ form'.targets = form.targets => WZ!CanProceedTargets'
    BY DEF WZ!CanProceedTargets
  <2>2. FormInv'
    BY <1>0, <1>3, <2>1 DEF FormInv, Sound, WZ!Fits
  <2> QED  BY <1>0, <1>3, <2>2, FormPut
<1>4. ASSUME form' \in {form, [form EXCEPT !.open = TRUE], [form EXCEPT !.open = FALSE], [form EXCEPT !.named = ~form.named]}
      PROVE  WizardInv'
  <2>1. form' \in FormType /\ form'.targets = form.targets /\ form'.triggers = form.triggers
        /\ form'.id = form.id /\ form'.step = form.step
    BY <1>1, <1>4 DEF FormType
  <2> QED  BY <1>1, <1>3, <2>1
<1>5. ASSUME form' \in {WZ!BlankForm, [WZ!BlankForm EXCEPT !.open = TRUE]} PROVE WizardInv'
  <2>1. form' \in FormType /\ form'.targets = WZ!BlankForm.targets /\ form'.triggers = 1 /\ form'.id = Null /\ form'.step = 1
    BY <1>1, <1>5, BlankIs DEF FormType
  <2> QED  BY <1>1, <1>3, <2>1, BlankIs
<1>6. CASE WZ!OpenCreate
  BY <1>4, <1>5, <1>6 DEF WZ!OpenCreate
<1>7. CASE WZ!Close
  BY <1>4, <1>5, <1>7 DEF WZ!Close, WZ!Closed
<1>8. CASE WZ!TypeName
  BY <1>4, <1>8 DEF WZ!TypeName
<1>9. CASE WZ!Back
  <2>1. form' = [form EXCEPT !.step = form.step - 1] /\ form.step > 1
    BY <1>9 DEF WZ!Back
  <2>2. form' \in FormType /\ form'.targets = form.targets /\ form'.triggers = form.triggers
        /\ form'.id = form.id /\ form'.step = form.step - 1
    BY <1>1, <1>2, <2>1 DEF FormType
  <2> QED  BY <1>1, <1>2, <1>3, <2>2
<1>10. CASE WZ!NextStep
  <2>1. form' = [form EXCEPT !.step = form.step + 1] /\ form.step < Len(WZ!Steps[kind]) /\ form.open /\ WZ!MayLeave
    BY <1>10 DEF WZ!NextStep
  <2>2. form' \in FormType /\ form'.targets = form.targets /\ form'.triggers = form.triggers
        /\ form'.id = form.id /\ form'.step = form.step + 1
    BY <1>1, <1>2, <2>1 DEF FormType
  <2>3. kind = "quick" /\ form.step + 1 > 2 => WZ!CanProceedTargets
    <3>1. kind = "quick" /\ form.step = 2 => WZ!CanProceedTargets
      BY <1>2, <2>1 DEF WZ!MayLeave, WZ!At
    <3> QED  BY <1>1, <1>2, <3>1
  <2> QED  BY <1>1, <1>3, <2>2, <2>3
<1>11. CASE WZ!AddTrigger \/ WZ!RemoveTrigger
  <2>1. PICK n \in 1 .. MaxTargets : form' = [form EXCEPT !.triggers = n]
    <3>1. CASE WZ!AddTrigger
      <4>1. form.triggers + 1 \in 1 .. MaxTargets
        BY <1>1, <1>2, <3>1 DEF WZ!AddTrigger
      <4>2. form' = [form EXCEPT !.triggers = form.triggers + 1]
        BY <3>1 DEF WZ!AddTrigger
      <4> QED  BY <4>1, <4>2
    <3>2. CASE WZ!RemoveTrigger
      <4>1. form.triggers - 1 \in 1 .. MaxTargets
        BY <1>1, <1>2, <3>2 DEF WZ!RemoveTrigger
      <4>2. form' = [form EXCEPT !.triggers = form.triggers - 1]
        BY <3>2 DEF WZ!RemoveTrigger
      <4> QED  BY <4>1, <4>2
    <3> QED  BY <1>11, <3>1, <3>2
  <2>2. form' \in FormType /\ form'.targets = form.targets /\ form'.triggers > 0
        /\ form'.id = form.id /\ form'.step = form.step
    BY <1>1, <1>2, <2>1 DEF FormType
  <2> QED  BY <1>1, <1>3, <2>2
<1> QED  BY <1>6, <1>7, <1>8, <1>9, <1>10, <1>11

\* Targets are edited in their own step only.
LEMMA TargetSteps ==
  ASSUME WizardInv, \/ WZ!AddTarget
                    \/ \E k \in DOMAIN form.targets : WZ!RemoveTarget(k) \/ WZ!ChangeTarget(k)
  PROVE  WizardInv'
<1>0. UNCHANGED WZ!others /\ UNCHANGED kind /\ WZ!At("targets")
  BY DEF WZ!AddTarget, WZ!RemoveTarget, WZ!ChangeTarget, WZ!others
<1>1. /\ form \in FormType /\ kind \in {"quick", "schedule"}
      /\ Sound(form.targets) /\ form.triggers > 0
      /\ kind = "schedule" => form.id = Null
      /\ form.targets \in Seq(WZ!Target) /\ Len(form.targets) <= MaxTargets
      /\ MaxTargets \in Nat \ {0}
  BY FormIs, PagesAssumption
<1>2. kind = "quick" => form.step = 2
  <2>1. form.step \in 1 .. Len(WZ!Steps[kind]) /\ WZ!Steps[kind][form.step] = "targets"
    BY <1>0, <1>1 DEF FormType, WZ!At
  <2> QED  BY <2>1 DEF WZ!Steps
<1>3. ASSUME NEW x \in Seq(WZ!Target), Len(x) <= MaxTargets, Sound(x), form' = [form EXCEPT !.targets = x]
      PROVE  WizardInv'
  <2>1. form' \in FormType /\ form'.targets = x /\ form'.triggers = form.triggers
        /\ form'.id = form.id /\ form'.step = form.step
    BY <1>1, <1>3, ListsIs DEF FormType
  <2>2. FormInv'
    BY <1>0, <1>1, <1>2, <1>3, <2>1 DEF FormInv, Sound, WZ!Fits
  <2> QED  BY <1>0, <2>1, <2>2, FormPut
<1>4. CASE WZ!AddTarget
  <2> DEFINE e == [type |-> "all", id |-> Null]
             x == Append(form.targets, e)
  <2>1. e \in WZ!Target /\ WZ!Fits(e)
    BY BlankTarget, KindsOfTargets
  <2>2. form' = [form EXCEPT !.targets = x] /\ Len(form.targets) < MaxTargets
    BY <1>4 DEF WZ!AddTarget
  <2> HIDE DEF e
  <2>3. x \in Seq(WZ!Target) /\ Len(x) <= MaxTargets
    BY <1>1, <2>1, <2>2
  <2>4. Sound(x)
    BY <1>1, <2>1 DEF Sound
  <2> QED  BY <1>3, <2>2, <2>3, <2>4
<1>5. ASSUME NEW k \in DOMAIN form.targets, WZ!RemoveTarget(k) PROVE WizardInv'
  <2> DEFINE x == WZ!RemoveAt(form.targets, k)
  <2>1. k \in 1 .. Len(form.targets)
    BY <1>1
  <2>2. /\ x \in Seq(WZ!Target) /\ Len(x) = Len(form.targets) - 1
        /\ \A i \in 1 .. Len(form.targets) - 1 : x[i] = IF i < k THEN form.targets[i] ELSE form.targets[i + 1]
    BY <1>1, <2>1, RemoveAtIs
  <2>3. form' = [form EXCEPT !.targets = x]
    BY <1>5 DEF WZ!RemoveTarget
  <2> HIDE DEF x
  <2>4. \A i \in DOMAIN x : \E n \in DOMAIN form.targets : x[i] = form.targets[n]
    BY <1>1, <2>1, <2>2
  <2>5. Sound(x)
    BY <1>1, <2>4 DEF Sound
  <2> QED  BY <1>1, <1>3, <2>2, <2>3, <2>5
<1>6. ASSUME NEW k \in DOMAIN form.targets, NEW e \in WZ!Target, e.id = Null \/ WZ!Fits(e),
             form' = [form EXCEPT !.targets = [form.targets EXCEPT ![k] = e]]
      PROVE  WizardInv'
  <2> DEFINE x == [form.targets EXCEPT ![k] = e]
  <2>1. x \in Seq(WZ!Target) /\ Len(x) = Len(form.targets) /\ \A i \in DOMAIN x : i \in DOMAIN form.targets /\ x[i] = IF i = k THEN e ELSE form.targets[i]
    BY <1>1, <1>6
  <2> HIDE DEF x
  <2>2. Sound(x)
    BY <1>1, <1>6, <2>1 DEF Sound
  <2> QED  BY <1>1, <1>3, <1>6, <2>1, <2>2 DEF x
<1>7. ASSUME NEW k \in DOMAIN form.targets, WZ!ChangeTarget(k) PROVE WizardInv'
  <2>0. form.targets[k] \in WZ!Target
    BY <1>1
  <2>1. CASE \E t \in WZ!Type : form' = [form EXCEPT !.targets[k] = WZ!Retyped(@, t)]
    <3>1. PICK t \in WZ!Type : form' = [form EXCEPT !.targets = [form.targets EXCEPT ![k] = [type |-> t, id |-> Null]]]
      BY <2>1 DEF WZ!Retyped
    <3> QED  BY <1>6, <3>1, BlankTarget
  <2>2. CASE \E i \in [device |-> {"lamp"}, all |-> {}][form.targets[k].type] : form' = [form EXCEPT !.targets[k].id = i]
    <3>1. PICK i \in [device |-> {"lamp"}, all |-> {}][form.targets[k].type] :
            form' = [form EXCEPT !.targets = [form.targets EXCEPT ![k] = [form.targets[k] EXCEPT !.id = i]]]
      BY <2>2
    <3> QED  BY <1>6, <2>0, <3>1, ChosenTarget
  <2> QED  BY <1>7, <2>1, <2>2 DEF WZ!ChangeTarget
<1> QED  BY <1>4, <1>5, <1>7

-----------------------------------------------------------------------------
(* Saving, running, deleting.                                              *)

\* The bound on what waits bounds the executions of each quick action.
LEMMA RunningBound ==
  ASSUME WZ!TypeOK, WZ!Outstanding < MaxRequests, NEW i \in QuickAction
  PROVE  running[i] < MaxRequests
<1> DEFINE E == {e \in QuickAction \X (1 .. MaxRequests) : e[2] <= running[e[1]]}
           D == {s \in {"new", "edit"} : saving[s] # WZ!Nothing}
           R == {<<i, k>> : k \in 1 .. MaxRequests}
<1>1. MaxRequests \in Nat /\ IsFiniteSet(QuickAction) /\ running[i] \in 0 .. MaxRequests
  BY PagesAssumption DEF WZ!TypeOK
<1>2. IsFiniteSet(1 .. MaxRequests) /\ Cardinality(1 .. MaxRequests) = MaxRequests
  BY <1>1, FS_Interval
<1>3. IsFiniteSet(E)
  <2>1. IsFiniteSet(QuickAction \X (1 .. MaxRequests))
    BY <1>1, <1>2, FS_Product
  <2> QED  BY <2>1, FS_Subset
<1>4. IsFiniteSet(D)
  <2>1. IsFiniteSet({"new", "edit"})
    <3>1. IsFiniteSet({"new"})
      BY FS_Singleton
    <3>2. {"new", "edit"} = {"new"} \cup {"edit"}
      OBVIOUS
    <3> QED  BY <3>1, <3>2, FS_AddElement
  <2> QED  BY <2>1, FS_Subset
<1>5. Cardinality(E) \in Nat /\ Cardinality(D) \in Nat
  BY <1>3, <1>4, FS_CardinalityType
<1>6. WZ!Cardinality(E) = Cardinality(E) /\ WZ!Cardinality(D) = Cardinality(D)
  BY DEF WZ!Cardinality, Cardinality
<1>7. WZ!Outstanding = WZ!Cardinality(D) + (IF removing = Null THEN 0 ELSE 1) + WZ!Cardinality(E)
  BY DEF WZ!Outstanding
<1>8. Cardinality(E) < MaxRequests
  <2> HIDE DEF E, D
  <2> QED  BY <1>1, <1>5, <1>6, <1>7
<1>9. ASSUME running[i] = MaxRequests PROVE FALSE
  <2>1. R \subseteq E
    BY <1>1, <1>9
  <2> DEFINE f == [k \in 1 .. MaxRequests |-> <<i, k>>]
  <2>2. f \in Bijection(1 .. MaxRequests, R)
    BY DEF Bijection, Injection, Surjection, IsInjective
  <2> HIDE DEF R, f, E
  <2>3. Cardinality(R) = MaxRequests
    <3> DEFINE N == 1 .. MaxRequests
    <3>1. IsFiniteSet(N) /\ Cardinality(N) = MaxRequests /\ f \in Bijection(N, R)
      BY <1>2, <2>2
    <3> HIDE DEF N
    <3>2. ExistsBijection(N, R)
      BY <3>1 DEF ExistsBijection
    <3> QED  BY <3>1, <3>2, FS_Bijection
  <2>4. Cardinality(R) <= Cardinality(E)
    BY <1>3, <2>1, FS_Subset
  <2> QED  BY <1>1, <1>5, <1>8, <2>3, <2>4
<1> QED  BY <1>1, <1>9

\* The parts of the inductive invariant.
FormPart == form \in FormType /\ FormInv
StorePart ==
  /\ stored \in [QuickAction -> WZ!Lists(WZ!Target)]
  /\ schedules \in [targets : WZ!Lists(WZ!Target), triggers : 0 .. MaxTargets, id : {Null}]
  /\ WZ!StoredFormsFit
SavePart == saving \in [{"new", "edit"} -> WZ!Save] /\ \A s \in {"new", "edit"} : SaveInv(s)
RunPart ==
  /\ running \in [QuickAction -> 0 .. MaxRequests] /\ pending \in QuickAction \cup {Null}
  /\ WZ!RunningIsRunning
CardPart == kind \in {"quick", "schedule"} /\ {deleting, removing} \subseteq QuickAction \cup {Null}

LEMMA PartsOf == WizardInv <=> FormPart /\ StorePart /\ SavePart /\ RunPart /\ CardPart
BY DEF WizardInv, FormPart, StorePart, SavePart, RunPart, CardPart, WZ!TypeOK, FormType

LEMMA PartsNext == FormPart' /\ StorePart' /\ SavePart' /\ RunPart' /\ CardPart' => WizardInv'
BY DEF WizardInv, FormPart, StorePart, SavePart, RunPart, CardPart, WZ!TypeOK, FormType

LEMMA PartsKept ==
  /\ FormPart /\ UNCHANGED <<form, kind>> => FormPart'
  /\ StorePart /\ UNCHANGED <<stored, schedules>> => StorePart'
  /\ SavePart /\ UNCHANGED <<saving, kind>> => SavePart'
  /\ RunPart /\ UNCHANGED <<running, pending>> => RunPart'
  /\ CardPart /\ UNCHANGED <<kind, deleting, removing>> => CardPart'
<1>1. FormPart /\ UNCHANGED <<form, kind>> => FormPart'
  BY DEF FormPart, FormType, FormInv, Sound, WZ!Fits, WZ!CanProceedTargets
<1>2. StorePart /\ UNCHANGED <<stored, schedules>> => StorePart'
  BY DEF StorePart, WZ!StoredFormsFit, WZ!Fits
<1>3. SavePart /\ UNCHANGED <<saving, kind>> => SavePart'
  BY DEF SavePart, SaveInv, Sound, Complete, WZ!Fits
<1>4. RunPart /\ UNCHANGED <<running, pending>> => RunPart'
  BY DEF RunPart, WZ!RunningIsRunning
<1>5. CardPart /\ UNCHANGED <<kind, deleting, removing>> => CardPart'
  BY DEF CardPart
<1> QED  BY <1>1, <1>2, <1>3, <1>4, <1>5

\* A blank dialog.
LEMMA BlankPart == ASSUME WizardInv, form' = WZ!BlankForm, kind' = kind PROVE FormPart'
<1>1. kind \in {"quick", "schedule"}
  BY FormIs
<1>2. /\ form' \in FormType /\ Sound(form'.targets) /\ form'.triggers = 1
      /\ form'.step = 1 /\ form'.id = Null
  BY <1>1, BlankIs
<1>3. FormInv'
  BY <1>2 DEF FormInv, Sound, WZ!Fits
<1> QED  BY <1>2, <1>3 DEF FormPart, FormType

\* A dialog that edits what is stored.
LEMMA OpenEditStep == ASSUME WizardInv, NEW i \in QuickAction, WZ!OpenEdit(i) PROVE WizardInv'
<1> DEFINE x == stored[i]
<1>1. StorePart /\ SavePart /\ RunPart /\ CardPart
  BY PartsOf
<1>2. kind = "quick" /\ UNCHANGED WZ!others
      /\ form' = [WZ!BlankForm EXCEPT !.open = TRUE, !.id = i, !.named = TRUE, !.targets = x]
  BY DEF WZ!OpenEdit
<1>3. x \in WZ!Lists(WZ!Target) /\ Complete(x)
  BY <1>1 DEF StorePart, WZ!StoredFormsFit, Complete
<1>4. WZ!BlankForm \in FormType /\ WZ!BlankForm.triggers = 1 /\ WZ!BlankForm.step = 1
  BY <1>2, BlankIs
<1> HIDE DEF x
<1>5. form' \in FormType /\ form'.targets = x /\ form'.triggers = 1 /\ form'.step = 1
  BY <1>2, <1>3, <1>4 DEF FormType
<1>6. FormInv'
  BY <1>2, <1>3, <1>5, CompleteSound DEF FormInv, Sound, WZ!Fits, WZ!others
<1> QED  BY <1>2, <1>5, <1>6, FormPut

\* Submitting.
LEMMA SubmitStep == ASSUME WizardInv, WZ!Submit PROVE WizardInv'
<1>1. FormPart /\ StorePart /\ SavePart /\ RunPart /\ CardPart
  BY PartsOf
<1>2. UNCHANGED <<kind, stored, schedules, form, running, pending, deleting, removing>> /\ WZ!At("review")
  BY DEF WZ!Submit
<1>3. FormPart' /\ StorePart' /\ RunPart' /\ CardPart'
  BY <1>1, <1>2, PartsKept
<1> DEFINE d == [targets |-> form.targets, id |-> form.id, triggers |-> IF kind = "quick" THEN 0 ELSE form.triggers]
<1>4. saving' = [saving EXCEPT ![WZ!Slot] = d] /\ WZ!Slot \in {"new", "edit"}
  BY DEF WZ!Submit, WZ!Slot
<1>5. form \in FormType /\ kind \in {"quick", "schedule"} /\ form.targets \in Seq(WZ!Target)
      /\ Sound(form.targets) /\ form.triggers > 0
      /\ (kind = "quick" /\ form.step > 2 => WZ!CanProceedTargets) /\ (kind = "schedule" => form.id = Null)
  BY FormIs
<1>6. kind = "quick" => form.step > 2
  <2>1. form.step \in 1 .. Len(WZ!Steps[kind]) /\ WZ!Steps[kind][form.step] = "review"
    BY <1>2, <1>5 DEF FormType, WZ!At
  <2> QED  BY <2>1 DEF WZ!Steps
<1>7. kind = "quick" => Complete(form.targets)
  BY <1>5, <1>6, ProceedComplete
<1>8. d \in WZ!Save /\ d.targets = form.targets /\ d.id = form.id /\ (kind = "schedule" => d.triggers = form.triggers)
  <2>1. MaxTargets \in Nat
    BY PagesAssumption
  <2> QED  BY <1>5, <2>1 DEF FormType, WZ!Save
<1> HIDE DEF d
<1>9. saving' \in [{"new", "edit"} -> WZ!Save] /\ \A s \in {"new", "edit"} : saving'[s] = d \/ saving'[s] = saving[s]
  BY <1>1, <1>4, <1>8 DEF SavePart
<1>10. ASSUME NEW s \in {"new", "edit"} PROVE SaveInv(s)'
  <2>1. CASE saving'[s] = d
    BY <1>2, <1>5, <1>7, <1>8, <2>1 DEF SaveInv, Sound, Complete, WZ!Fits
  <2>2. CASE saving'[s] = saving[s]
    BY <1>1, <1>2, <2>2 DEF SavePart, SaveInv, Sound, Complete, WZ!Fits
  <2> QED  BY <1>9, <2>1, <2>2
<1> QED  BY <1>3, <1>9, <1>10, PartsNext DEF SavePart

\* A save that has been answered is nothing.
LEMMA SaveGone ==
  ASSUME WizardInv, NEW s \in {"new", "edit"}, saving' = [saving EXCEPT ![s] = WZ!Nothing], kind' = kind
  PROVE  SavePart'
<1>1. SavePart
  BY PartsOf
<1>2. /\ saving' \in [{"new", "edit"} -> WZ!Save]
      /\ \A t \in {"new", "edit"} : saving'[t] = WZ!Nothing \/ saving'[t] = saving[t]
  BY <1>1, NothingIs DEF SavePart
<1>3. ASSUME NEW t \in {"new", "edit"} PROVE SaveInv(t)'
  <2>1. WZ!Nothing' = WZ!Nothing
    BY DEF WZ!Nothing
  <2>2. CASE saving'[t] = WZ!Nothing
    BY <2>1, <2>2 DEF SaveInv
  <2>3. CASE saving'[t] = saving[t]
    BY <1>1, <2>1, <2>3 DEF SavePart, SaveInv, Sound, Complete, WZ!Fits
  <2> QED  BY <1>2, <2>2, <2>3
<1> QED  BY <1>2, <1>3 DEF SavePart

\* A list that is complete may be stored.
LEMMA StorePut ==
  ASSUME StorePart, NEW i, NEW x \in WZ!Lists(WZ!Target), Complete(x),
         stored' = [stored EXCEPT ![i] = x], schedules' = schedules
  PROVE  StorePart'
<1>1. /\ stored' \in [QuickAction -> WZ!Lists(WZ!Target)]
      /\ \A j \in QuickAction : stored'[j] = x \/ stored'[j] = stored[j]
  BY DEF StorePart
<1>2. ASSUME NEW j \in QuickAction, NEW k \in DOMAIN stored'[j] PROVE WZ!Fits(stored'[j][k])
  <2>1. CASE stored'[j] = x
    BY <2>1, <1>2 DEF Complete
  <2>2. CASE stored'[j] = stored[j]
    BY <2>2, <1>2 DEF StorePart, WZ!StoredFormsFit
  <2> QED  BY <1>1, <2>1, <2>2
<1>3. WZ!Nothing' = WZ!Nothing
  BY DEF WZ!Nothing
<1>4. WZ!StoredFormsFit'
  BY <1>2, <1>3 DEF WZ!StoredFormsFit, WZ!Fits, StorePart
<1> QED  BY <1>1, <1>4 DEF StorePart

\* The server accepts.
LEMMA SaveSucceedsStep == ASSUME WizardInv, NEW s \in {"new", "edit"}, WZ!SaveSucceeds(s) PROVE WizardInv'
<1>1. FormPart /\ StorePart /\ SavePart /\ RunPart /\ CardPart
  BY PartsOf
<1>2. /\ saving[s] # WZ!Nothing /\ WZ!Accepted(s)
      /\ saving' = [saving EXCEPT ![s] = WZ!Nothing]
      /\ UNCHANGED <<kind, running, pending, deleting, removing>>
      /\ form' \in {form, WZ!BlankForm}
  BY DEF WZ!SaveSucceeds
<1>3. SavePart' /\ RunPart' /\ CardPart'
  BY <1>1, <1>2, SaveGone, PartsKept
<1>4. FormPart'
  BY <1>1, <1>2, BlankPart, PartsKept
<1> DEFINE d == saving[s]
<1>5. /\ d \in WZ!Save /\ Sound(d.targets)
      /\ kind = "quick" => Complete(d.targets)
      /\ kind = "schedule" => d.triggers > 0 /\ d.id = Null
  BY <1>1, <1>2 DEF SavePart, SaveInv
<1>6. d.targets \in WZ!Lists(WZ!Target) /\ d.triggers \in 0 .. MaxTargets /\ kind \in {"quick", "schedule"}
      /\ d = [targets |-> d.targets, triggers |-> d.triggers, id |-> d.id]
  BY <1>1, <1>5 DEF WZ!Save, CardPart
<1>7. CASE kind = "schedule"
  <2>1. schedules' = d /\ stored' = stored
    BY <1>2, <1>7 DEF WZ!Accepted
  <2> HIDE DEF d
  <2>2. schedules' \in [targets : WZ!Lists(WZ!Target), triggers : 0 .. MaxTargets, id : {Null}]
    BY <1>5, <1>6, <1>7, <2>1
  <2>3. WZ!StoredFormsFit'
    BY <1>1, <1>5, <1>7, <2>1 DEF WZ!StoredFormsFit, WZ!Fits, Sound, StorePart
  <2>4. stored' \in [QuickAction -> WZ!Lists(WZ!Target)]
    BY <1>1, <2>1 DEF StorePart
  <2> QED  BY <1>3, <1>4, <2>2, <2>3, <2>4, PartsNext DEF StorePart
<1>8. CASE kind = "quick"
  <2>1. \E i : stored' = [stored EXCEPT ![i] = d.targets]
    BY <1>2, <1>8 DEF WZ!Accepted
  <2>2. schedules' = schedules
    BY <1>2, <1>8 DEF WZ!Accepted
  <2> HIDE DEF d
  <2>3. PICK i : stored' = [stored EXCEPT ![i] = d.targets]
    BY <2>1
  <2>4. StorePart'
    BY <1>1, <1>5, <1>6, <1>8, <2>2, <2>3, StorePut
  <2> QED  BY <1>3, <1>4, <2>4, PartsNext
<1> QED  BY <1>6, <1>7, <1>8

LEMMA SaveFailsStep == ASSUME WizardInv, NEW s \in {"new", "edit"}, WZ!SaveFails(s) PROVE WizardInv'
<1>1. FormPart /\ StorePart /\ SavePart /\ RunPart /\ CardPart
  BY PartsOf
<1>2. /\ saving' = [saving EXCEPT ![s] = WZ!Nothing]
      /\ UNCHANGED <<kind, stored, schedules, form, running, pending, deleting, removing>>
  BY DEF WZ!SaveFails
<1>3. SavePart'
  BY <1>2, SaveGone
<1> QED  BY <1>1, <1>2, <1>3, PartsNext, PartsKept

\* Executions: the mark is that of the last one begun, and the end of any clears it.
LEMMA RunSteps ==
  ASSUME WizardInv, NEW i \in QuickAction, WZ!Run(i) \/ WZ!RunEnds(i) PROVE WizardInv'
<1>1. FormPart /\ StorePart /\ SavePart /\ RunPart /\ CardPart /\ WZ!TypeOK
  BY PartsOf DEF WizardInv
<1>2. UNCHANGED <<kind, stored, schedules, form, saving, deleting, removing>>
  BY DEF WZ!Run, WZ!RunEnds
<1>3. FormPart' /\ StorePart' /\ SavePart' /\ CardPart'
  BY <1>1, <1>2, PartsKept
<1>4. running \in [QuickAction -> 0 .. MaxRequests] /\ running[i] \in 0 .. MaxRequests /\ MaxRequests \in Nat
  BY <1>1, PagesAssumption DEF RunPart
<1>5. CASE WZ!Run(i)
  <2>1. running' = [running EXCEPT ![i] = running[i] + 1] /\ pending' = i /\ WZ!Outstanding < MaxRequests
    BY <1>5 DEF WZ!Run
  <2>2. running[i] < MaxRequests
    BY <1>1, <2>1, RunningBound
  <2>3. running' \in [QuickAction -> 0 .. MaxRequests] /\ running'[i] = running[i] + 1
    BY <1>4, <2>1, <2>2
  <2>4. RunPart'
    BY <1>4, <2>1, <2>3 DEF RunPart, WZ!RunningIsRunning
  <2> QED  BY <1>3, <2>4, PartsNext
<1>6. CASE WZ!RunEnds(i)
  <2>1. running' = [running EXCEPT ![i] = running[i] - 1] /\ pending' = Null /\ running[i] > 0
    BY <1>6 DEF WZ!RunEnds, WZ!Unmark
  <2>2. running' \in [QuickAction -> 0 .. MaxRequests]
    BY <1>4, <2>1
  <2>3. RunPart'
    BY <2>1, <2>2 DEF RunPart, WZ!RunningIsRunning
  <2> QED  BY <1>3, <2>3, PartsNext
<1> QED  BY <1>5, <1>6

\* The delete dialog.
LEMMA CardSteps ==
  ASSUME WizardInv, \/ WZ!CancelDelete \/ WZ!ConfirmDelete \/ WZ!Deleted
                    \/ \E i \in QuickAction : WZ!AskDelete(i)
  PROVE  WizardInv'
<1>1. FormPart /\ StorePart /\ SavePart /\ RunPart /\ CardPart
  BY PartsOf
<1>2. UNCHANGED <<kind, schedules, form, saving, running, pending>>
  BY DEF WZ!CancelDelete, WZ!ConfirmDelete, WZ!Deleted, WZ!AskDelete
<1>3. FormPart' /\ SavePart' /\ RunPart'
  BY <1>1, <1>2, PartsKept
<1>4. CardPart'
  BY <1>1, <1>2 DEF CardPart, WZ!CancelDelete, WZ!ConfirmDelete, WZ!Deleted, WZ!AskDelete
<1>5. StorePart'
  <2>1. stored' = stored \/ stored' = [stored EXCEPT ![removing] = <<>>]
    BY DEF WZ!CancelDelete, WZ!ConfirmDelete, WZ!Deleted, WZ!AskDelete
  <2>2. CASE stored' = stored
    BY <1>1, <1>2, <2>2, PartsKept
  <2>3. CASE stored' = [stored EXCEPT ![removing] = <<>>]
    <3> DEFINE x == <<>>
    <3>1. x \in WZ!Lists(WZ!Target) /\ Complete(x)
      BY NoTargets
    <3>2. stored' = [stored EXCEPT ![removing] = x]
      BY <2>3
    <3> HIDE DEF x
    <3> QED  BY <1>1, <1>2, <3>1, <3>2, StorePut
  <2> QED  BY <2>1, <2>2, <2>3
<1> QED  BY <1>3, <1>4, <1>5, PartsNext

LEMMA WizardStep == WizardInv /\ [WZ!Next]_WZ!vars => WizardInv'
<1> SUFFICES ASSUME WizardInv, [WZ!Next]_WZ!vars PROVE WizardInv'
  OBVIOUS
<1>1. CASE UNCHANGED WZ!vars
  BY <1>1, PartsOf, PartsNext, PartsKept DEF WZ!vars
<1>2. CASE WZ!Next
  BY <1>2, FormSteps, TargetSteps, OpenEditStep, SubmitStep, SaveSucceedsStep, SaveFailsStep, RunSteps, CardSteps
  DEF WZ!Next
<1> QED  BY <1>1, <1>2

LEMMA WizardInit == WZ!Init => WizardInv
<1> SUFFICES ASSUME WZ!Init PROVE WizardInv
  OBVIOUS
<1>1. kind \in {"quick", "schedule"} /\ form = WZ!BlankForm /\ schedules = WZ!Nothing
  BY DEF WZ!Init
<1>2. FormPart
  BY <1>1, BlankIs DEF FormPart, FormInv
<1>3. StorePart
  <2>1. PICK x \in {<<>>, <<[type |-> "all", id |-> Null]>>} : stored = [i \in QuickAction |-> x]
    BY DEF WZ!Init
  <2>2. x \in WZ!Lists(WZ!Target) /\ Complete(x)
    BY NoTargets, AllTarget
  <2>3. stored \in [QuickAction -> WZ!Lists(WZ!Target)] /\ \A i \in QuickAction : Complete(stored[i])
    BY <2>1, <2>2
  <2> QED  BY <1>1, <2>3, NothingIs DEF StorePart, WZ!StoredFormsFit, Sound, Complete
<1>4. SavePart
  BY NothingIs DEF WZ!Init, SavePart, SaveInv
<1>5. RunPart
  BY PagesAssumption DEF WZ!Init, RunPart, WZ!RunningIsRunning
<1>6. CardPart
  BY DEF WZ!Init, CardPart
<1> QED  BY <1>2, <1>3, <1>4, <1>5, <1>6, PartsOf

-----------------------------------------------------------------------------
(* The second factor.                                                      *)

\* Requests that have read the user: all of a kind, unless they may cross.
AtServer(t) == totp[t].at \in {"read", "found"}

\* A request to enable brings a secret and has not read more than is so; one to disable
\* has read no less, and the row it found is there or gone.
FlagInv ==
  /\ SF!TypeOK
  /\ SF!FlagHasSecret
  /\ \A t, o \in Tab : AtServer(t) /\ AtServer(o) => totp[t].op = totp[o].op
  /\ \A t \in Tab :
       /\ totp[t].at = "found" => totp[t].op = "disable" /\ row \in {Null, totp[t].secret}
       /\ totp[t].op = "enable" => totp[t].secret # Null
       /\ totp[t].at # "idle" => totp[t].op \in {"enable", "disable"}
       /\ AtServer(t) /\ totp[t].op = "enable" => (totp[t].loaded => flag)
       /\ AtServer(t) /\ totp[t].op = "disable" => (flag => totp[t].loaded)

\* A request that goes on keeps what it is.
LEMMA Goes ==
  ASSUME SF!TypeOK, NEW t \in Tab, NEW at \in {"read", "found", "done", "failed"}
  PROVE  /\ totp[t] \in SF!Request
         /\ [totp[t] EXCEPT !.at = at] \in SF!Request
         /\ [totp[t] EXCEPT !.at = at].op = totp[t].op
         /\ [totp[t] EXCEPT !.at = at].at = at
         /\ [totp[t] EXCEPT !.at = at].secret = totp[t].secret
         /\ [totp[t] EXCEPT !.at = at].loaded = totp[t].loaded
<1>1. totp[t] \in SF!Request
  BY DEF SF!TypeOK
<1> QED  BY <1>1 DEF SF!Request

LEMMA TotpTypes == SF!TypeOK /\ [SF!Next]_SF!vars => SF!TypeOK'
<1> SUFFICES ASSUME SF!TypeOK, [SF!Next]_SF!vars PROVE SF!TypeOK'
  OBVIOUS
<1> USE PagesAssumption
<1>1. ASSUME NEW t \in Tab, SF!Open(t) PROVE SF!TypeOK'
  BY <1>1 DEF SF!TypeOK, SF!Open
<1>2. ASSUME NEW t \in Tab, SF!Close(t) PROVE SF!TypeOK'
  BY <1>2 DEF SF!TypeOK, SF!Close
<1>3. ASSUME NEW t \in Tab, SF!StartOver(t) PROVE SF!TypeOK'
  BY <1>3 DEF SF!TypeOK, SF!StartOver
<1>4. ASSUME NEW t \in Tab, SF!Generate(t) PROVE SF!TypeOK'
  BY <1>4 DEF SF!TypeOK, SF!Generate, SF!Secret
<1>5. ASSUME NEW t \in Tab, SF!Generated(t) PROVE SF!TypeOK'
  BY <1>5 DEF SF!TypeOK, SF!Generated, SF!Secret
<1>6. ASSUME NEW t \in Tab, SF!Reload(t) PROVE SF!TypeOK'
  BY <1>6 DEF SF!TypeOK, SF!Reload, SF!Fresh
<1>7. ASSUME NEW t \in Tab, SF!Enable(t) PROVE SF!TypeOK'
  <2>1. [SF!Idle EXCEPT !.op = "enable", !.at = "sent", !.secret = tab[t].secret] \in SF!Request
    BY DEF SF!TypeOK, SF!Idle, SF!Request
  <2> QED  BY <1>7, <2>1 DEF SF!TypeOK, SF!Enable, SF!Send
<1>8. ASSUME NEW t \in Tab, SF!Disable(t) PROVE SF!TypeOK'
  <2>1. [SF!Idle EXCEPT !.op = "disable", !.at = "sent", !.secret = Null] \in SF!Request
    BY DEF SF!TypeOK, SF!Idle, SF!Request
  <2> QED  BY <1>8, <2>1 DEF SF!TypeOK, SF!Disable, SF!Send
<1>9. ASSUME NEW t \in Tab, SF!Arrive(t) PROVE SF!TypeOK'
  <2>1. [totp[t] EXCEPT !.at = "read", !.loaded = flag] \in SF!Request
    BY Goes DEF SF!TypeOK, SF!Request
  <2>2. totp' = [totp EXCEPT ![t] = [totp[t] EXCEPT !.at = "read", !.loaded = flag]]
    BY <1>9 DEF SF!Arrive, SF!TypeOK
  <2> QED  BY <1>9, <2>1, <2>2 DEF SF!TypeOK, SF!Arrive
<1>10. ASSUME NEW t \in Tab, SF!CommitEnable(t) PROVE SF!TypeOK'
  <2>1. totp[t].secret \in SF!Secret \cup {Null} /\ SF!Written(t, TRUE) \in BOOLEAN
    BY Goes DEF SF!TypeOK, SF!Request, SF!Written
  <2> QED  BY <1>10, <2>1, Goes DEF SF!TypeOK, SF!CommitEnable
<1>11. ASSUME NEW t \in Tab, SF!FindRow(t) PROVE SF!TypeOK'
  <2>1. [totp[t] EXCEPT !.at = "found", !.secret = row] \in SF!Request
    BY Goes DEF SF!TypeOK, SF!Request
  <2>2. totp' = [totp EXCEPT ![t] = [totp[t] EXCEPT !.at = "found", !.secret = row]]
    BY <1>11 DEF SF!FindRow, SF!TypeOK
  <2> QED  BY <1>11, <2>1, <2>2 DEF SF!TypeOK, SF!FindRow
<1>12. ASSUME NEW t \in Tab, SF!CommitDisable(t) PROVE SF!TypeOK'
  BY <1>12 DEF SF!TypeOK, SF!CommitDisable, SF!Remove, SF!Request, SF!Written
<1>13. ASSUME NEW t \in Tab, SF!Answer(t) PROVE SF!TypeOK'
  <2>1. SF!Idle \in SF!Request
    BY DEF SF!Idle, SF!Request
  <2>2. totp' \in [Tab -> SF!Request] /\ UNCHANGED <<flag, row, last>>
    BY <1>13, <2>1 DEF SF!TypeOK, SF!Answer
  <2>3. tab' \in [Tab -> [knows : BOOLEAN, open : BOOLEAN, secret : SF!Secret \cup {Null}]]
    <3>1. SF!Fresh \in [knows : BOOLEAN, open : BOOLEAN, secret : SF!Secret \cup {Null}]
      BY DEF SF!TypeOK, SF!Fresh
    <3>2. [tab[t] EXCEPT !.open = FALSE, !.secret = Null] \in [knows : BOOLEAN, open : BOOLEAN, secret : SF!Secret \cup {Null}]
      BY DEF SF!TypeOK
    <3>3. tab' \in {tab, [tab EXCEPT ![t] = SF!Fresh], [tab EXCEPT ![t] = [tab[t] EXCEPT !.open = FALSE, !.secret = Null]]}
      BY <1>13 DEF SF!TypeOK, SF!Answer
    <3> QED  BY <3>1, <3>2, <3>3 DEF SF!TypeOK
  <2>4. generate' \in [Tab -> SF!Secret \cup {0, Null}]
    BY <1>13 DEF SF!TypeOK, SF!Answer
  <2> QED  BY <2>2, <2>3, <2>4 DEF SF!TypeOK
<1>14. CASE UNCHANGED SF!vars
  BY <1>14 DEF SF!TypeOK, SF!vars
<1> QED
  BY <1>1, <1>2, <1>3, <1>4, <1>5, <1>6, <1>7, <1>8, <1>9, <1>10, <1>11, <1>12, <1>13, <1>14 DEF SF!Next

\* What the requests, the flag and the row are is all that matters.
LEMMA FlagStays ==
  ASSUME FlagInv, UNCHANGED <<flag, row, totp>>, SF!TypeOK' PROVE FlagInv'
BY DEF FlagInv, SF!FlagHasSecret, AtServer

\* One request changes.
LEMMA FlagPut ==
  ASSUME FlagInv, SF!TypeOK', NEW t \in Tab, NEW r \in SF!Request, totp' = [totp EXCEPT ![t] = r],
         UNCHANGED <<flag, row>>,
         r.op = "enable" => r.secret # Null, r.at # "idle" => r.op \in {"enable", "disable"},
         r.at = "found" => r.op = "disable" /\ r.secret = row,
         r.at \in {"read", "found"} =>
           /\ \A o \in Tab : AtServer(o) => totp[o].op = r.op
           /\ r.op \in {"enable", "disable"}
           /\ IF r.op = "enable" THEN r.loaded => flag ELSE flag => r.loaded
  PROVE  FlagInv'
<1>1. \A o \in Tab : totp'[o] = IF o = t THEN r ELSE totp[o]
  BY DEF FlagInv, SF!TypeOK
<1> QED  BY <1>1 DEF FlagInv, SF!FlagHasSecret, AtServer

LEMMA FlagStep == ~Crossing /\ FlagInv /\ [SF!Next]_SF!vars => FlagInv'
<1> SUFFICES ASSUME ~Crossing, FlagInv, [SF!Next]_SF!vars PROVE FlagInv'
  OBVIOUS
<1>0. SF!TypeOK /\ SF!TypeOK'
  BY TotpTypes DEF FlagInv
<1>1. CASE UNCHANGED <<flag, row, totp>>
  BY <1>0, <1>1, FlagStays
<1>2. ASSUME NEW t \in Tab, SF!Enable(t) PROVE FlagInv'
  <2>1. [SF!Idle EXCEPT !.op = "enable", !.at = "sent", !.secret = tab[t].secret] \in SF!Request
    BY <1>0 DEF SF!TypeOK, SF!Idle, SF!Request
  <2> QED  BY <1>0, <1>2, <2>1, FlagPut DEF SF!Enable, SF!Send, SF!Idle
<1>3. ASSUME NEW t \in Tab, SF!Disable(t) PROVE FlagInv'
  <2>1. [SF!Idle EXCEPT !.op = "disable", !.at = "sent", !.secret = Null] \in SF!Request
    BY DEF SF!Idle, SF!Request
  <2> QED  BY <1>0, <1>3, <2>1, FlagPut DEF SF!Disable, SF!Send, SF!Idle
<1>4. ASSUME NEW t \in Tab, SF!Arrive(t) PROVE FlagInv'
  <2> DEFINE r == [totp[t] EXCEPT !.at = "read", !.loaded = flag]
  <2>1. totp' = [totp EXCEPT ![t] = r] /\ UNCHANGED <<flag, row>>
    BY <1>0, <1>4 DEF SF!Arrive, SF!TypeOK
  <2>2. r \in SF!Request /\ r.op = totp[t].op /\ r.at = "read" /\ r.loaded = flag /\ r.secret = totp[t].secret
    <3>1. totp[t] \in SF!Request /\ flag \in BOOLEAN
      BY <1>0, Goes DEF SF!TypeOK
    <3> QED  BY <3>1 DEF SF!Request
  <2>3. \A o \in Tab : AtServer(o) => totp[o].op = totp[t].op
    BY <1>4 DEF SF!Arrive, AtServer
  <2>4. totp[t].op \in {"enable", "disable"}
    BY <1>4 DEF SF!Arrive, FlagInv
  <2> HIDE DEF r
  <2> QED  BY <1>0, <2>1, <2>2, <2>3, <2>4, FlagPut DEF FlagInv
<1>5. ASSUME NEW t \in Tab, SF!FindRow(t) PROVE FlagInv'
  <2> DEFINE r == [totp[t] EXCEPT !.at = "found", !.secret = row]
  <2>1. totp' = [totp EXCEPT ![t] = r] /\ UNCHANGED <<flag, row>>
    BY <1>0, <1>5 DEF SF!FindRow, SF!TypeOK
  <2>2. r \in SF!Request /\ r.op = "disable" /\ r.at = "found" /\ r.loaded = totp[t].loaded /\ r.secret = row
    BY <1>0, <1>5 DEF SF!TypeOK, SF!Request, SF!FindRow
  <2>3. AtServer(t) /\ totp[t].op = "disable"
    BY <1>5 DEF SF!FindRow, AtServer
  <2> HIDE DEF r
  <2> QED  BY <1>0, <2>1, <2>2, <2>3, FlagPut DEF FlagInv
<1>6. ASSUME NEW t \in Tab, SF!CommitEnable(t) PROVE FlagInv'
  <2>1. AtServer(t) /\ totp[t].op = "enable" /\ totp[t].secret # Null
    BY <1>6 DEF SF!CommitEnable, AtServer, FlagInv
  <2>2. CASE row = Null
    <3> DEFINE r == [totp[t] EXCEPT !.at = "done"]
    <3>1. totp' = [totp EXCEPT ![t] = r] /\ row' = totp[t].secret /\ flag' = SF!Written(t, TRUE)
      BY <1>0, <1>6, <2>2 DEF SF!CommitEnable, SF!TypeOK
    <3>2. r \in SF!Request /\ r.at = "done" /\ r.op = "enable" /\ r.secret # Null
      BY <1>0, <2>1, Goes
    <3> HIDE DEF r
    <3>3. \A o \in Tab : totp'[o] = IF o = t THEN r ELSE totp[o]
      BY <1>0, <3>1 DEF SF!TypeOK
    <3>4. flag' = TRUE
      BY <1>0, <2>1, <2>2, <3>1 DEF SF!Written, FlagInv, SF!FlagHasSecret, SF!TypeOK, SF!Request
    <3>5. \A o \in Tab : AtServer(o) => totp[o].op = "enable" /\ totp[o].at = "read"
      BY <2>1 DEF FlagInv, AtServer
    <3>6. SF!FlagHasSecret' /\ \A o \in Tab : totp'[o].at \in {"read", "found"} =>
                               totp'[o].op = "enable" /\ totp'[o].at = "read"
      BY <2>1, <3>1, <3>2, <3>3, <3>4, <3>5 DEF SF!FlagHasSecret, AtServer
    <3>7. \A o \in Tab :    (totp'[o].op = "enable" => totp'[o].secret # Null)
                           /\ (totp'[o].at # "idle" => totp'[o].op \in {"enable", "disable"})
      BY <3>2, <3>3 DEF FlagInv
    <3> QED  BY <1>0, <3>4, <3>6, <3>7 DEF FlagInv, AtServer
  <2>3. CASE row # Null
    <3> DEFINE r == [totp[t] EXCEPT !.at = "failed"]
    <3>1. totp' = [totp EXCEPT ![t] = r] /\ UNCHANGED <<flag, row>>
      BY <1>0, <1>6, <2>3 DEF SF!CommitEnable, SF!TypeOK
    <3>2. r \in SF!Request /\ r.at = "failed" /\ r.op = "enable" /\ r.secret # Null
      BY <1>0, <2>1, Goes
    <3> HIDE DEF r
    <3> QED  BY <1>0, <3>1, <3>2, FlagPut
  <2> QED  BY <2>2, <2>3
<1>7. ASSUME NEW t \in Tab, SF!CommitDisable(t) PROVE FlagInv'
  <2>1. AtServer(t) /\ totp[t].op = "disable" /\ row \in {Null, totp[t].secret} /\ (flag => totp[t].loaded)
    BY <1>7 DEF SF!CommitDisable, AtServer, FlagInv
  <2> DEFINE r == [totp[t] EXCEPT !.at = "done"]
  <2>2. totp' = [totp EXCEPT ![t] = r] /\ row' = Null /\ flag' = SF!Written(t, FALSE)
    BY <1>0, <1>7, <2>1 DEF SF!CommitDisable, SF!TypeOK, SF!Remove
  <2>3. r \in SF!Request /\ r.at = "done" /\ r.op = "disable"
    BY <1>0, <2>1, Goes
  <2> HIDE DEF r
  <2>4. \A o \in Tab : totp'[o] = IF o = t THEN r ELSE totp[o]
    BY <1>0, <2>2 DEF SF!TypeOK
  <2>5. flag' = FALSE
    BY <1>0, <2>1, <2>2 DEF SF!Written, SF!TypeOK, SF!Request
  <2>6. \A o \in Tab : AtServer(o) => totp[o].op = "disable"
    BY <2>1 DEF FlagInv
  <2>7. SF!FlagHasSecret' /\ \A o \in Tab : totp'[o].at \in {"read", "found"} => totp'[o].op = "disable"
    BY <2>2, <2>3, <2>4, <2>5, <2>6 DEF SF!FlagHasSecret, AtServer
  <2>8. \A o \in Tab :    (totp'[o].op = "enable" => totp'[o].secret # Null)
                           /\ (totp'[o].at # "idle" => totp'[o].op \in {"enable", "disable"})
    BY <2>3, <2>4 DEF FlagInv
  <2>9. row' = Null /\ ~flag'
    BY <2>2, <2>5
  <2>10. \A o \in Tab : AtServer(o)' \/ totp'[o].at = "found" => totp'[o].op = "disable"
    BY <2>7 DEF AtServer
  <2> QED  BY <1>0, <2>7, <2>8, <2>9, <2>10 DEF FlagInv
<1>8. ASSUME NEW t \in Tab, SF!Answer(t) PROVE FlagInv'
  <2>1. SF!Idle \in SF!Request
    BY DEF SF!Idle, SF!Request
  <2> QED  BY <1>0, <1>8, <2>1, FlagPut DEF SF!Answer, SF!Idle
<1>9. [SF!Next]_SF!vars => \/ UNCHANGED <<flag, row, totp>>
                     \/ \E t \in Tab : \/ SF!Enable(t) \/ SF!Disable(t) \/ SF!Arrive(t) \/ SF!FindRow(t)
                                       \/ SF!CommitEnable(t) \/ SF!CommitDisable(t) \/ SF!Answer(t)
  BY DEF SF!Next, SF!vars, SF!Open, SF!Close, SF!StartOver, SF!Generate, SF!Generated, SF!Reload
<1> QED  BY <1>1, <1>2, <1>3, <1>4, <1>5, <1>6, <1>7, <1>8, <1>9

LEMMA FlagInit == SF!Init => FlagInv
<1> SUFFICES ASSUME SF!Init PROVE FlagInv
  OBVIOUS
<1>1. SF!Idle \in SF!Request
  BY DEF SF!Idle, SF!Request
<1>2. totp = [t \in Tab |-> SF!Idle] /\ generate = [t \in Tab |-> Null]
      /\ tab = [t \in Tab |-> [knows |-> FALSE, open |-> FALSE, secret |-> Null]]
  BY Zenon DEF SF!Init
<1>3. flag = FALSE /\ row = Null /\ last = 0
  BY Zenon DEF SF!Init
<1>4. SF!TypeOK
  <2>1. \A t \in Tab : totp[t] = SF!Idle
    BY <1>2
  <2>2. totp \in [Tab -> SF!Request]
    BY <1>1, <1>2
  <2>3. [knows |-> FALSE, open |-> FALSE, secret |-> Null] \in [knows : BOOLEAN, open : BOOLEAN, secret : SF!Secret \cup {Null}]
    OBVIOUS
  <2>4. tab \in [Tab -> [knows : BOOLEAN, open : BOOLEAN, secret : SF!Secret \cup {Null}]]
    BY <1>2, <2>3
  <2>5. generate \in [Tab -> SF!Secret \cup {0, Null}]
    BY <1>2
  <2>6. last \in 0..MaxSecrets
    BY <1>3, PagesAssumption
  <2>7. flag \in BOOLEAN /\ row \in SF!Secret \cup {Null}
    BY <1>3
  <2> QED  BY <2>2, <2>4, <2>5, <2>6, <2>7 DEF SF!TypeOK
<1>5. \A t \in Tab : totp[t].at = "idle" /\ totp[t].op = "none"
  <2>1. \A t \in Tab : totp[t] = SF!Idle
    BY <1>2
  <2>2. SF!Idle.at = "idle" /\ SF!Idle.op = "none"
    BY DEF SF!Idle
  <2> QED  BY <2>1, <2>2
<1> QED  BY <1>3, <1>4, <1>5 DEF FlagInv, SF!FlagHasSecret, AtServer

-----------------------------------------------------------------------------
(* The import. *)

Named == [RE!Room -> Name \cup {Null}]
Mapping == [RE!Room -> RE!Room \cup {Null}]
Acc == [rooms : Named, remap : Mapping, error : BOOLEAN]

\* A room of the file that has been taken over: mapped to one of its name.
TakenOver(rooms, remap, file, r) ==
  file.rooms[r] # Null => remap[r] \in RE!Room /\ rooms[remap[r]] = file.rooms[r]

\* One room is taken over, or there is an error; what was there stays as it was.
LEMMA ImportRoomIs ==
  ASSUME NEW acc \in Acc, NEW r \in RE!Room, NEW file \in RE!Content, NEW mode
  PROVE  /\ RE!ImportRoom(acc, r, file, mode) \in Acc
         /\ ~RE!ImportRoom(acc, r, file, mode).error =>
              /\ ~acc.error
              /\ \A x \in RE!Room : acc.rooms[x] # Null => RE!ImportRoom(acc, r, file, mode).rooms[x] = acc.rooms[x]
              /\ \A x \in RE!Room : x # r => RE!ImportRoom(acc, r, file, mode).remap[x] = acc.remap[x]
              /\ TakenOver(RE!ImportRoom(acc, r, file, mode).rooms, RE!ImportRoom(acc, r, file, mode).remap, file, r)
<1> DEFINE same == {x \in RE!Room : mode = "merge" /\ acc.rooms[x] = file.rooms[r]}
           result == RE!ImportRoom(acc, r, file, mode)
<1>0. /\ acc.rooms \in Named /\ acc.remap \in Mapping /\ acc.error \in BOOLEAN
      /\ file.rooms \in Named
  BY DEF Acc, RE!Content, Named
<1>1. CASE acc.error \/ file.rooms[r] = Null
  <2>1. result = acc
    BY <1>1 DEF RE!ImportRoom
  <2> QED  BY <1>1, <2>1, <1>0 DEF TakenOver
<1>2. CASE ~acc.error /\ file.rooms[r] # Null /\ RE!Cardinality(same) = 1
  <2> DEFINE w == CHOOSE x \in same : TRUE
  <2>1. same # {}
    <3>1. RE!Cardinality({}) = 0
      BY FS_EmptySet DEF RE!Cardinality, Cardinality
    <3> QED  BY <1>2, <3>1
  <2>2. w \in RE!Room /\ acc.rooms[w] = file.rooms[r]
    BY <2>1
  <2>3. result = [acc EXCEPT !.remap[r] = w]
    BY <1>2 DEF RE!ImportRoom
  <2> HIDE DEF w, same, result
  <2>4. result \in Acc /\ result.rooms = acc.rooms /\ result.error = acc.error /\ result.remap = [acc.remap EXCEPT ![r] = w]
    BY <1>0, <2>2, <2>3 DEF Acc, Mapping
  <2>5. result.remap[r] = w /\ \A x \in RE!Room : x # r => result.remap[x] = acc.remap[x]
    BY <1>0, <2>4 DEF Mapping
  <2> QED  BY <1>2, <2>2, <2>4, <2>5 DEF TakenOver, result
<1>3. CASE /\ ~acc.error /\ file.rooms[r] # Null /\ RE!Cardinality(same) # 1
           /\ same # {} \/ acc.rooms[r] # Null
  <2>1. result = [acc EXCEPT !.error = TRUE]
    BY <1>3 DEF RE!ImportRoom
  <2>2. result \in Acc /\ result.error = TRUE
    BY <2>1 DEF Acc
  <2> QED  BY <2>2
<1>4. CASE /\ ~acc.error /\ file.rooms[r] # Null /\ RE!Cardinality(same) # 1
           /\ same = {} /\ acc.rooms[r] = Null
  <2>1. result = [acc EXCEPT !.rooms[r] = file.rooms[r], !.remap[r] = r]
    BY <1>4 DEF RE!ImportRoom
  <2> HIDE DEF same, result
  <2>2. /\ result \in Acc /\ result.rooms = [acc.rooms EXCEPT ![r] = file.rooms[r]]
        /\ result.error = acc.error /\ result.remap = [acc.remap EXCEPT ![r] = r]
    BY <1>0, <2>1 DEF Acc, Mapping, Named
  <2>3. /\ result.remap[r] = r /\ result.rooms[r] = file.rooms[r]
        /\ \A x \in RE!Room : x # r => result.remap[x] = acc.remap[x] /\ result.rooms[x] = acc.rooms[x]
    BY <1>0, <2>2 DEF Mapping, Named
  <2> QED  BY <1>4, <2>2, <2>3 DEF TakenOver, result
<1> QED  BY <1>1, <1>2, <1>3, <1>4

Kept(mode) == IF mode = "replace" THEN [r \in RE!Room |-> Null] ELSE db.rooms
Begun(mode) == [rooms |-> Kept(mode), remap |-> [r \in RE!Room |-> Null], error |-> FALSE]

\* What the import of the first n rooms makes, as a function on 0 .. n.
After(g, n, file, mode) ==
  g = [k \in 0 .. n |-> IF k = 0 THEN Begun(mode) ELSE RE!ImportRoom(g[k - 1], Rooms[k], file, mode)]

LEMMA AfterExists ==
  ASSUME NEW file, NEW mode, NEW n \in Nat PROVE \E g : After(g, n, file, mode)
<1> DEFINE Bad == {m \in Nat : ~ \E g : After(g, m, file, mode)}
<1> SUFFICES ASSUME Bad # {} PROVE FALSE
  OBVIOUS
<1>1. PICK m \in Bad : \A k \in Bad : ~ (<<k, m>> \in OpToRel(<, Nat))
  BY NatLessThanWellFounded, WFMin
<1>2. \A k \in Bad : ~ (k < m)
  BY <1>1 DEF OpToRel
<1>3. CASE m = 0
  <2> DEFINE g == [k \in 0 .. 0 |-> Begun(mode)]
  <2>1. After(g, 0, file, mode)
    BY DEF After
  <2> QED  BY <1>3, <2>1
<1>4. CASE m # 0
  <2>1. m - 1 \in Nat /\ m - 1 < m
    BY <1>4
  <2>2. PICK g : After(g, m - 1, file, mode)
    BY <1>2, <2>1
  <2> DEFINE h == [k \in 0 .. m |-> IF k = m THEN RE!ImportRoom(g[m - 1], Rooms[m], file, mode) ELSE g[k]]
  <2>3. \A k \in 0 .. m - 1 : h[k] = g[k]
    BY <2>1
  <2>4. \A k \in 0 .. m : h[k] = IF k = 0 THEN Begun(mode) ELSE RE!ImportRoom(h[k - 1], Rooms[k], file, mode)
    <3> SUFFICES ASSUME NEW k \in 0 .. m
                 PROVE  h[k] = IF k = 0 THEN Begun(mode) ELSE RE!ImportRoom(h[k - 1], Rooms[k], file, mode)
      OBVIOUS
    <3>1. CASE k = m
      BY <1>4, <2>1, <2>3, <3>1
    <3>2. CASE k # m
      <4>1. k \in 0 .. m - 1
        BY <2>1, <3>2
      <4>2. g[k] = IF k = 0 THEN Begun(mode) ELSE RE!ImportRoom(g[k - 1], Rooms[k], file, mode)
        BY <2>2, <4>1 DEF After
      <4>3. k # 0 => h[k - 1] = g[k - 1]
        BY <2>3, <4>1
      <4> QED  BY <2>3, <4>1, <4>2, <4>3
    <3> QED  BY <3>1, <3>2
  <2>5. After(h, m, file, mode)
    BY <2>4 DEF After
  <2> QED  BY <2>5
<1> QED  BY <1>3, <1>4

\* Every room of the file is taken over, and what was kept stays as it was.
LEMMA ImportIs ==
  ASSUME NEW file \in RE!Content, NEW mode, db \in RE!Content
  PROVE  /\ RE!ImportHierarchy(file, mode) \in Acc
         /\ ~RE!ImportHierarchy(file, mode).error =>
              /\ \A x \in RE!Room : Kept(mode)[x] # Null => RE!ImportHierarchy(file, mode).rooms[x] = Kept(mode)[x]
              /\ \A x \in RE!Room : TakenOver(RE!ImportHierarchy(file, mode).rooms, RE!ImportHierarchy(file, mode).remap, file, x)
<1> DEFINE N == Len(Rooms)
           F == CHOOSE g : After(g, N, file, mode)
           Good(k) == /\ F[k] \in Acc
                      /\ ~F[k].error =>
                           /\ \A x \in RE!Room : Kept(mode)[x] # Null => F[k].rooms[x] = Kept(mode)[x]
                           /\ \A i \in 1 .. k : TakenOver(F[k].rooms, F[k].remap, file, Rooms[i])
<1>1. N \in Nat /\ \A k \in 1 .. N : Rooms[k] \in RE!Room
  BY PagesAssumption
<1>2. RE!ImportHierarchy(file, mode) = F[N]
  BY DEF RE!ImportHierarchy, After, Begun, Kept
<1>3. After(F, N, file, mode)
  BY <1>1, AfterExists
<1>4. \A k \in 0 .. N : F[k] = IF k = 0 THEN Begun(mode) ELSE RE!ImportRoom(F[k - 1], Rooms[k], file, mode)
  BY <1>3 DEF After
<1> HIDE DEF F, N
<1>5. Good(0)
  <2>1. F[0] = Begun(mode)
    BY <1>1, <1>4
  <2>2. Kept(mode) \in Named
    BY DEF Kept, RE!Content, Named
  <2>3. Begun(mode) \in Acc /\ Begun(mode).rooms = Kept(mode)
    BY <2>2 DEF Begun, Acc, Mapping
  <2> QED  BY <2>1, <2>3
<1>6. ASSUME NEW k \in 1 .. N, Good(k - 1) PROVE Good(k)
  <2>0. k \in Nat /\ k # 0 /\ k \in 0 .. N /\ Rooms[k] \in RE!Room
    BY <1>1
  <2>1. F[k] = RE!ImportRoom(F[k - 1], Rooms[k], file, mode)
    BY <1>4, <2>0
  <2>2. F[k - 1] \in Acc
    BY <1>6
  <2>3. /\ F[k] \in Acc
        /\ ~F[k].error =>
             /\ ~F[k - 1].error
             /\ \A x \in RE!Room : F[k - 1].rooms[x] # Null => F[k].rooms[x] = F[k - 1].rooms[x]
             /\ \A x \in RE!Room : x # Rooms[k] => F[k].remap[x] = F[k - 1].remap[x]
             /\ TakenOver(F[k].rooms, F[k].remap, file, Rooms[k])
    BY <2>0, <2>1, <2>2, ImportRoomIs
  <2>4. ASSUME ~F[k].error, NEW x \in RE!Room, Kept(mode)[x] # Null PROVE F[k].rooms[x] = Kept(mode)[x]
    BY <1>6, <2>3, <2>4
  <2>5. ASSUME ~F[k].error, NEW i \in 1 .. k PROVE TakenOver(F[k].rooms, F[k].remap, file, Rooms[i])
    <3>1. Rooms[i] \in RE!Room
      BY <1>1, <2>0
    <3>2. CASE Rooms[i] = Rooms[k]
      BY <2>3, <2>5, <3>2
    <3>3. CASE Rooms[i] # Rooms[k]
      <4>1. i \in 1 .. k - 1
        BY <2>0, <3>3
      <4>2. TakenOver(F[k - 1].rooms, F[k - 1].remap, file, Rooms[i])
        BY <1>6, <2>3, <2>5, <4>1
      <4> QED  BY <2>3, <2>5, <3>1, <3>3, <4>2 DEF TakenOver
    <3> QED  BY <3>2, <3>3
  <2> QED  BY <2>3, <2>4, <2>5
<1>7. \A k \in 0 .. N : Good(k)
  <2> DEFINE Bad == {k \in Nat : k <= N /\ ~Good(k)}
  <2> HIDE DEF Good
  <2> SUFFICES ASSUME Bad # {} PROVE FALSE
    BY <1>1
  <2>1. PICK m \in Bad : \A k \in Bad : ~ (<<k, m>> \in OpToRel(<, Nat))
    BY NatLessThanWellFounded, WFMin
  <2>2. \A k \in Bad : ~ (k < m)
    BY <2>1 DEF OpToRel
  <2>3. m \in 1 .. N
    BY <1>1, <1>5
  <2>4. m - 1 \in Nat /\ m - 1 < m /\ m - 1 <= N
    BY <1>1, <2>3
  <2>5. Good(m - 1)
    BY <2>2, <2>4
  <2> QED  BY <1>6, <2>3, <2>5
<1>8. Good(N)
  <2> HIDE DEF Good
  <2> QED  BY <1>1, <1>7
<1>9. \A x \in RE!Room : \E i \in 1 .. N : Rooms[i] = x
  BY PagesAssumption DEF RE!Room, RE!Range, N
<1> QED  BY <1>2, <1>8, <1>9

-----------------------------------------------------------------------------
(* The restores.                                                           *)

Shape == [rooms : Named, aims : [Action -> RE!Room \cup {Null}]]
Restoring == [at : {"none", "reading", "sent", "hierarchy", "actions", "done", "failed"},
              file : RE!Content \cup {Null}, sure : BOOLEAN, mode : {"merge", "replace"},
              work : Shape \cup {Null}, remap : Mapping \cup {Null}]
Section == [file : RE!Content \cup {Null}, mode : {"merge", "replace"}, asking : BOOLEAN]

\* What a restore has done of the rooms, and then of the quick actions.
HierarchyDone(j) ==
  /\ job[j].work \in Shape /\ job[j].remap \in Mapping
  /\ \A x \in RE!Room : Kept(job[j].mode)[x] # Null => job[j].work.rooms[x] = Kept(job[j].mode)[x]
  /\ \A x \in RE!Room : TakenOver(job[j].work.rooms, job[j].remap, job[j].file, x)

Importing(j) == job[j].at \in {"hierarchy", "actions"}

\* One restore imports at a time, so that the database is still what it began with.
JobInv ==
  /\ db \in RE!Content /\ section \in Section /\ job \in [Job -> Restoring]
  /\ \A j \in Job : job[j].at # "none" => job[j].file \in RE!Content
  /\ \A i, j \in Job : Importing(i) /\ Importing(j) => i = j
  /\ \A j \in Job : Importing(j) => HierarchyDone(j)
  /\ \A j \in Job : job[j].at = "hierarchy" => job[j].work.aims = db.aims
  /\ \A j \in Job : job[j].at = "actions" =>
       job[j].work.aims = RE!ImportActions(job[j].file, job[j].mode, job[j].remap)

LEMMA JobTypes == JobInv => RE!TypeOK
BY DEF JobInv, RE!TypeOK, Section, Restoring

LEMMA IdleIs == RE!Idle \in Restoring /\ RE!Idle.at = "none" /\ RE!Idle.mode = "merge"
BY DEF RE!Idle, Restoring

\* The page and a restore that does not import change.
LEMMA JobPut ==
  ASSUME JobInv, UNCHANGED db, section' \in Section, NEW j \in Job, NEW r \in Restoring,
         job' = [job EXCEPT ![j] = r], r.at \notin {"hierarchy", "actions"},
         r.at # "none" => r.file \in RE!Content
  PROVE  JobInv'
<1>1. job' \in [Job -> Restoring] /\ \A i \in Job : job'[i] = IF i = j THEN r ELSE job[i]
  BY DEF JobInv
<1>2. \A i \in Job : Importing(i)' => Importing(i) /\ job'[i] = job[i]
  BY <1>1 DEF Importing
<1>3. \A i \in Job : job'[i] = job[i] /\ HierarchyDone(i) => HierarchyDone(i)'
  BY DEF HierarchyDone, Kept
<1>4. \A i \in Job : job'[i] = job[i] =>
        RE!ImportActions(job[i].file, job[i].mode, job[i].remap)' = RE!ImportActions(job[i].file, job[i].mode, job[i].remap)
  BY DEF RE!ImportActions, RE!Aim
<1>5. /\ \A i \in Job : job'[i].at = "hierarchy" => job'[i].work.aims = db'.aims
      /\ \A i \in Job : job'[i].at = "actions" =>
           job'[i].work.aims = RE!ImportActions(job[i].file, job[i].mode, job[i].remap)'
  BY <1>1, <1>4 DEF JobInv
<1>6. db' \in RE!Content /\ \A i \in Job : job'[i].at # "none" => job'[i].file \in RE!Content
  BY <1>1 DEF JobInv
<1>7. /\ \A i, k \in Job : Importing(i)' /\ Importing(k)' => i = k
      /\ \A i \in Job : Importing(i)' => HierarchyDone(i)'
  BY <1>2, <1>3 DEF JobInv
<1> QED  BY <1>1, <1>5, <1>6, <1>7 DEF JobInv

\* The page alone.
LEMMA JobPage ==
  ASSUME JobInv, UNCHANGED <<db, job>>, section' \in Section PROVE JobInv'
BY DEF JobInv, Importing, HierarchyDone, Kept, RE!ImportActions, RE!Aim

\* A restore that is sent, answered or given up.
LEMMA Moves ==
  ASSUME NEW r \in Restoring, NEW at \in {"sent", "failed", "done"}
  PROVE  /\ [r EXCEPT !.at = at, !.work = Null, !.remap = Null] \in Restoring
         /\ [r EXCEPT !.at = at, !.work = Null, !.remap = Null].at = at
         /\ [r EXCEPT !.at = at, !.work = Null, !.remap = Null].file = r.file
         /\ [r EXCEPT !.at = at, !.work = Null, !.remap = Null].mode = r.mode
         /\ [r EXCEPT !.at = at, !.work = Null, !.remap = Null].sure = r.sure
BY DEF Restoring

LEMMA HierarchyJob == ASSUME JobInv, NEW j \in Job, RE!Hierarchy(j) PROVE JobInv'
<1> DEFINE result == RE!ImportHierarchy(job[j].file, job[j].mode)
           work == [db EXCEPT !.rooms = result.rooms]
           r == [job[j] EXCEPT !.at = "hierarchy", !.remap = result.remap, !.work = work]
<1>1. job[j] \in Restoring /\ job[j].file \in RE!Content /\ db \in RE!Content
  BY DEF JobInv, RE!Hierarchy
<1>2. ~result.error /\ UNCHANGED <<db, section>> /\ \A i \in Job : ~Importing(i)
  BY DEF RE!Hierarchy, Importing
<1>3. job' = [job EXCEPT ![j] = r]
  BY DEF RE!Hierarchy, JobInv
<1>4. /\ result \in Acc
      /\ \A x \in RE!Room : Kept(job[j].mode)[x] # Null => result.rooms[x] = Kept(job[j].mode)[x]
      /\ \A x \in RE!Room : TakenOver(result.rooms, result.remap, job[j].file, x)
  BY <1>1, <1>2, ImportIs
<1> HIDE DEF result
<1>5. work \in Shape /\ work.rooms = result.rooms /\ work.aims = db.aims /\ result.remap \in Mapping
  BY <1>1, <1>4 DEF Acc, RE!Content, Shape, Named
<1> HIDE DEF work
<1>6. /\ r \in Restoring /\ r.at = "hierarchy" /\ r.file = job[j].file /\ r.mode = job[j].mode
      /\ r.work = work /\ r.remap = result.remap
  BY <1>1, <1>5 DEF Restoring
<1> HIDE DEF r
<1>7. job' \in [Job -> Restoring] /\ \A i \in Job : job'[i] = IF i = j THEN r ELSE job[i]
  BY <1>3, <1>6 DEF JobInv
<1>8. HierarchyDone(j)' /\ \A i \in Job : Importing(i)' => i = j
  BY <1>2, <1>4, <1>5, <1>6, <1>7 DEF HierarchyDone, Importing, Kept
<1>9. \A i \in Job : /\ job'[i].at = "hierarchy" => job'[i].work.aims = db'.aims
                     /\ job'[i].at # "actions"
  BY <1>2, <1>5, <1>6, <1>7 DEF Importing
<1>10. \A i \in Job : job'[i].at # "none" => job'[i].file \in RE!Content
  BY <1>1, <1>6, <1>7 DEF JobInv
<1> QED  BY <1>2, <1>7, <1>8, <1>9, <1>10 DEF JobInv

\* Quick actions keep their form.
LEMMA ActionsTyped ==
  ASSUME NEW file \in RE!Content, NEW mode, NEW remap \in Mapping, db \in RE!Content
  PROVE  RE!ImportActions(file, mode, remap) \in [Action -> RE!Room \cup {Null}]
BY DEF RE!ImportActions, RE!Aim, RE!Content, Mapping

LEMMA ActionsJob == ASSUME JobInv, NEW j \in Job, RE!Actions(j) PROVE JobInv'
<1> DEFINE aims == RE!ImportActions(job[j].file, job[j].mode, job[j].remap)
           work == [job[j].work EXCEPT !.aims = aims]
           r == [job[j] EXCEPT !.at = "actions", !.work = work]
<1>1. /\ job[j] \in Restoring /\ job[j].file \in RE!Content /\ db \in RE!Content /\ Importing(j)
      /\ HierarchyDone(j) /\ UNCHANGED <<db, section>>
  BY DEF JobInv, RE!Actions, Importing
<1>2. job[j].work \in Shape /\ job[j].remap \in Mapping
  BY <1>1 DEF HierarchyDone
<1>3. aims \in [Action -> RE!Room \cup {Null}]
  BY <1>1, <1>2, ActionsTyped
<1>4. job' = [job EXCEPT ![j] = r]
  BY <1>1 DEF RE!Actions, JobInv, Restoring
<1> HIDE DEF aims
<1>5. work \in Shape /\ work.rooms = job[j].work.rooms /\ work.aims = aims
  BY <1>2, <1>3 DEF Shape
<1> HIDE DEF work
<1>6. /\ r \in Restoring /\ r.at = "actions" /\ r.file = job[j].file /\ r.mode = job[j].mode
      /\ r.work = work /\ r.remap = job[j].remap
  BY <1>1, <1>5 DEF Restoring
<1> HIDE DEF r
<1>7. job' \in [Job -> Restoring] /\ \A i \in Job : job'[i] = IF i = j THEN r ELSE job[i]
  BY <1>4, <1>6 DEF JobInv
<1>8. HierarchyDone(j)' /\ \A i \in Job : Importing(i)' => i = j
  BY <1>1, <1>2, <1>5, <1>6, <1>7 DEF HierarchyDone, Importing, Kept, JobInv
<1>9. RE!ImportActions(job[j].file, job[j].mode, job[j].remap)' = aims
  BY <1>1, <1>6, <1>7 DEF RE!ImportActions, RE!Aim, aims
<1>10. \A i \in Job : /\ job'[i].at # "hierarchy"
                      /\ job'[i].at = "actions" => i = j
  BY <1>6, <1>7, <1>8 DEF Importing
<1>11. \A i \in Job : job'[i].at # "none" => job'[i].file \in RE!Content
  BY <1>1, <1>6, <1>7 DEF JobInv
<1> QED  BY <1>1, <1>5, <1>6, <1>7, <1>8, <1>9, <1>10, <1>11 DEF JobInv

\* What a whole restore leaves is content again, and all that Restored says of it.
LEMMA Whole ==
  ASSUME JobInv, NEW j \in Job, job[j].at = "actions", db' = job[j].work
  PROVE  db' \in RE!Content /\ RE!Restored(job[j].file, job[j].mode)
<1> DEFINE file == job[j].file
           mode == job[j].mode
           remap == job[j].remap
<1>1. /\ file \in RE!Content /\ db \in RE!Content /\ mode \in {"merge", "replace"}
      /\ db'.aims = RE!ImportActions(file, mode, remap) /\ db' \in Shape /\ remap \in Mapping
      /\ \A x \in RE!Room : Kept(mode)[x] # Null => db'.rooms[x] = Kept(mode)[x]
      /\ \A x \in RE!Room : TakenOver(db'.rooms, remap, file, x)
  BY DEF JobInv, Importing, HierarchyDone, Restoring
<1>2. ASSUME NEW r \in RE!Room, file.rooms[r] # Null PROVE \E x \in RE!Room : db'.rooms[x] = file.rooms[r]
  BY <1>1, <1>2 DEF TakenOver
<1> HIDE DEF file, mode, remap
<1>3. ASSUME NEW a \in Action, file.aims[a] # Null
      PROVE  /\ db'.aims[a] \in RE!Room /\ db'.aims[a] # Null
             /\ db'.rooms[db'.aims[a]] = file.rooms[file.aims[a]] /\ db'.rooms[db'.aims[a]] # Null
  <2>1. file.aims[a] \in RE!Room /\ file.rooms[file.aims[a]] # Null
    BY <1>1, <1>3 DEF RE!Content
  <2>2. remap[file.aims[a]] \in RE!Room /\ db'.rooms[remap[file.aims[a]]] = file.rooms[file.aims[a]]
    BY <1>1, <2>1 DEF TakenOver
  <2>3. db'.aims[a] = remap[file.aims[a]]
    BY <1>1, <1>3, <2>2, PagesAssumption DEF RE!ImportActions, RE!Aim
  <2> QED  BY <2>1, <2>2, <2>3, PagesAssumption
<1>4. ASSUME NEW a \in Action, file.aims[a] = Null
      PROVE  db'.aims[a] = IF mode = "replace" THEN Null ELSE db.aims[a]
  BY <1>1, <1>4 DEF RE!ImportActions
<1>5. mode = "merge" => /\ \A r \in RE!Room : db.rooms[r] # Null => db'.rooms[r] = db.rooms[r]
                        /\ \A a \in Action : db.aims[a] # Null => db'.aims[a] # Null
  BY <1>1, <1>3, <1>4 DEF Kept
<1>6. RE!Restored(file, mode)
  BY <1>2, <1>3, <1>5 DEF RE!Restored
<1>7. ASSUME NEW a \in Action, db'.aims[a] # Null PROVE db'.rooms[db'.aims[a]] # Null
  <2>1. CASE file.aims[a] # Null
    BY <1>3, <2>1
  <2>2. CASE file.aims[a] = Null
    <3>1. mode = "merge" /\ db'.aims[a] = db.aims[a]
      BY <1>1, <1>4, <1>7, <2>2
    <3>2. db.aims[a] \in RE!Room /\ db.rooms[db.aims[a]] # Null
      BY <1>1, <1>7, <3>1 DEF RE!Content
    <3> QED  BY <1>5, <3>1, <3>2
  <2> QED  BY <2>1, <2>2
<1>8. db' \in RE!Content
  BY <1>1, <1>7 DEF RE!Content, Shape, Named
<1> QED  BY <1>6, <1>8 DEF file, mode

LEMMA CommitJob == ASSUME JobInv, NEW j \in Job, RE!Commit(j) PROVE JobInv' /\ RE!RestoredStep
<1> DEFINE r == [job[j] EXCEPT !.at = "done", !.work = Null, !.remap = Null]
<1>1. /\ job[j].at = "actions" /\ db' = job[j].work /\ UNCHANGED section /\ job' = [job EXCEPT ![j] = r]
      /\ job[j] \in Restoring /\ job[j].file \in RE!Content /\ Importing(j)
  BY DEF RE!Commit, JobInv, Importing
<1>2. db' \in RE!Content /\ RE!Restored(job[j].file, job[j].mode)
  BY <1>1, Whole
<1>3. r \in Restoring /\ r.at = "done" /\ r.file \in RE!Content
  BY <1>1, Moves
<1> HIDE DEF r
<1>4. job' \in [Job -> Restoring] /\ \A i \in Job : job'[i] = IF i = j THEN r ELSE job[i]
  BY <1>1, <1>3 DEF JobInv
<1>5. \A i \in Job : ~Importing(i)'
  BY <1>1, <1>3, <1>4 DEF JobInv, Importing
<1>6. \A i \in Job : job'[i].at # "none" => job'[i].file \in RE!Content
  BY <1>3, <1>4 DEF JobInv
<1> QED  BY <1>1, <1>2, <1>4, <1>5, <1>6 DEF JobInv, Importing, RE!RestoredStep

LEMMA JobStep == JobInv /\ [RE!Next]_RE!vars => JobInv' /\ RE!RestoredStep
<1> SUFFICES ASSUME JobInv, [RE!Next]_RE!vars PROVE JobInv' /\ RE!RestoredStep
  OBVIOUS
<1>0. section \in Section /\ job \in [Job -> Restoring]
  BY DEF JobInv
<1>1. CASE RE!Choose
  <2>1. section' \in Section
    BY <1>0, <1>1 DEF RE!Choose, Section
  <2> QED  BY <1>1, <2>1, JobPage DEF RE!Choose, RE!RestoredStep
<1>2. CASE RE!SetMode
  <2>1. section' \in Section
    BY <1>0, <1>2 DEF RE!SetMode, Section
  <2> QED  BY <1>2, <2>1, JobPage DEF RE!SetMode, RE!RestoredStep
<1>3. CASE RE!Cancel
  <2>1. section' \in Section
    BY <1>0, <1>3 DEF RE!Cancel, Section
  <2> QED  BY <1>3, <2>1, JobPage DEF RE!Cancel, RE!RestoredStep
<1>4. ASSUME NEW sure \in BOOLEAN, RE!RunRestore(sure), section.file # Null, section' \in Section, UNCHANGED db
      PROVE  JobInv'
  <2>1. PICK j \in Job : job' = [job EXCEPT ![j] = [RE!Idle EXCEPT !.at = "reading", !.file = section.file, !.sure = sure]]
    BY <1>4 DEF RE!RunRestore
  <2> DEFINE r == [RE!Idle EXCEPT !.at = "reading", !.file = section.file, !.sure = sure]
  <2>2. r \in Restoring /\ r.at = "reading" /\ r.file \in RE!Content
    BY <1>0, <1>4 DEF Restoring, RE!Idle, Section
  <2> HIDE DEF r
  <2> QED  BY <1>4, <2>1, <2>2, JobPut DEF r
<1>5. CASE RE!BeginRestore
  <2>1. CASE RE!MustAsk
    <3>1. section' \in Section
      BY <1>0, <1>5, <2>1 DEF RE!BeginRestore, Section
    <3> QED  BY <1>5, <2>1, <3>1, JobPage DEF RE!BeginRestore, RE!RestoredStep
  <2>2. CASE ~RE!MustAsk
    BY <1>0, <1>4, <1>5, <2>2 DEF RE!BeginRestore, RE!RestoredStep
  <2> QED  BY <2>1, <2>2
<1>6. CASE RE!Confirm
  <2>1. section' \in Section
    BY <1>0, <1>6 DEF RE!Confirm, Section
  <2> QED  BY <1>4, <1>6, <2>1 DEF RE!Confirm, RE!RestoredStep
<1>7. ASSUME NEW j \in Job, RE!Send(j) PROVE JobInv' /\ RE!RestoredStep
  <2> DEFINE r == [job[j] EXCEPT !.at = "sent", !.mode = section.mode]
  <2>1. job' = [job EXCEPT ![j] = r] /\ UNCHANGED <<db, section>> /\ job[j].file \in RE!Content
    BY <1>0, <1>7 DEF RE!Send, JobInv
  <2>2. r \in Restoring /\ r.at = "sent" /\ r.file = job[j].file
    BY <1>0 DEF Restoring, Section
  <2> HIDE DEF r
  <2> QED  BY <1>0, <2>1, <2>2, JobPut DEF RE!RestoredStep
<1>8. ASSUME NEW j \in Job, RE!Unreadable(j) PROVE JobInv' /\ RE!RestoredStep
  BY <1>0, <1>8, IdleIs, JobPut DEF RE!Unreadable, RE!RestoredStep
<1>9. ASSUME NEW j \in Job, RE!Answer(j) PROVE JobInv' /\ RE!RestoredStep
  <2>1. section' \in Section
    BY <1>0, <1>9 DEF RE!Answer, Section
  <2> QED  BY <1>9, <2>1, IdleIs, JobPut DEF RE!Answer, RE!RestoredStep
<1>10. ASSUME NEW j \in Job, RE!Rollback(j) PROVE JobInv' /\ RE!RestoredStep
  <2> DEFINE r == [job[j] EXCEPT !.at = "failed", !.work = Null, !.remap = Null]
  <2>1. job' = [job EXCEPT ![j] = r] /\ UNCHANGED <<db, section>> /\ job[j].file \in RE!Content
    BY <1>0, <1>10 DEF RE!Rollback, JobInv
  <2>2. r \in Restoring /\ r.at = "failed" /\ r.file = job[j].file
    BY <1>0, Moves
  <2> HIDE DEF r
  <2> QED  BY <1>0, <2>1, <2>2, JobPut DEF RE!RestoredStep
<1>11. ASSUME NEW j \in Job, RE!Hierarchy(j) \/ RE!Actions(j) PROVE JobInv' /\ RE!RestoredStep
  <2>1. UNCHANGED db
    BY <1>11 DEF RE!Hierarchy, RE!Actions
  <2> QED  BY <1>11, <2>1, HierarchyJob, ActionsJob DEF RE!RestoredStep
<1>12. CASE UNCHANGED RE!vars
  BY <1>0, <1>12, JobPage DEF RE!vars, RE!RestoredStep
<1> QED
  BY <1>1, <1>2, <1>3, <1>5, <1>6, <1>7, <1>8, <1>9, <1>10, <1>11, <1>12, CommitJob DEF RE!Next

LEMMA JobInit == RE!Init => JobInv
<1> SUFFICES ASSUME RE!Init PROVE JobInv
  OBVIOUS
<1>1. db \in RE!Content /\ section \in Section
  BY DEF RE!Init, Section
<1>2. job \in [Job -> Restoring] /\ \A j \in Job : job[j].at = "none"
  BY IdleIs DEF RE!Init
<1> QED  BY <1>1, <1>2 DEF JobInv, Importing

-----------------------------------------------------------------------------
(* Confirmation.                                                           *)

\* A file that is read to replace everything has been confirmed.
SureInv ==
  /\ RE!ReplaceConfirmed
  /\ \A j \in Job : job[j].at = "reading" /\ section.mode = "replace" => job[j].sure

LEMMA SurePut ==
  ASSUME JobInv, SureInv, NEW j \in Job, NEW r \in Restoring, job' = [job EXCEPT ![j] = r],
         section'.mode = section.mode,
         r.at = "reading" /\ section.mode = "replace" => r.sure,
         r.at \notin {"none", "reading"} /\ r.mode = "replace" => r.sure
  PROVE  SureInv'
<1>1. \A i \in Job : job'[i] = IF i = j THEN r ELSE job[i]
  BY DEF JobInv
<1> QED  BY <1>1 DEF SureInv, RE!ReplaceConfirmed

LEMMA SureStep == Patient /\ JobInv /\ SureInv /\ [RE!Next]_RE!vars => SureInv'
<1> SUFFICES ASSUME Patient, JobInv, SureInv, [RE!Next]_RE!vars PROVE SureInv'
  OBVIOUS
<1>0. section \in Section /\ job \in [Job -> Restoring]
  BY DEF JobInv
<1>1. CASE UNCHANGED job /\ section'.mode = section.mode
  BY <1>1 DEF SureInv, RE!ReplaceConfirmed
<1>2. CASE RE!Choose \/ RE!Cancel \/ UNCHANGED RE!vars \/ (RE!BeginRestore /\ RE!MustAsk)
  <2>1. section'.mode = section.mode
    BY <1>0, <1>2 DEF RE!Choose, RE!Cancel, RE!vars, RE!BeginRestore, Section
  <2> QED  BY <1>1, <1>2, <2>1 DEF RE!Choose, RE!Cancel, RE!vars, RE!BeginRestore
<1>3. CASE RE!SetMode
  BY <1>3 DEF RE!SetMode, SureInv, RE!ReplaceConfirmed
<1>4. ASSUME NEW sure \in BOOLEAN, RE!RunRestore(sure), section.file # Null, section'.mode = section.mode,
             section.mode = "replace" => sure
      PROVE  SureInv'
  <2>1. PICK j \in Job : job' = [job EXCEPT ![j] = [RE!Idle EXCEPT !.at = "reading", !.file = section.file, !.sure = sure]]
    BY <1>4 DEF RE!RunRestore
  <2> DEFINE r == [RE!Idle EXCEPT !.at = "reading", !.file = section.file, !.sure = sure]
  <2>2. r \in Restoring /\ r.at = "reading" /\ r.sure = sure
    BY <1>0, <1>4 DEF Restoring, RE!Idle, Section
  <2> HIDE DEF r
  <2> QED  BY <1>4, <2>1, <2>2, SurePut DEF r
<1>5. CASE RE!BeginRestore /\ ~RE!MustAsk
  BY <1>0, <1>4, <1>5 DEF RE!BeginRestore, RE!MustAsk
<1>6. CASE RE!Confirm
  <2>1. section'.mode = section.mode
    BY <1>0, <1>6 DEF RE!Confirm, Section
  <2> QED  BY <1>4, <1>6, <2>1 DEF RE!Confirm
<1>7. ASSUME NEW j \in Job, RE!Send(j) PROVE SureInv'
  <2> DEFINE r == [job[j] EXCEPT !.at = "sent", !.mode = section.mode]
  <2>1. job' = [job EXCEPT ![j] = r] /\ UNCHANGED <<db, section>>
    BY <1>0, <1>7 DEF RE!Send
  <2>2. r \in Restoring /\ r.at = "sent" /\ r.mode = section.mode /\ r.sure = job[j].sure
    BY <1>0 DEF Restoring, Section
  <2>3. section.mode = "replace" => job[j].sure
    BY <1>7 DEF RE!Send, SureInv
  <2> HIDE DEF r
  <2> QED  BY <2>1, <2>2, <2>3, SurePut
<1>8. ASSUME NEW j \in Job, RE!Unreadable(j) \/ RE!Answer(j) PROVE SureInv'
  <2>1. section'.mode = section.mode
    BY <1>0, <1>8 DEF RE!Unreadable, RE!Answer, Section
  <2> QED  BY <1>8, <2>1, IdleIs, SurePut DEF RE!Unreadable, RE!Answer
<1>9. ASSUME NEW j \in Job, NEW r \in Restoring, job' = [job EXCEPT ![j] = r], UNCHANGED section,
             job[j].at \in {"sent", "hierarchy", "actions"}, r.at \notin {"none", "reading"},
             r.mode = job[j].mode, r.sure = job[j].sure
      PROVE  SureInv'
  <2>1. r.mode = "replace" => r.sure
    BY <1>9 DEF SureInv, RE!ReplaceConfirmed
  <2> QED  BY <1>9, <2>1, SurePut
<1>10. ASSUME NEW j \in Job, RE!Rollback(j) \/ RE!Commit(j) PROVE SureInv'
  <2>1. PICK at \in {"failed", "done"} :
          job' = [job EXCEPT ![j] = [job[j] EXCEPT !.at = at, !.work = Null, !.remap = Null]]
    BY <1>0, <1>10 DEF RE!Rollback, RE!Commit
  <2> DEFINE r == [job[j] EXCEPT !.at = at, !.work = Null, !.remap = Null]
  <2>2. r \in Restoring /\ r.at = at /\ r.mode = job[j].mode /\ r.sure = job[j].sure
    <3>1. job[j] \in Restoring /\ at \in {"sent", "failed", "done"}
      BY <1>0
    <3> QED  BY <3>1 DEF Restoring
  <2> HIDE DEF r
  <2> QED  BY <1>9, <1>10, <2>1, <2>2 DEF RE!Rollback, RE!Commit, r
<1>11. ASSUME NEW j \in Job, RE!Hierarchy(j) \/ RE!Actions(j) PROVE SureInv'
  <2>1. JobInv'
    BY <1>11, HierarchyJob, ActionsJob
  <2>2. /\ job[j].at \in {"sent", "hierarchy"} /\ job'[j].at \in {"hierarchy", "actions"} /\ UNCHANGED section
        /\ job'[j].mode = job[j].mode /\ job'[j].sure = job[j].sure /\ job' = [job EXCEPT ![j] = job'[j]]
    BY <1>0, <1>11 DEF RE!Hierarchy, RE!Actions, Restoring
  <2> QED  BY <1>9, <2>1, <2>2 DEF JobInv
<1> QED
  BY <1>2, <1>3, <1>5, <1>6, <1>7, <1>8, <1>10, <1>11 DEF RE!Next

LEMMA SureInit == RE!Init => SureInv
BY DEF RE!Init, SureInv, RE!ReplaceConfirmed, RE!Idle

-----------------------------------------------------------------------------
(* What every behaviour keeps.                                             *)

\* The inductive invariant of the page that is visited.
PageInv ==
  /\ visit \in {"sign in", "wizard", "totp", "restore"}
  /\ visit = "sign in" => SignInv
  /\ visit = "wizard" => WizardInv
  /\ visit = "totp" => SF!TypeOK
  /\ visit = "restore" => JobInv

allVars == <<visit, signInVars, wizardVars, totpVars, restoreVars>>

LEMMA PageInit == Init => PageInv
<1>1. SF!Init => SF!TypeOK
  BY FlagInit DEF FlagInv
<1> QED  BY <1>1, SignInInit, WizardInit, JobInit DEF Init, PageInv

\* A step of a behaviour is a step of the page visited or leaves it alone.
LEMMA StepOfPage ==
  ASSUME [Next]_allVars
  PROVE  /\ visit' = visit
         /\ visit = "sign in" => [SI!Next]_SI!vars
         /\ visit = "wizard" => [WZ!Next]_WZ!vars
         /\ visit = "totp" => [SF!Next]_SF!vars
         /\ visit = "restore" => [RE!Next]_RE!vars
BY DEF Next, allVars, signInVars, wizardVars, totpVars, restoreVars, SI!vars, WZ!vars, SF!vars, RE!vars

LEMMA PageStepKeeps ==
  PageInv /\ [Next]_allVars =>
    /\ PageInv'
    /\ visit = "sign in" => SI!EarnedStep
    /\ visit = "restore" => RE!RestoredStep
<1> SUFFICES ASSUME PageInv, [Next]_allVars
             PROVE  /\ PageInv'
                    /\ visit = "sign in" => SI!EarnedStep
                    /\ visit = "restore" => RE!RestoredStep
  OBVIOUS
<1>1. visit' = visit /\ visit \in {"sign in", "wizard", "totp", "restore"}
  BY StepOfPage DEF PageInv
<1>2. visit = "sign in" => SignInv' /\ SI!EarnedStep
  BY StepOfPage, SignInStep DEF PageInv
<1>3. visit = "wizard" => WizardInv'
  BY StepOfPage, WizardStep DEF PageInv
<1>4. visit = "totp" => SF!TypeOK'
  BY StepOfPage, TotpTypes DEF PageInv
<1>5. visit = "restore" => JobInv' /\ RE!RestoredStep
  BY StepOfPage, JobStep DEF PageInv
<1> QED  BY <1>1, <1>2, <1>3, <1>4, <1>5 DEF PageInv

LEMMA PageInvHolds == Spec => []PageInv
<1>1. PageInv /\ [Next]_allVars => PageInv'
  BY PageStepKeeps
<1> QED  BY <1>1, PageInit, PTL DEF Spec, allVars

\* Whatever page is visited, its variables have their types (TypeOK of SignIn.tla,
\* Wizards.tla, SecondFactor.tla and Restore.tla).
THEOREM TypeCorrect == Spec => []TypeOK
<1>1. PageInv => TypeOK
  BY SignInvTypes, JobTypes DEF PageInv, TypeOK, WizardInv
<1> QED  BY <1>1, PageInvHolds, PTL

\* The shell asks for a passkey at most once in a browser session, however often a
\* sign-in fetches the user and whatever of it is answered late (AppShell.tsx).
THEOREM PromptOnce == Spec => []PromptOpensOnce
<1>1. PageInv => PromptOpensOnce
  BY SignInvTypes DEF PageInv, PromptOpensOnce
<1> QED  BY <1>1, PageInvHolds, PTL

\* The store gets the tokens of a user only once that user has proved a passkey, or the
\* password and every second factor the account asks for (LoginPage.tsx, auth/router.py).
THEOREM TokensEarned == Spec => TokensAreEarned
<1>1. PageInv /\ [Next]_allVars => [visit = "sign in" => SI!EarnedStep]_signInVars
  BY PageStepKeeps
<1> QED  BY <1>1, PageInvHolds, PTL DEF Spec, TokensAreEarned, allVars

\* What the dialogs have stored names its targets, in whatever order targets were added,
\* retyped and removed, and steps gone through (QuickActionDialog.tsx, CreateScheduleDialog.tsx).
THEOREM FormsFit == Spec => []StoredFormsFit
<1>1. PageInv => StoredFormsFit
  BY DEF PageInv, StoredFormsFit, WizardInv
<1> QED  BY <1>1, PageInvHolds, PTL

\* The card that says it is running has an execution outstanding, in whatever order
\* overlapping executions end (QuickActionsPage.tsx).
THEOREM MarkedIsRunning == Spec => []RunningIsRunning
<1>1. PageInv => RunningIsRunning
  BY DEF PageInv, RunningIsRunning, WizardInv
<1> QED  BY <1>1, PageInvHolds, PTL

\* Unless requests to enable and to disable overlap, the TOTP flag of a user is set
\* exactly while there is a row with a secret (auth/totp.py).
THEOREM FlagKept == ASSUME ~Crossing PROVE Spec => []FlagHasSecret
<1> DEFINE Inv == visit = "totp" => FlagInv
<1>1. Init => Inv
  BY FlagInit DEF Init
<1>2. Inv /\ [Next]_allVars => Inv'
  BY StepOfPage, FlagStep
<1>3. Inv => FlagHasSecret
  BY DEF FlagInv, FlagHasSecret
<1> QED  BY <1>1, <1>2, <1>3, PTL DEF Spec, allVars

\* What is committed changes by whole restores only, each of which leaves every room of
\* the file and the target of every quick action where the file has it (backup/service.py).
THEOREM WholeRestores == Spec => RestoredWholly
<1>1. PageInv /\ [Next]_allVars => [visit = "restore" => RE!RestoredStep]_restoreVars
  BY PageStepKeeps
<1> QED  BY <1>1, PageInvHolds, PTL DEF Spec, RestoredWholly, allVars

\* If the mode stays as it is until the file has been read, only a restore that was
\* confirmed replaces everything (BackupSection.tsx).
THEOREM ReplaceAsked == ASSUME Patient PROVE Spec => []ReplaceConfirmed
<1> DEFINE Inv == visit = "restore" => JobInv /\ SureInv
<1>1. Init => Inv
  BY JobInit, SureInit DEF Init
<1>2. Inv /\ [Next]_allVars => Inv'
  BY StepOfPage, JobStep, SureStep
<1>3. Inv => ReplaceConfirmed
  BY DEF SureInv, ReplaceConfirmed
<1> QED  BY <1>1, <1>2, <1>3, PTL DEF Spec, allVars
=============================================================================
