----------------------------- MODULE MCAccounts_proofs -----------------------------
(* Proofs about Accounts and Sessions, for any users, roles, invites,      *)
(* requests, sessions and seconds, and about their composition.            *)
EXTENDS MCAccounts, Sequences, TLAPS

----------------------------------------------------------------------------
(* Accounts, roles and invites.                                            *)

AnyRequest == Request \cup {Idle}

\* The fields of a request, by its kind.
LEMMA RequestFields ==
  ASSUME NEW r \in AnyRequest
  PROVE  /\ r.kind \in {"setup", "create_user", "register"} => r.name \in User /\ r.account \in Account
         /\ r.kind = "update_user" => r.name \in User /\ r.account \in Account /\ r.seen \in Account
         /\ r.kind \in {"create_role", "update_role"} => r.id \in Role /\ r.level \in Level
         /\ r.kind = "delete_role" => r.id \in Role
         /\ r.kind = "create_invite" => r.id \in Invite /\ r.role \in Role
         /\ r.kind \in {"revoke_invite", "register"} => r.id \in Invite
BY DEF AnyRequest, Request, Idle

\* An account for a role is well typed, whether the role exists or not.
LEMMA AccountForType ==
  ASSUME TypeOK, NEW r \in Role PROVE AccountFor(r) \in Account
BY DEF TypeOK, AccountFor, Account, Level

\* What Begin leaves alone and where the new request goes.
LEMMA BeginType ==
  ASSUME TypeOK, NEW s \in Slot, NEW r \in Request, Begin(s, r)
  PROVE  TypeOK'
<1>1. request' \in [Slot -> Request \cup {Idle}]
  BY DEF Begin, TypeOK
<1>2. UNCHANGED tables
  BY DEF Begin
<1> QED  BY <1>1, <1>2 DEF tables, TypeOK, Live, Names

\* Every handler's reading keeps the types.
LEMMA ReadType ==
  ASSUME TypeOK, NEW s \in Slot, Read(s) PROVE TypeOK'
<1>0. Live \subseteq Role /\ Names \subseteq User /\ AdminRole \in Role
      /\ roles \in [Live -> Level] /\ users \in [Names -> Account] /\ offers \in [Invite -> Role]
  BY ConstantsAssumption DEF TypeOK
<1>a. \A r \in Role : AccountFor(r) \in Account
  BY AccountForType
<1>1. CASE BeginSetup(s)
  BY <1>0, <1>a, <1>1, BeginType DEF BeginSetup, Request
<1>2. CASE BeginCreateRole(s)
  BY <1>0, <1>2, BeginType DEF BeginCreateRole, Request
<1>3. CASE BeginUpdateRole(s)
  BY <1>0, <1>3, BeginType DEF BeginUpdateRole, Request
<1>4. CASE BeginDeleteRole(s)
  BY <1>0, <1>4, BeginType DEF BeginDeleteRole, Request
<1>5. CASE BeginCreateUser(s)
  BY <1>0, <1>a, <1>5, BeginType DEF BeginCreateUser, Request
<1>6. CASE BeginUpdateUser(s)
  <2>1. PICK u \in Names, r \in Live :
          Begin(s, [kind |-> "update_user", name |-> u, seen |-> users[u], account |-> AccountFor(r)])
    BY <1>6 DEF BeginUpdateUser
  <2>2. users[u] \in Account /\ u \in User /\ AccountFor(r) \in Account
    BY <1>0, <1>a
  <2> QED  BY <2>1, <2>2, BeginType DEF Request
<1>7. CASE BeginDeleteUser(s)
  BY <1>0, <1>7, BeginType DEF BeginDeleteUser, Request
<1>8. CASE BeginCreateInvite(s)
  BY <1>0, <1>8, BeginType DEF BeginCreateInvite, Request
<1>9. CASE BeginRevokeInvite(s)
  BY <1>0, <1>9, BeginType DEF BeginRevokeInvite, Request
<1>10. CASE BeginRegister(s)
  BY <1>0, <1>a, <1>10, BeginType DEF BeginRegister, Request
<1> QED
  BY <1>1, <1>2, <1>3, <1>4, <1>5, <1>6, <1>7, <1>8, <1>9, <1>10 DEF Read

\* A new user, of the right type.
LEMMA AddedType ==
  ASSUME TypeOK, NEW u \in User, NEW a \in Account, Added(u, a)
  PROVE  /\ Names' = Names \cup {u} /\ Names' \subseteq User
         /\ users' \in [Names' -> Account]
         /\ drawn' \subseteq Role \cup User
         /\ \A v \in Names' : users'[v] = IF v = u THEN a ELSE users[v]
<1>1. Names' = Names \cup {u}
  BY DEF Added, Names
<1>2. \A v \in Names \cup {u} : (IF v = u THEN a ELSE users[v]) \in Account
  BY DEF TypeOK
<1> QED  BY <1>1, <1>2 DEF Added, TypeOK

\* So does every commit.
LEMMA WriteType ==
  ASSUME TypeOK, NEW s \in Slot, Write(s) PROVE TypeOK'
<1> DEFINE q == request[s]
<1>0. q \in AnyRequest /\ request \in [Slot -> Request \cup {Idle}]
  BY DEF TypeOK, AnyRequest
<1>a. ASSUME NEW kind, Finish(s, kind) PROVE q.kind = kind /\ request' \in [Slot -> Request \cup {Idle}]
  BY <1>0, <1>a DEF Finish
<1>b. UNCHANGED roles => Live' = Live
  BY DEF Live
<1>c. UNCHANGED users => Names' = Names
  BY DEF Names
<1>1. CASE Setup(s)
  <2>1. q.name \in User /\ q.account \in Account
    BY <1>0, <1>1, <1>a, RequestFields DEF Setup
  <2> QED  BY <1>1, <1>a, <1>b, <2>1, AddedType DEF Setup, TypeOK
<1>2. CASE CreateRole(s)
  <2>1. q.id \in Role /\ q.level \in Level
    BY <1>0, <1>2, <1>a, RequestFields DEF CreateRole
  <2>2. Live' = Live \cup {q.id}
    BY <1>2 DEF CreateRole, Live
  <2>3. roles' \in [Live' -> Level] /\ Live' \subseteq Role
    BY <1>2, <2>1, <2>2 DEF CreateRole, TypeOK
  <2> QED  BY <1>2, <1>a, <1>c, <2>1, <2>3 DEF CreateRole, TypeOK
<1>3. CASE UpdateRole(s)
  <2>1. q.id \in Role /\ q.level \in Level
    BY <1>0, <1>3, <1>a, RequestFields DEF UpdateRole
  <2>2. Live' = Live /\ roles' \in [Live -> Level]
    BY <1>3, <2>1 DEF UpdateRole, TypeOK, Live
  <2>3. \A u \in Names : users[u] \in Account /\ [users[u] EXCEPT !.level = q.level] \in Account
    BY <2>1 DEF TypeOK, Account
  <2>4. Names' = Names /\ users' \in [Names -> Account]
    BY <1>3, <2>3 DEF UpdateRole, Names
  <2> QED  BY <1>3, <1>a, <2>2, <2>4 DEF UpdateRole, TypeOK
<1>4. CASE DeleteRole(s)
  <2>1. Live' = Live \ {q.id} /\ roles' \in [Live' -> Level]
    BY <1>4 DEF DeleteRole, TypeOK, Live
  <2>2. \A u \in Names : users[u] \in Account /\ [users[u] EXCEPT !.role = Null] \in Account
    BY DEF TypeOK, Account
  <2>3. Names' = Names /\ users' \in [Names -> Account]
    BY <1>4, <2>2 DEF DeleteRole, Names
  <2> QED  BY <1>4, <1>a, <2>1, <2>3 DEF DeleteRole, TypeOK
<1>5. CASE CreateUser(s)
  <2>1. q.name \in User /\ q.account \in Account
    BY <1>0, <1>5, <1>a, RequestFields DEF CreateUser
  <2> QED  BY <1>5, <1>a, <1>b, <2>1, AddedType DEF CreateUser, TypeOK
<1>6. CASE UpdateUser(s)
  <2>1. q.account \in Account /\ q.name \in Names
    BY <1>0, <1>6, <1>a, RequestFields DEF UpdateUser
  <2>2. Names' = Names /\ users' \in [Names -> Account]
    BY <1>6, <2>1 DEF UpdateUser, TypeOK, Names, Account
  <2> QED  BY <1>6, <1>a, <1>b, <2>2 DEF UpdateUser, TypeOK
<1>7. CASE DeleteUser(s)
  <2>1. Names' = Names \ {q.name} /\ users' \in [Names' -> Account]
    BY <1>7 DEF DeleteUser, TypeOK, Names
  <2> QED  BY <1>7, <1>a, <1>b, <2>1 DEF DeleteUser, TypeOK
<1>8. CASE CreateInvite(s)
  <2>1. q.id \in Invite /\ q.role \in Role
    BY <1>0, <1>8, <1>a, RequestFields DEF CreateInvite
  <2> QED  BY <1>8, <1>a, <1>b, <1>c, <2>1 DEF CreateInvite, TypeOK
<1>9. CASE RevokeInvite(s)
  BY <1>9, <1>a, <1>b, <1>c DEF RevokeInvite, TypeOK
<1>10. CASE Register(s)
  <2>1. q.name \in User /\ q.account \in Account /\ q.id \in Invite
    BY <1>0, <1>10, <1>a, RequestFields DEF Register
  <2> QED  BY <1>10, <1>a, <1>b, <2>1, AddedType DEF Register, TypeOK
<1> QED
  BY <1>1, <1>2, <1>3, <1>4, <1>5, <1>6, <1>7, <1>8, <1>9, <1>10 DEF Write

\* The variables keep their types.
THEOREM TypeCorrect == Spec => []TypeOK
<1>1. Init => TypeOK
  BY ConstantsAssumption DEF Init, TypeOK, Live, Names, Level, Account
<1>2. TypeOK /\ [Next]_vars => TypeOK'
  <2>1. ASSUME TypeOK, NEW s \in Slot, Fail(s) PROVE TypeOK'
    BY <2>1 DEF Fail, tables, TypeOK, Live, Names
  <2>2. ASSUME TypeOK, UNCHANGED vars PROVE TypeOK'
    BY <2>2 DEF vars, TypeOK, Live, Names
  <2> QED  BY <2>1, <2>2, ReadType, WriteType DEF Next
<1> QED  BY <1>1, <1>2, PTL DEF Spec

----------------------------------------------------------------------------
(* The setup is done once: the row in system_config records it.             *)

FuseRecordsSetups == setups = IF fuse = "open" THEN 0 ELSE 1

\* At most one setup succeeds.
THEOREM SetupAtMostOnce == Spec => []SetupOnce
<1>1. Init => FuseRecordsSetups
  BY DEF Init, FuseRecordsSetups
<1>2. FuseRecordsSetups /\ [Next]_vars => FuseRecordsSetups'
  <2> SUFFICES ASSUME FuseRecordsSetups, [Next]_vars PROVE FuseRecordsSetups'
    OBVIOUS
  <2>1. ASSUME NEW s \in Slot, Setup(s) PROVE FuseRecordsSetups'
    BY <2>1 DEF Setup, UniqueFuse, FuseRecordsSetups
  <2>2. ASSUME UNCHANGED <<fuse, setups>> PROVE FuseRecordsSetups'
    BY <2>2 DEF FuseRecordsSetups
  <2>3. ASSUME NEW s \in Slot, Read(s) \/ Fail(s) PROVE UNCHANGED <<fuse, setups>>
    BY <2>3 DEF Read, BeginSetup, BeginCreateRole, BeginUpdateRole, BeginDeleteRole,
                BeginCreateUser, BeginUpdateUser, BeginDeleteUser, BeginCreateInvite,
                BeginRevokeInvite, BeginRegister, Begin, Fail, tables
  <2>4. ASSUME NEW s \in Slot, Write(s), ~Setup(s) PROVE UNCHANGED <<fuse, setups>>
    BY <2>4 DEF Write, CreateRole, UpdateRole, DeleteRole, CreateUser, UpdateUser,
                DeleteUser, CreateInvite, RevokeInvite, Register
  <2> QED  BY <2>1, <2>2, <2>3, <2>4 DEF Next, vars
<1>3. FuseRecordsSetups => SetupOnce
  BY DEF FuseRecordsSetups, SetupOnce
<1> QED  BY <1>1, <1>2, <1>3, PTL DEF Spec

----------------------------------------------------------------------------
(* A revoked invite admits nobody: only a registration makes an account of  *)
(* an invite, and it needs the row.                                         *)

AdmitsNobody == \A i \in Invite : invites[i] = "revoked" => accepted'[i] = accepted[i]

\* No account is ever made of a revoked invite.
THEOREM RevocationHolds == Spec => RevokedInviteAdmitsNobody
<1>1. TypeOK /\ [Next]_vars => [AdmitsNobody]_vars
  <2> SUFFICES ASSUME TypeOK, [Next]_vars PROVE AdmitsNobody
    OBVIOUS
  <2>1. ASSUME NEW s \in Slot, Register(s) PROVE AdmitsNobody
    BY <2>1 DEF Register, InviteRowFound, AdmitsNobody, TypeOK
  <2>2. ASSUME UNCHANGED accepted PROVE AdmitsNobody
    BY <2>2 DEF AdmitsNobody
  <2>3. ASSUME NEW s \in Slot, Read(s) \/ Fail(s) PROVE UNCHANGED accepted
    BY <2>3 DEF Read, BeginSetup, BeginCreateRole, BeginUpdateRole, BeginDeleteRole,
                BeginCreateUser, BeginUpdateUser, BeginDeleteUser, BeginCreateInvite,
                BeginRevokeInvite, BeginRegister, Begin, Fail, tables
  <2>4. ASSUME NEW s \in Slot, Write(s), ~Register(s) PROVE UNCHANGED accepted
    BY <2>4 DEF Write, Setup, CreateRole, UpdateRole, DeleteRole, CreateUser, UpdateUser,
                DeleteUser, CreateInvite, RevokeInvite
  <2> QED  BY <2>1, <2>2, <2>3, <2>4 DEF Next, vars
<1> QED  BY <1>1, TypeCorrect, PTL DEF Spec, RevokedInviteAdmitsNobody, AdmitsNobody

----------------------------------------------------------------------------
(* Users follow their roles, where edits of roles overlap nothing.          *)

\* An account whose level is that of its role.
Follows(a) == a.role # Null => a.role \in Live /\ a.level = roles[a.role]

\* An edit is in flight alone.
Apart ==
  \A s, t \in Slot : s # t /\ request[s].kind \in Edits => request[t] = Idle

\* What requests in flight have read still holds.
ReadsHold ==
  \A s \in Slot :
    /\ request[s].kind \in {"setup", "create_user", "register", "update_user"} =>
         Follows(request[s].account)
    /\ request[s].kind = "update_user" =>
         request[s].name \in Names /\ users[request[s].name] = request[s].seen
    /\ request[s].kind = "update_role" =>
         request[s].id \in Live /\ roles[request[s].id] = request[s].seen
    /\ request[s].kind = "delete_role" => Holders(request[s].id) = {}

RolesInv == UsersFollowRoles /\ Apart /\ ReadsHold /\ Live \subseteq drawn

\* A fresh copy follows its role.
LEMMA AccountForFollows ==
  ASSUME NEW r PROVE Follows(AccountFor(r))
BY DEF AccountFor, Follows

\* A handler that has read keeps the invariant if what it read holds.
LEMMA BeginKeeps ==
  ASSUME SerialEdits, TypeOK, RolesInv, NEW s \in Slot, NEW r \in Request, Begin(s, r),
         r.kind \in {"setup", "create_user", "register", "update_user"} => Follows(r.account),
         r.kind = "update_user" => r.name \in Names /\ users[r.name] = r.seen,
         r.kind = "update_role" => r.id \in Live /\ roles[r.id] = r.seen,
         r.kind = "delete_role" => Holders(r.id) = {}
  PROVE  RolesInv'
<1>1. \A t \in Slot : request'[t] = IF t = s THEN r ELSE request[t]
  BY DEF Begin, TypeOK
<1>2. /\ UNCHANGED <<roles, users, drawn>>
      /\ Live' = Live /\ Names' = Names
      /\ \A q : Holders(q)' = Holders(q)
      /\ \A a : Follows(a)' <=> Follows(a)
  BY DEF Begin, tables, Live, Names, Holders, Follows
<1>3. /\ r.kind \in Edits => \A t \in Slot \ {s} : request[t] = Idle
      /\ \A t \in Slot \ {s} : request[t].kind \notin Edits
  BY DEF Begin, MayOverlap, Others, Idle, Edits
<1>4. Apart'
  BY <1>1, <1>3 DEF RolesInv, Apart
<1>5. ReadsHold'
  BY <1>1, <1>2 DEF RolesInv, ReadsHold
<1>6. UsersFollowRoles'
  BY <1>2 DEF RolesInv, UsersFollowRoles
<1> QED  BY <1>2, <1>4, <1>5, <1>6 DEF RolesInv

\* Every handler's reading keeps the invariant.
LEMMA ReadKeeps ==
  ASSUME SerialEdits, TypeOK, RolesInv, NEW s \in Slot, Read(s) PROVE RolesInv'
<1>0. Live \subseteq Role /\ Names \subseteq User /\ AdminRole \in Role
      /\ roles \in [Live -> Level] /\ users \in [Names -> Account] /\ offers \in [Invite -> Role]
      /\ \A r \in Role : AccountFor(r) \in Account
  BY ConstantsAssumption, AccountForType DEF TypeOK
<1>1. CASE BeginSetup(s)
  BY <1>0, <1>1, BeginKeeps, AccountForFollows DEF BeginSetup, Request
<1>2. CASE BeginCreateRole(s)
  BY <1>0, <1>2, BeginKeeps DEF BeginCreateRole, Request
<1>3. CASE BeginUpdateRole(s)
  BY <1>0, <1>3, BeginKeeps DEF BeginUpdateRole, Request
<1>4. CASE BeginDeleteRole(s)
  BY <1>0, <1>4, BeginKeeps DEF BeginDeleteRole, Request
<1>5. CASE BeginCreateUser(s)
  BY <1>0, <1>5, BeginKeeps, AccountForFollows DEF BeginCreateUser, Request
<1>6. CASE BeginUpdateUser(s)
  <2>1. PICK u \in Names, r \in Live :
          Begin(s, [kind |-> "update_user", name |-> u, seen |-> users[u], account |-> AccountFor(r)])
    BY <1>6 DEF BeginUpdateUser
  <2>2. users[u] \in Account /\ u \in User /\ AccountFor(r) \in Account
    BY <1>0
  <2> QED  BY <2>1, <2>2, BeginKeeps, AccountForFollows DEF Request
<1>7. CASE BeginDeleteUser(s)
  BY <1>0, <1>7, BeginKeeps DEF BeginDeleteUser, Request
<1>8. CASE BeginCreateInvite(s)
  BY <1>0, <1>8, BeginKeeps DEF BeginCreateInvite, Request
<1>9. CASE BeginRevokeInvite(s)
  BY <1>0, <1>9, BeginKeeps DEF BeginRevokeInvite, Request
<1>10. CASE BeginRegister(s)
  BY <1>0, <1>10, BeginKeeps, AccountForFollows DEF BeginRegister, Request
<1> QED
  BY <1>1, <1>2, <1>3, <1>4, <1>5, <1>6, <1>7, <1>8, <1>9, <1>10 DEF Read

\* The end of a request that is no edit, where roles only grow and users
\* only come and go: no edit is in flight to notice.
LEMMA EndKeeps ==
  ASSUME TypeOK, RolesInv, NEW s \in Slot, request[s] # Idle,
         request' = [request EXCEPT ![s] = Idle], request[s].kind \notin Edits,
         Live \subseteq Live', \A r \in Live : roles'[r] = roles[r],
         UsersFollowRoles', Live' \subseteq drawn'
  PROVE  RolesInv'
<1>1. \A t \in Slot : request'[t] = IF t = s THEN Idle ELSE request[t]
  BY DEF TypeOK
<1>2. \A t \in Slot : request'[t].kind \notin Edits
  BY <1>1 DEF RolesInv, Apart, Idle, Edits
<1>3. \A a : Follows(a) => Follows(a)'
  BY DEF Follows
<1>4. ReadsHold'
  BY <1>1, <1>2, <1>3 DEF RolesInv, ReadsHold, Edits, Idle
<1> QED  BY <1>2, <1>4 DEF RolesInv, Apart

\* The end of an edit: every slot is idle.
LEMMA EditEnds ==
  ASSUME TypeOK, RolesInv, NEW s \in Slot, request[s].kind \in Edits,
         request' = [request EXCEPT ![s] = Idle],
         UsersFollowRoles', Live' \subseteq drawn'
  PROVE  RolesInv'
<1>1. \A t \in Slot : request'[t] = Idle
  BY DEF TypeOK, RolesInv, Apart
<1> QED  BY <1>1 DEF RolesInv, Apart, ReadsHold, Idle, Edits

\* A new user that follows its role.
LEMMA AddedFollows ==
  ASSUME TypeOK, RolesInv, NEW u \in User, NEW a \in Account, Added(u, a), Follows(a),
         UNCHANGED roles
  PROVE  UsersFollowRoles' /\ Live' \subseteq drawn'
BY AddedType DEF RolesInv, UsersFollowRoles, Follows, Live, Added

\* So does every commit.
LEMMA WriteKeeps ==
  ASSUME TypeOK, RolesInv, NEW s \in Slot, Write(s) PROVE RolesInv'
<1> DEFINE q == request[s]
<1>0. q \in AnyRequest
  BY DEF TypeOK, AnyRequest
<1>a. ASSUME NEW kind, Finish(s, kind), kind # "idle"
      PROVE  q.kind = kind /\ q # Idle /\ request' = [request EXCEPT ![s] = Idle]
  BY <1>a DEF Finish, Idle
<1>b. ASSUME UNCHANGED roles PROVE Live' = Live /\ \A r \in Live : roles'[r] = roles[r]
  BY <1>b DEF Live
<1>c. ASSUME NEW u \in User, NEW a \in Account, Added(u, a), Follows(a), UNCHANGED roles,
             request' = [request EXCEPT ![s] = Idle], q # Idle, q.kind \notin Edits
      PROVE  RolesInv'
  BY <1>b, <1>c, AddedFollows, EndKeeps
<1>1. CASE Setup(s)
  <2>1. q.name \in User /\ q.account \in Account /\ Follows(q.account)
    BY <1>0, <1>1, <1>a, RequestFields DEF Setup, RolesInv, ReadsHold
  <2> QED  BY <1>1, <1>a, <1>c, <2>1 DEF Setup, Edits
<1>2. CASE CreateRole(s)
  <2>1. q.id \notin Live /\ Live' = Live \cup {q.id}
    BY <1>2 DEF CreateRole, Live, RolesInv
  <2>2. \A r \in Live : roles'[r] = roles[r]
    BY <1>2, <2>1 DEF CreateRole
  <2>3. UsersFollowRoles'
    BY <1>2, <2>1, <2>2 DEF CreateRole, RolesInv, UsersFollowRoles, Names
  <2>4. Live' \subseteq drawn'
    BY <1>2, <2>1 DEF CreateRole, RolesInv
  <2> QED  BY <1>2, <1>a, <2>1, <2>2, <2>3, <2>4, EndKeeps DEF CreateRole, Edits
<1>3. CASE UpdateRole(s)
  <2>1. q.id \in Live /\ roles[q.id] = q.seen
    BY <1>3, <1>a DEF UpdateRole, RolesInv, ReadsHold
  <2>2. Live' = Live /\ \A r \in Live : roles'[r] = IF r = q.id THEN q.level ELSE roles[r]
    BY <1>3, <2>1 DEF UpdateRole, Live, TypeOK
  <2>3. Names' = Names /\ \A u \in Names :
          users'[u] = IF users[u].role = q.id THEN [users[u] EXCEPT !.level = q.level] ELSE users[u]
    BY <1>3 DEF UpdateRole, Names, Holders
  <2>4. \A u \in Names : users[u] \in Account
    BY DEF TypeOK
  <2>5. \A u \in Names : /\ users'[u].role = users[u].role
                         /\ users'[u].level = IF users[u].role = q.id THEN q.level ELSE users[u].level
    BY <2>3, <2>4 DEF Account
  <2>6. UsersFollowRoles'
    BY <2>2, <2>3, <2>5 DEF RolesInv, UsersFollowRoles
  <2>7. Live' \subseteq drawn'
    BY <1>3, <2>2 DEF UpdateRole, RolesInv
  <2> QED  BY <1>3, <1>a, <2>6, <2>7, EditEnds DEF UpdateRole, Edits
<1>4. CASE DeleteRole(s)
  <2>1. Holders(q.id) = {}
    BY <1>4, <1>a DEF DeleteRole, RolesInv, ReadsHold
  <2>2. Names' = Names /\ \A u \in Names : users'[u] = users[u] /\ users[u].role # q.id
    BY <1>4, <2>1 DEF DeleteRole, Names, Holders
  <2>3. Live' = Live \ {q.id} /\ \A r \in Live' : roles'[r] = roles[r]
    BY <1>4 DEF DeleteRole, Live
  <2>4. UsersFollowRoles'
    BY <2>2, <2>3 DEF RolesInv, UsersFollowRoles
  <2>5. Live' \subseteq drawn'
    BY <1>4, <2>3 DEF DeleteRole, RolesInv
  <2> QED  BY <1>4, <1>a, <2>4, <2>5, EditEnds DEF DeleteRole, Edits
<1>5. CASE CreateUser(s)
  <2>1. q.name \in User /\ q.account \in Account /\ Follows(q.account)
    BY <1>0, <1>5, <1>a, RequestFields DEF CreateUser, RolesInv, ReadsHold
  <2> QED  BY <1>5, <1>a, <1>c, <2>1 DEF CreateUser, Edits
<1>6. CASE UpdateUser(s)
  <2>1. /\ q.name \in Names /\ users[q.name] = q.seen /\ Follows(q.account)
        /\ q.account \in Account
    BY <1>0, <1>6, <1>a, RequestFields DEF UpdateUser, RolesInv, ReadsHold
  <2>2. Names' = Names /\ \A u \in Names : u # q.name => users'[u] = users[u]
    BY <1>6 DEF UpdateUser, Names, TypeOK
  <2>3. users'[q.name].role = q.account.role /\ users'[q.name].level = q.account.level
    BY <1>6, <2>1 DEF UpdateUser, TypeOK
  <2>4. UNCHANGED roles /\ Live' = Live
    BY <1>6 DEF UpdateUser, Live
  <2>5. UsersFollowRoles'
    BY <2>1, <2>2, <2>3, <2>4 DEF RolesInv, UsersFollowRoles, Follows
  <2>6. Live' \subseteq drawn'
    BY <1>6, <2>4 DEF UpdateUser, RolesInv
  <2> QED  BY <1>6, <1>a, <2>5, <2>6, EditEnds DEF UpdateUser, Edits
<1>7. CASE DeleteUser(s)
  <2>1. Names' \subseteq Names /\ \A u \in Names' : users'[u] = users[u]
    BY <1>7 DEF DeleteUser, Names
  <2>2. UNCHANGED <<roles, drawn>> /\ Live' = Live
    BY <1>7 DEF DeleteUser, Live
  <2>3. UsersFollowRoles' /\ Live' \subseteq drawn'
    BY <2>1, <2>2 DEF RolesInv, UsersFollowRoles
  <2> QED  BY <1>7, <1>a, <1>b, <2>2, <2>3, EndKeeps DEF DeleteUser, Edits
<1>8. CASE CreateInvite(s) \/ RevokeInvite(s)
  <2>1. UNCHANGED <<roles, users, drawn>> /\ Live' = Live /\ Names' = Names
    BY <1>8 DEF CreateInvite, RevokeInvite, Live, Names
  <2>2. UsersFollowRoles' /\ Live' \subseteq drawn'
    BY <2>1 DEF RolesInv, UsersFollowRoles
  <2> QED  BY <1>8, <1>a, <1>b, <2>1, <2>2, EndKeeps DEF CreateInvite, RevokeInvite, Edits
<1>9. CASE Register(s)
  <2>1. q.name \in User /\ q.account \in Account /\ Follows(q.account)
    BY <1>0, <1>9, <1>a, RequestFields DEF Register, RolesInv, ReadsHold
  <2> QED  BY <1>9, <1>a, <1>c, <2>1 DEF Register, Edits
<1> QED
  BY <1>1, <1>2, <1>3, <1>4, <1>5, <1>6, <1>7, <1>8, <1>9 DEF Write

\* Where administrators keep changes to roles apart from other requests, every
\* user has the level of its role.
THEOREM RolesFollowed == ASSUME SerialEdits PROVE Spec => []UsersFollowRoles
<1>1. Init => RolesInv
  BY ConstantsAssumption DEF Init, RolesInv, UsersFollowRoles, Apart, ReadsHold, Idle, Edits, Live, Names
<1>2. TypeOK /\ RolesInv /\ [Next]_vars => RolesInv'
  <2>1. ASSUME TypeOK, RolesInv, NEW s \in Slot, Fail(s) PROVE RolesInv'
    <3>1. /\ UNCHANGED <<roles, users, drawn>> /\ Live' = Live /\ Names' = Names
          /\ \A r : Holders(r)' = Holders(r)
          /\ \A a : Follows(a)' <=> Follows(a)
      BY <2>1 DEF Fail, tables, Live, Names, Holders, Follows
    <3>2. \A t \in Slot : request'[t] = IF t = s THEN Idle ELSE request[t]
      BY <2>1 DEF Fail, TypeOK
    <3>3. Apart' /\ ReadsHold'
      BY <2>1, <3>1, <3>2 DEF RolesInv, Apart, ReadsHold, Idle, Edits
    <3> QED  BY <2>1, <3>1, <3>3 DEF RolesInv, UsersFollowRoles
  <2>2. ASSUME RolesInv, UNCHANGED vars PROVE RolesInv'
    BY <2>2 DEF vars, RolesInv, UsersFollowRoles, Apart, ReadsHold, Follows, Live, Names, Holders
  <2> QED  BY <2>1, <2>2, ReadKeeps, WriteKeeps, SerialEdits DEF Next
<1>3. RolesInv => UsersFollowRoles
  BY DEF RolesInv
<1> QED  BY <1>1, <1>2, <1>3, TypeCorrect, PTL DEF Spec

----------------------------------------------------------------------------
(* Sessions.                                                               *)

AnySessionRequest == SE!Issue \cup SE!Revoke \cup SE!Delete \cup {SE!Idle}

\* The fields of a request, by its kind.
LEMMA SessionRequestFields ==
  ASSUME NEW r \in AnySessionRequest
  PROVE  /\ r.kind = "issue" => r.access \in 0 .. MaxClock
         /\ r.kind \in {"revoke", "delete"} => r.read \subseteq 1 .. MaxSessions
BY DEF AnySessionRequest, SE!Issue, SE!Revoke, SE!Delete, SE!Idle

\* Marking rows changes states, nothing else.
LEMMA MarkedType ==
  ASSUME SE!TypeOK, NEW I, NEW st \in {"valid", "revoked", "deleted"}
  PROVE  /\ SE!Marked(I, st) \in Seq(SE!Session) /\ Len(SE!Marked(I, st)) = Len(sessions)
         /\ DOMAIN SE!Marked(I, st) = DOMAIN sessions
         /\ \A i \in DOMAIN sessions :
               SE!Marked(I, st)[i].state = IF i \in I THEN st ELSE sessions[i].state
<1>1. sessions \in Seq(SE!Session) /\ DOMAIN sessions = 1 .. Len(sessions) /\ Len(sessions) \in Nat
  BY DEF SE!TypeOK
<1>2. \A i \in DOMAIN sessions : sessions[i] \in SE!Session
  BY <1>1
<1>3. \A i \in DOMAIN sessions : [sessions[i] EXCEPT !.state = st] \in SE!Session
  BY <1>2 DEF SE!Session
<1>4. \A i \in DOMAIN sessions :
        /\ SE!Marked(I, st)[i] \in SE!Session
        /\ SE!Marked(I, st)[i].state = IF i \in I THEN st ELSE sessions[i].state
  BY <1>2, <1>3 DEF SE!Marked, SE!Session
<1>5. SE!Marked(I, st) = [i \in 1 .. Len(sessions) |-> SE!Marked(I, st)[i]]
  BY <1>1 DEF SE!Marked
<1> QED  BY <1>1, <1>4, <1>5

\* A commit appends one valid row.
LEMMA IssueAppends ==
  ASSUME SE!TypeOK, NEW s \in SessionSlot, SE!CommitIssue(s)
  PROVE  sessions' \in Seq(SE!Session) /\ Len(sessions') <= MaxSessions
<1>1. sessionRequest[s] \in AnySessionRequest /\ sessions \in Seq(SE!Session) /\ clock \in 0 .. MaxClock
  BY DEF SE!TypeOK, AnySessionRequest
<1>2. sessionRequest[s].access \in 0 .. MaxClock
  BY <1>1, SessionRequestFields DEF SE!CommitIssue, SE!NewRow, SE!Finish
<1>3. [access |-> sessionRequest[s].access, created |-> clock, state |-> "valid"] \in SE!Session
  BY <1>1, <1>2 DEF SE!Session
<1> QED  BY <1>1, <1>3, SessionsAssumption DEF SE!ConstantsHold, SE!CommitIssue, SE!NewRow

\* What a handler reads is a set of rows.
LEMMA ReadRows ==
  ASSUME SE!TypeOK, NEW st
  PROVE  SE!InState(st) \subseteq 1 .. MaxSessions
<1>1. DOMAIN sessions = 1 .. Len(sessions) /\ Len(sessions) \in Nat /\ Len(sessions) <= MaxSessions
  BY DEF SE!TypeOK
<1>2. SE!InState(st) \subseteq 1 .. Len(sessions)
  BY <1>1 DEF SE!InState
<1> QED  BY <1>1, <1>2, SessionsAssumption DEF SE!ConstantsHold

\* The variables keep their types.
THEOREM SessionsTypeCorrect == SE!Spec => []SE!TypeOK
<1>1. SE!Init => SE!TypeOK
  BY SessionsAssumption DEF SE!ConstantsHold, SE!Init, SE!TypeOK
<1>2. SE!TypeOK /\ [SE!Next]_SE!vars => SE!TypeOK'
  <2> SUFFICES ASSUME SE!TypeOK, [SE!Next]_SE!vars PROVE SE!TypeOK'
    OBVIOUS
  <2>a. /\ sessionRequest \in [SessionSlot -> AnySessionRequest]
        /\ sessions \in Seq(SE!Session) /\ Len(sessions) <= MaxSessions
        /\ clock \in 0 .. MaxClock /\ MaxClock \in Nat
    BY SessionsAssumption DEF SE!ConstantsHold, SE!TypeOK, AnySessionRequest
  <2>b. ASSUME NEW s \in SessionSlot, NEW r \in AnySessionRequest, SE!Begin(s, r), fresh' \in {fresh, "login"}
        PROVE  SE!TypeOK'
    BY <2>a, <2>b DEF SE!Begin, SE!TypeOK, AnySessionRequest
  <2>1. CASE SE!Tick
    BY <2>a, <2>1 DEF SE!Tick, SE!TypeOK
  <2>2. ASSUME NEW s \in SessionSlot, SE!BeginLogin(s) \/ SE!BeginRefresh(s) PROVE SE!TypeOK'
    <3>1. [kind |-> "issue", access |-> clock] \in AnySessionRequest
      BY <2>a DEF AnySessionRequest, SE!Issue
    <3> QED  BY <2>b, <2>2, <3>1 DEF SE!BeginLogin, SE!BeginRefresh
  <2>3. ASSUME NEW s \in SessionSlot, SE!BeginRevoke(s) PROVE SE!TypeOK'
    <3>1. [kind |-> "revoke", read |-> SE!InState("valid")] \in AnySessionRequest
      BY ReadRows, SessionsAssumption DEF AnySessionRequest, SE!Revoke
    <3> QED  BY <2>b, <2>3, <3>1 DEF SE!BeginRevoke
  <2>4. ASSUME NEW s \in SessionSlot, SE!BeginDelete(s) PROVE SE!TypeOK'
    <3>1. [kind |-> "delete", read |-> SE!InState("valid") \cup SE!InState("revoked")] \in AnySessionRequest
      BY ReadRows, SessionsAssumption DEF AnySessionRequest, SE!Delete
    <3> QED  BY <2>b, <2>4, <3>1 DEF SE!BeginDelete
  <2>5. ASSUME NEW s \in SessionSlot, sessionRequest' = [sessionRequest EXCEPT ![s] = SE!Idle]
        PROVE  sessionRequest' \in [SessionSlot -> SE!Issue \cup SE!Revoke \cup SE!Delete \cup {SE!Idle}]
    BY <2>5 DEF SE!TypeOK
  <2>6. ASSUME NEW s \in SessionSlot, SE!CommitIssue(s) PROVE SE!TypeOK'
    BY <2>5, <2>6, IssueAppends, SessionsAssumption DEF SE!CommitIssue, SE!Finish, SE!TypeOK
  <2>7. ASSUME NEW s \in SessionSlot, SE!CommitRevoke(s) PROVE SE!TypeOK'
    BY <2>a, <2>5, <2>7, MarkedType DEF SE!CommitRevoke, SE!Finish, SE!TypeOK
  <2>8. ASSUME NEW s \in SessionSlot, SE!CommitDelete(s) PROVE SE!TypeOK'
    BY <2>a, <2>5, <2>8, MarkedType DEF SE!CommitDelete, SE!Finish, SE!TypeOK
  <2>9. ASSUME NEW s \in SessionSlot, SE!Fail(s) PROVE SE!TypeOK'
    BY <2>5, <2>9 DEF SE!Fail, SE!TypeOK
  <2>10. CASE UNCHANGED SE!vars
    BY <2>10 DEF SE!vars, SE!TypeOK
  <2> QED
    BY <2>1, <2>2, <2>3, <2>4, <2>6, <2>7, <2>8, <2>9, <2>10 DEF SE!Next, SE!Handle
<1> QED  BY <1>1, <1>2, PTL DEF SE!Spec

----------------------------------------------------------------------------

\* No token is being issued while a revocation is in flight.
SessionsApart ==
  \A s, t \in SessionSlot : ~(sessionRequest[s].kind = "revoke" /\ sessionRequest[t].kind = "issue")

\* A revocation in flight has read every valid session.
RevokesAll ==
  \A s \in SessionSlot : sessionRequest[s].kind = "revoke" => SE!InState("valid") \subseteq sessionRequest[s].read

\* Until a login, nothing is valid and nothing is being issued.
NothingValid ==
  fresh = "none" => /\ SE!InState("valid") = {}
                    /\ \A s \in SessionSlot : sessionRequest[s].kind # "issue"

OutInv == SessionsApart /\ RevokesAll /\ NothingValid

\* A request that has read changes no row and has read what is there.
LEMMA SessionBeginStep ==
  ASSUME SerialRevokes, SE!TypeOK, OutInv, NEW s \in SessionSlot, NEW r, SE!Begin(s, r),
         r.kind = "revoke" => SE!InState("valid") \subseteq r.read,
         fresh' \in {fresh, "login"},
         r.kind = "issue" => fresh' = "login"
  PROVE  OutInv'
<1>1. \A t \in SessionSlot : sessionRequest'[t] = IF t = s THEN r ELSE sessionRequest[t]
  BY DEF SE!Begin, SE!TypeOK
<1>2. SE!InState("valid")' = SE!InState("valid")
  BY DEF SE!Begin, SE!InState
<1>3. /\ r.kind = "revoke" => \A t \in SessionSlot \ {s} : sessionRequest[t].kind # "issue"
      /\ r.kind = "issue" => \A t \in SessionSlot \ {s} : sessionRequest[t].kind # "revoke"
  BY DEF SE!Begin, SE!MayOverlap, SE!Kinds
<1>4. SessionsApart'
  BY <1>1, <1>3 DEF OutInv, SessionsApart
<1>5. RevokesAll'
  BY <1>1, <1>2 DEF OutInv, RevokesAll
<1>6. NothingValid'
  BY <1>1, <1>2 DEF OutInv, NothingValid
<1> QED  BY <1>4, <1>5, <1>6 DEF OutInv

\* A step after which every valid session was valid before, and at most one
\* request has ended.
LEMMA ShrinkStep ==
  ASSUME SE!TypeOK, OutInv, NEW s \in SessionSlot, sessionRequest' = [sessionRequest EXCEPT ![s] = SE!Idle],
         SE!InState("valid")' \subseteq SE!InState("valid"),
         fresh' = fresh
  PROVE  OutInv'
<1>1. \A t \in SessionSlot : sessionRequest'[t] = IF t = s THEN SE!Idle ELSE sessionRequest[t]
  BY DEF SE!TypeOK
<1>2. SE!Idle.kind = "idle"
  BY DEF SE!Idle
<1>3. SessionsApart'
  BY <1>1, <1>2 DEF OutInv, SessionsApart
<1>4. RevokesAll'
  BY <1>1, <1>2 DEF OutInv, RevokesAll
<1>5. NothingValid'
  BY <1>1, <1>2 DEF OutInv, NothingValid
<1> QED  BY <1>3, <1>4, <1>5 DEF OutInv

\* Every step keeps the user out until the next login.
LEMMA OutStep ==
  ASSUME SerialRevokes, SE!TypeOK, OutInv, [SE!Next]_SE!vars
  PROVE  OutInv'
<1>1. CASE SE!Tick \/ UNCHANGED SE!vars
  <2>1. UNCHANGED <<sessions, sessionRequest, fresh>>
    BY <1>1 DEF SE!Tick, SE!vars
  <2> QED  BY <2>1 DEF OutInv, SessionsApart, RevokesAll, NothingValid, SE!InState
<1>2. ASSUME NEW s \in SessionSlot, SE!BeginLogin(s) PROVE OutInv'
  BY <1>2, SessionBeginStep DEF SE!BeginLogin
<1>3. ASSUME NEW s \in SessionSlot, SE!BeginRefresh(s) PROVE OutInv'
  <2>1. fresh = "login"
    BY <1>3 DEF SE!BeginRefresh, SE!RefreshAccepted, OutInv, NothingValid, SE!InState, SE!TypeOK
  <2> QED  BY <1>3, <2>1, SessionBeginStep DEF SE!BeginRefresh
<1>4. ASSUME NEW s \in SessionSlot, SE!BeginRevoke(s) PROVE OutInv'
  BY <1>4, SessionBeginStep DEF SE!BeginRevoke
<1>5. ASSUME NEW s \in SessionSlot, SE!BeginDelete(s) PROVE OutInv'
  BY <1>5, SessionBeginStep DEF SE!BeginDelete
<1>6. ASSUME NEW s \in SessionSlot, SE!CommitIssue(s) PROVE OutInv'
  <2>1. sessionRequest[s].kind = "issue" /\ fresh' = fresh
    BY <1>6 DEF SE!CommitIssue, SE!Finish
  <2>2. fresh # "none" /\ \A t \in SessionSlot : sessionRequest[t].kind # "revoke"
    BY <2>1 DEF OutInv, NothingValid, SessionsApart
  <2>3. \A t \in SessionSlot : sessionRequest'[t] = IF t = s THEN SE!Idle ELSE sessionRequest[t]
    BY <1>6 DEF SE!CommitIssue, SE!Finish, SE!TypeOK
  <2> QED  BY <2>1, <2>2, <2>3 DEF OutInv, SessionsApart, RevokesAll, NothingValid, SE!Idle
<1>7. ASSUME NEW s \in SessionSlot, SE!CommitRevoke(s) PROVE OutInv'
  <2>1. sessionRequest[s].kind = "revoke" /\ SE!InState("valid") \subseteq sessionRequest[s].read
    BY <1>7 DEF SE!CommitRevoke, SE!Finish, OutInv, RevokesAll
  <2>2. \A t \in SessionSlot : sessionRequest[t].kind # "issue"
    BY <2>1 DEF OutInv, SessionsApart
  <2>3. \A t \in SessionSlot : sessionRequest'[t] = IF t = s THEN SE!Idle ELSE sessionRequest[t]
    BY <1>7 DEF SE!CommitRevoke, SE!Finish, SE!TypeOK
  <2>4. sessions' = SE!Marked(sessionRequest[s].read, "revoked")
    BY <1>7 DEF SE!CommitRevoke
  <2>5. SE!InState("valid")' = {}
    BY <2>1, <2>4, MarkedType DEF SE!InState
  <2> QED  BY <2>2, <2>3, <2>5 DEF OutInv, SessionsApart, RevokesAll, NothingValid, SE!Idle
<1>8. ASSUME NEW s \in SessionSlot, SE!CommitDelete(s) PROVE OutInv'
  <2>1. sessions' = SE!Marked(sessionRequest[s].read, "deleted")
    BY <1>8 DEF SE!CommitDelete
  <2>2. SE!InState("valid")' \subseteq SE!InState("valid")
    BY <2>1, MarkedType DEF SE!InState
  <2> QED  BY <1>8, <2>2, ShrinkStep DEF SE!CommitDelete, SE!Finish
<1>9. ASSUME NEW s \in SessionSlot, SE!Fail(s) PROVE OutInv'
  <2>1. SE!InState("valid")' = SE!InState("valid")
    BY <1>9 DEF SE!Fail, SE!InState
  <2> QED  BY <1>9, <2>1, ShrinkStep DEF SE!Fail
<1> QED
  BY <1>1, <1>2, <1>3, <1>4, <1>5, <1>6, <1>7, <1>8, <1>9 DEF SE!Next, SE!Handle

\* When clients let a logout or a password change have the account for itself,
\* it ends every session: no token is accepted until the next login.
THEOREM LogoutIsFinal ==
  ASSUME SerialRevokes
  PROVE  SE!Spec => []SE!OutUntilLogin
<1>1. SE!Init => OutInv
  BY DEF SE!Init, OutInv, SessionsApart, RevokesAll, NothingValid, SE!InState, SE!Idle
<1>2. SE!TypeOK /\ OutInv /\ [SE!Next]_SE!vars => OutInv'
  BY OutStep, SerialRevokes
<1>3. OutInv => SE!OutUntilLogin
  BY DEF OutInv, NothingValid, SE!OutUntilLogin, SE!RefreshAccepted, SE!AccessAccepted, SE!Candidates, SE!InState
<1> QED  BY <1>1, <1>2, <1>3, SessionsTypeCorrect, PTL DEF SE!Spec

----------------------------------------------------------------------------
(* The two together.                                                       *)

\* A behaviour of the two modules is a behaviour of each.
LEMMA EachRuns == SpecEither => Spec /\ SE!Spec
<1>1. InitEither => Init /\ SE!Init
  BY DEF InitEither
<1>2. [NextEither]_<<at, vars, sessionVars>> => [Next]_vars /\ [SE!Next]_SE!vars
  BY DEF NextEither, sessionVars, SE!vars
<1> QED  BY <1>1, <1>2, PTL DEF SpecEither, Spec, SE!Spec

\* Beside the account handlers, too, a logout or a password change keeps the user
\* out until the next login, when clients let it have the account for itself.
THEOREM OutIsOut ==
  ASSUME SerialRevokes
  PROVE  SpecEither => []OutUntilLogin
BY EachRuns, LogoutIsFinal, SerialRevokes, PTL DEF OutUntilLogin
=============================================================================
