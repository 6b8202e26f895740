-------------------------------- MODULE Accounts --------------------------------
(***************************************************************************)
(* Who has an account and what it may do: the one-time setup, roles, users *)
(* and invites, under concurrent requests.  A request authenticates and    *)
(* reads, then flushes and commits; between the two others may commit.     *)
(* What guards the tables in the end is what the database checks: unique   *)
(* keys, and that an UPDATE finds its row.                                 *)
(*                                                                         *)
(* A user carries a copy of its role's is_admin, is_guest and permissions, *)
(* taken as one value here, a level.  A user stands for an id and a         *)
(* username; the username of a deleted user is not taken again.            *)
(***************************************************************************)
EXTENDS Naturals, FiniteSets

CONSTANTS
  User,         \* users there may be
  Role,         \* ids that may be drawn for roles
  SystemRole,   \* the roles that the migration inserts: Admin, User, Guest
  AdminRole,    \* of these the one with is_admin
  Invite,       \* ids that may be drawn for invite codes
  Slot,         \* requests in flight at once
  SerialEdits,  \* assumed of administrators: changes to a role or to the role
                \* of a user overlap no other request
  Null

ASSUME ConstantsAssumption ==
  /\ AdminRole \in SystemRole /\ SystemRole \subseteq Role
  /\ Null \notin Role
  /\ SerialEdits \in BOOLEAN

\* DEFAULT_PERMISSIONS without is_admin, a restricted role, an administrator's.
Level == {"default", "member", "admin"}

VARIABLES
  fuse,     \* "open", or "burnt" once system_config has its setup_complete row
  roles,    \* the level of every role that exists
  users,    \* role_id and level of every user
  invites,  \* "none", "active", "used" or "revoked" (the row is deleted)
  offers,   \* invite_codes.role_id
  drawn,    \* roles and users made so far
  request,  \* what each request in flight has read
  setups, accepted   \* history: setups done, accounts made of each invite

vars == <<fuse, roles, users, invites, offers, drawn, request, setups, accepted>>
tables == <<fuse, roles, users, invites, offers, drawn, setups, accepted>>

Account == [role : Role \cup {Null}, level : Level]
Idle == [kind |-> "idle"]
Request ==
       [kind : {"setup"}, name : User, account : Account]
  \cup [kind : {"create_role"}, id : Role, level : Level]
  \cup [kind : {"update_role"}, id : Role, seen : Level, level : Level]
  \cup [kind : {"delete_role"}, id : Role]
  \cup [kind : {"create_user"}, name : User, account : Account]
  \cup [kind : {"update_user"}, name : User, seen : Account, account : Account]
  \cup [kind : {"delete_user"}, name : User]
  \cup [kind : {"create_invite"}, id : Invite, role : Role]
  \cup [kind : {"revoke_invite"}, id : Invite]
  \cup [kind : {"register"}, id : Invite, name : User, account : Account]

Edits == {"update_role", "delete_role", "update_user"}

Init ==
  /\ fuse = "open"
  /\ roles = [r \in SystemRole |-> IF r = AdminRole THEN "admin" ELSE "member"]
  /\ users = [u \in {} |-> Null]
  /\ invites = [i \in Invite |-> "none"]
  /\ offers = [i \in Invite |-> AdminRole]
  /\ drawn = SystemRole
  /\ request = [s \in Slot |-> Idle]
  /\ setups = 0
  /\ accepted = [i \in Invite |-> 0]

----------------------------------------------------------------------------
(* What the handlers read.                                                 *)

Live == DOMAIN roles
Names == DOMAIN users
\* Mutant: the query finds no holder of a role.
NoHolders(r) == {}
Holders(r) == {u \in Names : users[u].role = r}

\* require_admin: some administrator sends the request; other than u.
AdminOtherThan(u) == \E a \in Names \ {u} : users[a].level = "admin"
SomeAdmin == \E a \in Names : users[a].level = "admin"

\* create_user() with a role_id: the role's level if the role is found, else
\* DEFAULT_PERMISSIONS and no role.
\* Mutant: without the defaults.
AccountWithoutDefaults(r) == [role |-> r, level |-> IF r \in Live THEN roles[r] ELSE Null]
AccountFor(r) ==
  IF r \in Live THEN [role |-> r, level |-> roles[r]]
                ELSE [role |-> Null, level |-> "default"]

Others(s) == {request[t] : t \in Slot \ {s}} \ {Idle}

\* Where administrators keep edits apart.
MayOverlap(s, kind) ==
  SerialEdits => /\ kind \in Edits => Others(s) = {}
                 /\ \A r \in Others(s) : r.kind \notin Edits

Begin(s, r) ==
  /\ request[s] = Idle
  /\ MayOverlap(s, r.kind)
  /\ request' = [request EXCEPT ![s] = r]
  /\ UNCHANGED tables

\* POST /auth/setup
BeginSetup(s) ==
  /\ fuse = "open"
  /\ \E u \in User \ drawn : Begin(s, [kind |-> "setup", name |-> u, account |-> AccountFor(AdminRole)])

\* POST /auth/roles: an id nobody has.
BeginCreateRole(s) ==
  /\ SomeAdmin
  /\ \E r \in Role \ drawn, l \in Level :
       Begin(s, [kind |-> "create_role", id |-> r, level |-> l])

\* PUT /auth/roles/{id}: not of a system role.
BeginUpdateRole(s) ==
  /\ SomeAdmin
  /\ \E r \in Live \ SystemRole, l \in Level :
       Begin(s, [kind |-> "update_role", id |-> r, seen |-> roles[r], level |-> l])

\* DELETE /auth/roles/{id}: not a system role, and no user holds it.
BeginDeleteRole(s) ==
  /\ SomeAdmin
  /\ \E r \in Live \ SystemRole :
       Holders(r) = {} /\ Begin(s, [kind |-> "delete_role", id |-> r])

\* POST /auth/users: the name is free and the role is there.
BeginCreateUser(s) ==
  /\ SomeAdmin
  /\ \E u \in User \ drawn, r \in Live :
       Begin(s, [kind |-> "create_user", name |-> u, account |-> AccountFor(r)])

\* PUT /auth/users/{id}: not of oneself.
BeginUpdateUser(s) ==
  \E u \in Names, r \in Live :
    /\ AdminOtherThan(u)
    /\ Begin(s, [kind |-> "update_user", name |-> u, seen |-> users[u], account |-> AccountFor(r)])

\* DELETE /auth/users/{id}: not oneself.
BeginDeleteUser(s) ==
  \E u \in Names : AdminOtherThan(u) /\ Begin(s, [kind |-> "delete_user", name |-> u])

\* POST /auth/invites: the role is there.
BeginCreateInvite(s) ==
  /\ SomeAdmin
  /\ \E i \in Invite, r \in Live :
       invites[i] = "none" /\ Begin(s, [kind |-> "create_invite", id |-> i, role |-> r])

\* DELETE /auth/invites/{id}: of one not used.
BeginRevokeInvite(s) ==
  /\ SomeAdmin
  /\ \E i \in Invite : invites[i] = "active" /\ Begin(s, [kind |-> "revoke_invite", id |-> i])

\* POST /auth/register: the invite is not used, the name is free; whether the
\* role still exists is left to create_user().
BeginRegister(s) ==
  \E i \in Invite, u \in User \ drawn :
    /\ invites[i] = "active"
    /\ Begin(s, [kind |-> "register", id |-> i, name |-> u, account |-> AccountFor(offers[i])])

----------------------------------------------------------------------------
(* What the handlers flush and commit.                                     *)

Finish(s, kind) ==
  /\ request[s].kind = kind
  /\ request' = [request EXCEPT ![s] = Idle]

\* users.username is unique.
Added(u, a) ==
  /\ u \notin drawn
  /\ users' = [v \in Names \cup {u} |-> IF v = u THEN a ELSE users[v]]
  /\ drawn' = drawn \cup {u}

\* Mutant: system_config.key is not unique.
FuseNotUnique == TRUE
\* system_config.key is unique: a second setup_complete row fails.
UniqueFuse == fuse = "open"

Setup(s) ==
  /\ Finish(s, "setup")
  /\ Added(request[s].name, request[s].account)
  /\ UniqueFuse
  /\ fuse' = "burnt" /\ setups' = setups + 1
  /\ UNCHANGED <<roles, invites, offers, accepted>>

\* Ids are unique, here as in CreateInvite.
CreateRole(s) ==
  /\ Finish(s, "create_role")
  /\ request[s].id \notin drawn
  /\ roles' = [q \in Live \cup {request[s].id} |->
               IF q = request[s].id THEN request[s].level ELSE roles[q]]
  /\ drawn' = drawn \cup {request[s].id}
  /\ UNCHANGED <<fuse, users, invites, offers, setups, accepted>>

\* The role, unless nothing changed; then its holders, read under the lock.
UpdateRole(s) ==
  /\ Finish(s, "update_role")
  /\ LET r == request[s].id
         l == request[s].level
     IN /\ r \in Live \/ l = request[s].seen
        /\ roles' = IF l = request[s].seen THEN roles ELSE [roles EXCEPT ![r] = l]
        /\ users' = [u \in Names |-> IF u \in Holders(r) THEN [users[u] EXCEPT !.level = l]
                                     ELSE users[u]]
  /\ UNCHANGED <<fuse, invites, offers, drawn, setups, accepted>>

\* The role goes; holders that the unit of work finds by then lose it.
DeleteRole(s) ==
  /\ Finish(s, "delete_role")
  /\ roles' = [r \in Live \ {request[s].id} |-> roles[r]]
  /\ \E found \in SUBSET Holders(request[s].id) :
       users' = [u \in Names |-> IF u \in found THEN [users[u] EXCEPT !.role = Null] ELSE users[u]]
  /\ UNCHANGED <<fuse, invites, offers, drawn, setups, accepted>>

CreateUser(s) ==
  /\ Finish(s, "create_user")
  /\ Added(request[s].name, request[s].account)
  /\ UNCHANGED <<fuse, roles, invites, offers, setups, accepted>>

\* Only the columns that differ from the values read are written.
UpdateUser(s) ==
  /\ Finish(s, "update_user")
  /\ LET q == request[s] IN
       /\ q.name \in Names
       /\ users' = [users EXCEPT ![q.name] =
            [role  |-> IF q.account.role = q.seen.role THEN @.role ELSE q.account.role,
             level |-> IF q.account.level = q.seen.level THEN @.level ELSE q.account.level]]
  /\ UNCHANGED <<fuse, roles, invites, offers, drawn, setups, accepted>>

DeleteUser(s) ==
  /\ Finish(s, "delete_user")
  /\ users' = [u \in Names \ {request[s].name} |-> users[u]]
  /\ UNCHANGED <<fuse, roles, invites, offers, drawn, setups, accepted>>

CreateInvite(s) ==
  /\ Finish(s, "create_invite")
  /\ invites[request[s].id] = "none"
  /\ invites' = [invites EXCEPT ![request[s].id] = "active"]
  /\ offers' = [offers EXCEPT ![request[s].id] = request[s].role]
  /\ UNCHANGED <<fuse, roles, users, drawn, setups, accepted>>

\* The row is deleted, even if the invite has been used since it was read.
RevokeInvite(s) ==
  /\ Finish(s, "revoke_invite")
  /\ invites' = [invites EXCEPT ![request[s].id] = "revoked"]
  /\ UNCHANGED <<fuse, roles, users, offers, drawn, setups, accepted>>

\* Mutant: the UPDATE does not need to find its row.
InviteRowNotNeeded(i) == TRUE
\* UPDATE invite_codes SET used needs the row, not that it is still unused.
InviteRowFound(i) == invites[i] \in {"active", "used"}

Register(s) ==
  /\ Finish(s, "register")
  /\ LET q == request[s] IN
       /\ InviteRowFound(q.id)
       /\ Added(q.name, q.account)
       /\ invites' = [invites EXCEPT ![q.id] = "used"]
       /\ accepted' = [accepted EXCEPT ![q.id] = @ + 1]
  /\ UNCHANGED <<fuse, roles, offers, setups>>

\* A unique key or a missing row fails the flush, or something else fails
\* before the commit; nothing is kept.
Fail(s) ==
  /\ request[s] # Idle
  /\ request' = [request EXCEPT ![s] = Idle]
  /\ UNCHANGED tables

Read(s) ==
  \/ BeginSetup(s) \/ BeginCreateRole(s) \/ BeginUpdateRole(s) \/ BeginDeleteRole(s) 
  \/ BeginCreateUser(s) \/ BeginUpdateUser(s) \/ BeginDeleteUser(s)
  \/ BeginCreateInvite(s) \/ BeginRevokeInvite(s) \/ BeginRegister(s)

Write(s) ==
  \/ Setup(s) \/ CreateRole(s) \/ UpdateRole(s) \/ DeleteRole(s) \/ CreateUser(s)
  \/ UpdateUser(s) \/ DeleteUser(s) \/ CreateInvite(s) \/ RevokeInvite(s) \/ Register(s)

Next == \E s \in Slot : Read(s) \/ Write(s) \/ Fail(s)

Spec == Init /\ [][Next]_vars

----------------------------------------------------------------------------
(* Properties.                                                             *)

\* Every variable holds values of its type (the type invariant).
TypeOK ==
  /\ fuse \in {"open", "burnt"}
  /\ Live \subseteq Role /\ roles \in [Live -> Level]
  /\ Names \subseteq User /\ users \in [Names -> Account]
  /\ invites \in [Invite -> {"none", "active", "used", "revoked"}]
  /\ offers \in [Invite -> Role]
  /\ drawn \subseteq Role \cup User
  /\ request \in [Slot -> Request \cup {Idle}]
  /\ setups \in Nat
  /\ accepted \in [Invite -> Nat]

\* However many requests pass the check of is_setup_complete() together, one
\* administrator at most comes out of the setup.
SetupOnce == setups <= 1

\* A user's level is the level of its role, and the role exists: creating,
\* registering and deleting users beside each other does not disturb it.
UsersFollowRoles ==
  \A u \in Names : users[u].role # Null =>
    users[u].role \in Live /\ users[u].level = roles[users[u].role]

\* No account is made of an invite whose revocation has been confirmed, not even
\* by a registration that had found the invite before.
RevokedInviteAdmitsNobody ==
  [][\A i \in Invite : invites[i] = "revoked" => accepted'[i] = accepted[i]]_vars

\* "Generate a single-use invite link": one account per invite.  (The code
\* does not ensure it: two registrations may both find the invite unused.)
InviteOnce == \A i \in Invite : accepted[i] <= 1
=============================================================================
