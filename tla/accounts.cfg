\* Accounts: two overlapping requests; changes to roles are kept apart.  Two
\* administrators may delete each other, and with nobody left nothing can happen
\* any more.  Sessions: three requests, four sessions, two seconds; once the user
\* is deleted nothing more may happen.
CHECK_DEADLOCK FALSE
SPECIFICATION SpecEither
CONSTANTS
  User = {u1, u2, u3}
  Role = {admin, user, r1, r2}
  SystemRole = {admin, user}
  AdminRole = admin
  Invite = {i1}
  Slot = {s1, s2}
  SerialEdits = TRUE
  Null = Null
  SessionSlot = {t1, t2, t3}
  MaxSessions = 4
  MaxClock = 1
  SerialRevokes = TRUE
SYMMETRY Symmetry
INVARIANTS SetupOnce UsersFollowRoles OutUntilLogin
PROPERTY RevokedInviteAdmitsNobody
