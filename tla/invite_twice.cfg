\* Two registrations with one invite; expected to violate the property.
CHECK_DEADLOCK FALSE
SPECIFICATION Spec
CONSTANTS
  User = {u1, u2, u3}
  Role = {admin, user, r1}
  SystemRole = {admin, user}
  AdminRole = admin
  Invite = {i1}
  Slot = {s1, s2}
  SerialEdits = TRUE
  Null = Null
INVARIANT InviteOnce
