\* The server: two overlapping requests, deletes kept apart.  The page: two
\* requests of its user, in flight together.
SPECIFICATION SpecEither
CONSTANTS
  Device = {d1}
  Room = {r1, r2}
  Zone = {z1, z2}
  Group = {g1}
  Slot = {s1, s2}
  SerialDeletes = TRUE
  PageDevice = {e1, e2}
  PageZone = {z1}
  Careful = TRUE
  MaxActs = 2
  Null = Null
SYMMETRY Symmetry
INVARIANTS EveryDeviceListed NoDanglingReference
INVARIANTS  PlacesAgree RowsAsMeant
