\* The server: two credentials of one make, one challenge at a time, two requests.
\* The page: two passkeys under two names, a call of each kind at once.
SPECIFICATION SpecEither
CONSTANTS
  Key = {k1, k2}
  Model = {m1}
  Verification = {"verified", "touch"}
  Challenge = {c1, c2}
  Slot = {s1, s2}
  MaxCount = 2
  MaxSessions = 2
  Absent = Absent
  Label = {l1, l2}
  Null = Null
SYMMETRY Symmetry
INVARIANTS NoReplay SecondAlarmRevokes 
PROPERTY RevokedStaysOut
