\* A visit to one of four pages; the bounds of each are explained in the README.
SPECIFICATION Spec
CONSTANTS
  Null = Null
  User = {u1, u2}
  MaxCalls = 2
  QuickAction = {q1, q2}
  MaxTargets = 2
  MaxRequests = 2
  Tab = {t1, t2}
  MaxSecrets = 3
  Crossing = FALSE
  Rooms <- TwoRooms
  Name = {n1}
  Action = {a1}
  Job = {j1, j2}
  Patient = TRUE
SYMMETRY Symmetry
INVARIANTS TypeOK PromptOpensOnce
INVARIANTS StoredFormsFit RunningIsRunning FlagHasSecret ReplaceConfirmed
PROPERTIES TokensAreEarned 
