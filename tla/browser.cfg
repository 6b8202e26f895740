\* Two tabs, two calls in flight, one fault.
SPECIFICATION Spec
CONSTANTS
  Tab = {t1, t2}
  MaxCalls = 2
  MaxFaults = 1
  OneHand = TRUE
INVARIANTS TypeOK FlagIsTrue  UserIsAskedFor
PROPERTIES DroppedForCause DeadSessionIsNoticed
