\* A schedule with a target of two bulbs; expected to violate its property.
SPECIFICATION Spec
CONSTANTS
  Device = {b1, b2}
  Look = {warm}
  Handler = {h1, h2}
  Kind = {"schedule", "discover"}
  Concurrency = 1
  MaxTargets = 1
  MaxEvents = 2
  Dark = Dark
  NoLook = NoLook
  NoRow = NoRow
  NoState = NoState
  NoWrite = NoWrite
  NoOne = NoOne
  Nothing = Nothing

INVARIANT ScheduleStateReachesEveryDevice
