\* Two bulbs, two slots, every kind of handler.
SPECIFICATION Spec
CONSTANTS
  Device = {b1, b2}
  Look = {warm}
  Handler = {h1, h2}
  Kind = {"single", "bulk", "quick", "schedule", "discover"}
  Concurrency = 1
  MaxTargets = 1
  MaxEvents = 2
  Dark = Dark
  NoLook = NoLook
  NoRow = NoRow
  NoState = NoState
  NoWrite = NoWrite
  NoOne = NoOne
  Nothing = Nothing
SYMMETRY Symmetry
INVARIANT CopiedStateReachesEveryDevice
PROPERTY StoredStateNeverErased
