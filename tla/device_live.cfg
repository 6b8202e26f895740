\* One bulb, two slots: three commands, outside changes or faults, then discovery alone.
SPECIFICATION FairSpec
CONSTANTS
  Device = {b1}
  Look = {warm}
  Handler = {h1, h2}
  Kind = {"single", "quick", "discover"}
  Concurrency = 1
  MaxTargets = 1
  MaxEvents = 3
  Dark = Dark
  NoLook = NoLook
  NoRow = NoRow
  NoState = NoState
  NoWrite = NoWrite
  NoOne = NoOne
  Nothing = Nothing

PROPERTIES  Converges
