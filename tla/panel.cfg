\* A device's page, and one with two members of which one is offline; two
\* temperatures and levels of brightness, two things to do, two posts in flight.
SPECIFICATION Spec
CONSTANTS
  Kind = {"device", "members"}
  Device = {b1, b2}
  Bulb = b1
  Online = {b1}
  Picked = {10}
  Reported = {0}
  Temp = {2200, 4000}
  Dim = {10, 100}
  First <- FirstStates
  Blank = Blank
  NoData = NoData
  MaxEdits = 2
  MaxPosts = 2
INVARIANTS ControlShowsValue  ControlShowsDevice
PROPERTIES KeepsPromise Settles
CHECK_DEADLOCK FALSE
