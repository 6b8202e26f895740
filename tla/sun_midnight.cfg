\* The sun sets ten minutes past midnight (UTC); expected to miss a day.
SPECIFICATION Spec
CONSTANTS
  Day = 720
  Period = 120
  Window = 61
  Delay = 1
  Targets = {20}
PROPERTY NoDayMissed
