\* Cron: the code's numbers, with workers up to 4 seconds late.  Sun: in units
\* of 30 seconds, an hour, 1830 s, workers up to 30 s late, a day of six hours,
\* sunrise and sunset in its midst.
SPECIFICATION SpecEither
CONSTANTS
  Period = 30
  Window = 35
  Delay = 4
  MinGap = 60
  Day = 720
  SunPeriod = 120
  SunWindow = 61
  SunDelay = 1
  Targets = {60, 400}
INVARIANTS NoOccurrenceMissed AtMostTwice SunAtMostTwice
PROPERTY NoDayMissed
