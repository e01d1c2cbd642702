SPECIFICATION TrafficSpec
CONSTANTS
  None = None
  Period = 2
  MaxTime = 4
  MaxUpsets = 2
  MaxTraffic = 2
  MaxResets = 1
  MaxCrashes = 1
  FirstYear = 2024
  LastYear = 2025
  MaxInt = 2
INVARIANTS
  BillingErrorIsBounded
  ResetSticks
  MostRecentBoundary
  BilledNeverWraps
PROPERTIES
  HistorySurvives
  SampleNeverOverbills
CHECK_DEADLOCK FALSE
