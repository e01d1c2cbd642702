SPECIFICATION Spec
CONSTANTS
  None = None
  Period = 2
  MaxTime = 5
  MaxUpsets = 0
  MaxTraffic = 2
  MaxResets = 1
  MaxCrashes = 1
INVARIANT BytesAreThisCycles
