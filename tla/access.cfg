SPECIFICATION MCSpec
CONSTANTS
  a = a
  b = b
  Missing = Missing
  Torn = Torn
  Client = {a, b}
  MaxDraws = 3
  MaxFaults = 2
  MaxTokens = 3
  MaxStates = 2
  Cap = 2
  TryCap = 1
  PendingCap = 1
  FlightCap = 2
INVARIANTS
  ConfigIsWhole
  IdentitySurvives
  ChannelEndsWithLogin
  OneTryPerInterval
  StateIsOneShot
  ResetEndsLogins
PROPERTIES
  EvictsOnlyWhenFull
  ExpiryEndsTerminals
CHECK_DEADLOCK FALSE
