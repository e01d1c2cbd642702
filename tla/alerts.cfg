SPECIFICATION FairSpec
CONSTANTS
  Rule = {r1}
  Duration = 2
  Gap = 1
  Backoff = 1
  MaxPending = 1
  MaxEvents = 2
  MaxFaults = 1
  None = None
INVARIANTS
  DueAlertsAreActive
  AnnouncedIsStored
  DeliveryBounded
PROPERTIES
  FiresOnlyAfterDuration
  EveryEventSettles
