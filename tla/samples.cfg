SPECIFICATION FairSpec
CONSTANTS
  m1 = m1
  m2 = m2
  c1 = c1
  c2 = c2
  c3 = c3
  Machine = {m1, m2}
  Conn = {c1, c2, c3}
  MachineOf <- ConnMachine
  RingSize = 2
  QueueCap = 2
  BatchMax = 2
  MaxSamples = 3
INVARIANTS
  RingHoldsTheLastSamples
  HistoryIsExact
  NoOrphanSamples
PROPERTIES
  WriterDrains
CHECK_DEADLOCK FALSE
