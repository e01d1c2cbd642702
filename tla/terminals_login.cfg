SPECIFICATION FairSpec
CONSTANTS
  s1 = s1
  s2 = s2
  s3 = s3
  d1 = d1
  d2 = d2
  m1 = m1
  m2 = m2
  None = None
  Session = {s1}
  Dial = {d1, d2}
  Machine = {m1, m2}
  MaxPerMachine = 1
  MaxTotal = 2
INVARIANTS
  OneShellOfTheRightMachine
PROPERTIES
  ShellsEnd
CHECK_DEADLOCK FALSE
