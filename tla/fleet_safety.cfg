SPECIFICATION Spec
CONSTANTS
  a1 = a1
  a2 = a2
  u1 = u1
  t1 = t1
  t2 = t2
  c1 = c1
  c2 = c2
  c3 = c3
  None = None
  Admin = Admin
  Agent = {a1, a2}
  UUID = {u1}
  Token = {t1, t2}
  Conn = {c1, c2, c3}
  UuidOf <- RivalsUuid
  TokenOf <- RivalsToken
  HasSecret = {a1, a2}
  Compatible = {a1, a2}
  StoreMayFail = TRUE
  HelloMayBeLate = TRUE
  Supervised = TRUE
  MaxRestarts = 1
  MaxDrops = 1
SYMMETRY ConnSymmetry
INVARIANTS
  HubMatchesServing
  RemovedStaysRemoved
  AttachedHoldsBoundToken
PROPERTIES
  ImplementsRoster
