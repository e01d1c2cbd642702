SPECIFICATION Spec
CONSTANTS
  a1 = a1
  a2 = a2
  u1 = u1
  t1 = t1
  t2 = t2
  c1 = c1
  c2 = c2
  c3 = c3
  None = None
  Admin = Admin
  Agent = {a1}
  UUID = {u1}
  Token = {t1, t2}
  Conn = {c1, c2}
  UuidOf <- SoloUuid
  TokenOf <- SoloToken
  HasSecret = {a1}
  Compatible = {a1}
  StoreMayFail = FALSE
  HelloMayBeLate = FALSE
  Supervised = FALSE
  MaxRestarts = 0
  MaxDrops = 1
INVARIANTS
  OlderConnectionYields
