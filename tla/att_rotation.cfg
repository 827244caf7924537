SPECIFICATION SeededFairSpec
CONSTANTS
  Thread = {t1, t2}
  Doc = {d1}
  Pin = {p1, p2}
  Scope = {rotate}
  PIN_ROTATION = rotate
  NoKey = NoKey
  ZeroedKey = ZeroedKey
  NoDoc = NoDoc
  NoScope = NoScope
  Ops = {"challenge.mint", "session.mint", "capability.mint", "pin.change", "signing.status"}
  CHALLENGE_TTL_SECONDS = 1
  CAPABILITY_TTL_SECONDS = 1
  MAX_REGISTRY_ITEMS = 3
  MaxRotators = 1
  KeymanLate = TRUE
  Crashes = TRUE
  MaxFresh = 8
  MaxTime = 0
  SeededDoc = d1
  Sessions = 1
CHECK_DEADLOCK FALSE
INVARIANTS BindingCoherent SeatedSignerIsOpen
PROPERTY RotationSettles
