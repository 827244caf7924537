SPECIFICATION SeededSpec
CONSTANTS
  Thread = {t1, t2}
  Doc = {d1}
  Pin = {p1}
  Scope = {rotate, other}
  PIN_ROTATION = rotate
  NoKey = NoKey
  ZeroedKey = ZeroedKey
  NoDoc = NoDoc
  NoScope = NoScope
  Ops = {"challenge.mint", "session.mint", "session.prove", "session.clear", "capability.mint", "capability.consume", "attendance.current", "signing.status"}
  CHALLENGE_TTL_SECONDS = 1
  CAPABILITY_TTL_SECONDS = 1
  MAX_REGISTRY_ITEMS = 2
  MaxRotators = 0
  KeymanLate = FALSE
  Crashes = TRUE
  MaxFresh = 8
  MaxTime = 1
  SeededDoc = d1
  Sessions = 1
CHECK_DEADLOCK FALSE
SYMMETRY ConnectionSymmetry
INVARIANTS TypeOK ChallengeRedeemedOnce CapabilitySpentOnce SpendNeedsLiveSession
PROPERTY ImplementsLedger
