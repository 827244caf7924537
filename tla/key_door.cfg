SPECIFICATION ThemedSpec
CONSTANTS
  Caller = {c1}
  Device = {d1, d2}
  Slot = {0, 1, 2}
  Password = {a, b}
  Empty = Empty
  LastSlotYields = TRUE
  Actions = {"create-vault", "create-external", "create-both", "update", "admin-password"}
CHECK_DEADLOCK FALSE
SYMMETRY HouseholdSymmetry
INVARIANTS StaysReplaceable DisagreementIsTold
PROPERTIES KeepsAWayIn DevicesFollowNas
