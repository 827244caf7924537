SPECIFICATION RootSpec
CONSTANTS
  Value = {v1, v2}
  MaxFields = 2
  Portal = {p1}
  MaxRoot = 3
  MaxAsk = 2
  Pin_ = {"p1", "p2"}
  Skeleton = {"s1", "s2"}
  Process = {1, 2}
  MaxRun = 3
  Writer = {w1, w2}
  Config = {a, b, bad}
  Valid = {a, b}
  Torn = Torn
  Absent = Absent
  Stopped = Stopped
  Signals = {"KILL", "TERM"}
  Client = {c1}
  Mac = {m1, m2, m3}
  Limit = 3
  Broadcast = 9
  DefaultBoundary = 2
  Overlap = FALSE
  Actions = {"add", "remove", "readdress", "boundary"}
CHECK_DEADLOCK FALSE
INVARIANTS BackupsUndo AcknowledgedIsReported FailedRotationRestores RefusedRestoresFile PasswordIsServed VouchedWasHeld NeverUnvalidated SerialRecoverable ReservedBelowPool AcknowledgedStands
PROPERTY SerialSuccess
