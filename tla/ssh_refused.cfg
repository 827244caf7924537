SPECIFICATION SshSpec
CONSTANTS
  MaxAsk = 2
CHECK_DEADLOCK FALSE
INVARIANT RefusedLeavesHost
