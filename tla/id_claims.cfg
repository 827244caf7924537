SPECIFICATION CastSpec
CONSTANTS
  Claimer = {c1, c2}
  Operator = {o1}
  Mac = {m1, m2}
  Limit = 2
  Broadcast = 9
  DefaultBoundary = 2
  Actions = {"remove", "readdress"}
  Name = {n1, n2}
  ZoneAddress = {2}
  Wanted <- Zone
  Legacy = {}
  Faults = TRUE
  Nobody = Nobody
CHECK_DEADLOCK FALSE
INVARIANTS ClaimsStandAlone RolledBackAlone AddressNamedOnce ServedAsWritten
SYMMETRY DeviceSymmetry
