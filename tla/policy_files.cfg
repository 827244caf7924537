SPECIFICATION Spec
CONSTANTS
  c1 = c1
  c2 = c2
  d1 = d1
  r1 = r1
  m1 = m1
  m2 = m2
  Family = {c1, c2}
  Direct = {d1}
  Dhcp = Dhcp
  Resolver = {r1}
  Mac = {m1, m2}
  Sites = {"few", "many"}
  Ip = {1, 2, 3}
  NoIp = 0
  NoTable = NoTable
  Nobody = Nobody
  NoRevision = NoRevision
  Value = {0, 1}
  NoValue = 0
  Bindings <- MCBindings
  Budgets <- MCBudgets
CHECK_DEADLOCK FALSE
INVARIANTS TypeOK FilesAgree EachKeepsItsPart StillFiltered
PROPERTIES RestoredIsTrue AnsweredIsServed
