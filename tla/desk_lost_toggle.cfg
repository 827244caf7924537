SPECIFICATION DeskSpec
CONSTANTS
  Module_ = {m1, m2}
  Thread_ = {1, 2}
  MaxLaunch = 2
  Idents = {i1}
CHECK_DEADLOCK FALSE
PROPERTIES TogglesOneModule
