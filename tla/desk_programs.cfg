SPECIFICATION ProgramSpec
CONSTANTS
  Module_ = {m1, m2}
  Module = {m1, m2}
  Source = {s1, s2}
  Thread_ = {1, 2}
  MaxLaunch = 2
  Idents = {i1}
  b1 = b1
  b2 = b2
  b3 = b3
  Book = {b1, b2, b3}
  Pdf = {b1}
  Readable = {b1, b2, b3}
  NameOf <- MCNameOf
  Found <- MCFound
  MaxPush = 2
  MaxCommand = 3
CHECK_DEADLOCK FALSE
INVARIANTS SwitchTellsConfig PdfsSurvive ExportIsOneMoment SplicedAsAsked
PROPERTIES ControlsComeBack RestoredTogether
