\* Runs end, so the system stops.
SPECIFICATION Spec
CONSTANTS
  r1 = r1
  r2 = r2
  profA = profA
  profB = profB
  scan = scan
  info = info
  list = list
  maps = maps
  Runs = {r1, r2}
  Settings = {profA, profB}
  Paths = {scan, info, list, maps}
  Kind <- MCKind
  Size <- MCSize
  NoSig = NoSig
  Mixed = Mixed
  MaxStarts = 2
SYMMETRY MCSymmetry
INVARIANTS TypeOK RightAnswer
PROPERTIES AnswerWhole CacheUsed
CHECK_DEADLOCK FALSE
