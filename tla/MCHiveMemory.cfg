SPECIFICATION Spec
CONSTANTS
  Block = 3
  SizeField = 1
  Table = 2
  Volatile = 12
  Hives <- MCHives
  Bases <- MCBases
  Lengths = {1, 2, 5, 7}
  None = None
INVARIANTS TypeOK ReadExact SavedReadsSame StatsMatchSave
