SPECIFICATION Spec
CONSTANTS
  Images <- MCImages
  Page = 4
  BlockPages = 2
  HeaderSize = 2
  Align = 2
  Chunk = 4
  SearchLimit = 8
  FirstPages = 4
  FullTable = 2
  Limit = 3
  Addresses = {4, 9, 18, 31}
  Lengths = {0, 3, 7}
  None = None
INVARIANTS TypeOK LookupRight PlacesApart ReadRight
PROPERTY Ends
CHECK_DEADLOCK FALSE
