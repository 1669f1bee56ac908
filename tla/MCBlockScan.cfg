\* The scan is over when it is done.
SPECIFICATION ScanSpec
CONSTANTS
  Block = 4
  Overlap = 3
  Back = 1
  Ahead = 3
  TagLen = 2
  Addresses <- MCAddresses
  Layouts <- MCLayouts
  TagSets <- MCTagSets
  PrefixSets <- MCPrefixSets
  SkipSets <- MCSkipSets
  Starts <- MCStarts
  MaxLens <- MCMaxLens
INVARIANTS ScanTypeOK NoHitLost
PROPERTY ScanEnds
CHECK_DEADLOCK FALSE
