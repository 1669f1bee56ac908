SPECIFICATION Spec
CONSTANTS
  Memories <- MCMemories
  Inner = 2
  Leaf = 2
INVARIANTS TypeOK AllListed TreeDrawnOnce RootHasChildren
PROPERTY Ends
CHECK_DEADLOCK FALSE
