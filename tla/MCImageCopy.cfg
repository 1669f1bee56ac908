\* The conversion ends.
SPECIFICATION Spec
CONSTANTS
  Sources <- MCSources
  BlockSizes = {1, 2, 3}
  Page = 2
  HeaderPages = 1
  LimeHeader = 1
  OutSize = 14
  None = None
INVARIANTS TypeOK CopyFaithful SegmentsCopied DumpFaithful
PROPERTY CopyEnds
CHECK_DEADLOCK FALSE
