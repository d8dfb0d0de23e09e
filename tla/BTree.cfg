SPECIFICATION Spec
CONSTANTS
  KeyLen <- MCKeyLen
  Seeds <- MCSeeds
  InlineT = 1
  Vals = {1, 4, 7}
  PageCap = 6
  ExtRef = 1
  OvRef = 1
  CellHdr = 1
  MergePct = 50
  MaxOps = 2
CHECK_DEADLOCK FALSE
INVARIANTS WellFormed PagesAccounted
PROPERTY ImplementsMap FloorReached
