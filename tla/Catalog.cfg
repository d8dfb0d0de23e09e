SPECIFICATION Spec
CONSTANTS
  Extract <- MCExtract
  VSize <- MCVSize
  Rebuilds <- MCRebuilds
  RowArgs <- MCRowArgs
  Ranges <- MCRanges
  Seeds <- MCSeeds
  v1 = v1
  v2 = v2
  v3 = v3
  Plain = Plain
  NoTx = NoTx
  NoCursor = NoCursor
  SubBudget = 2
  SegCap = 2
  Slots = {1}
VIEW Observed
CHECK_DEADLOCK FALSE
INVARIANTS LookupExact Accounted ReserveCovers CursorsTrack
PROPERTIES NotifyCovers ImplementsStore
