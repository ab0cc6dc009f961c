\* Names are never lost or shared, and a stall ends
SPECIFICATION Spec
CONSTANTS
  NPOOL = 1
  PSIZE = 4
  DELAY = 2
  NFTAGS = 2
  MAPPED = 2
INVARIANTS TypeOK NamesPartition
PROPERTIES StallEnds IsNamePool
