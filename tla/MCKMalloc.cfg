SPECIFICATION FairSpec
CONSTANTS
  SIZEOF_PAGE_INFOS = 1
  SIZEOF_MEM_INFOS = 2
  PAGESIZE = 6
  WIDTH = 1024
  HEAP_BASE = 104
  MaxPages = 2
  Sizes = {0, 1, 2, 4}
INVARIANTS TypeOK Tiling Coalesced Ownership WalkInv BestFit
PROPERTIES CallsReturn Implements
