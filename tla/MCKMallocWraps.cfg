SPECIFICATION Spec
CONSTANTS
  SIZEOF_PAGE_INFOS = 1
  SIZEOF_MEM_INFOS = 2
  PAGESIZE = 8
  WIDTH = 64
  HEAP_BASE = 8
  MaxPages = 2
  Sizes = {0, 4, 20, 40, 60}
INVARIANT MemoryGiven
