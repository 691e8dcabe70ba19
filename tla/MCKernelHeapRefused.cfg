SPECIFICATION HeapBehaviour
CONSTANTS
  SIZEOF_PAGE_INFOS = 1
  SIZEOF_MEM_INFOS = 2
  PAGESIZE = 13
  WIDTH = 1024
  HEAP_BASE = 312
  MaxPages = 8
  Sizes = {0, 1, 2, 4, 12}
  ENTRIES = 8
  SIZEOF_FRAME = 1
  HEAP_PDE = 3
  KERNEL_PDE = 4
  RAM_BASE = 2
  RamLength = 37
  MaxRefusals = 2
PROPERTY RefusedOnlyWhenFull
