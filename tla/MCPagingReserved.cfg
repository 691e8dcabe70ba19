SPECIFICATION Spec
CONSTANTS
  ENTRIES = 8
  FRAME_SIZE = 8
  SIZEOF_FRAME = 1
  HEAP_PDE = 3
  KERNEL_PDE = 4
  RAM_BASE = 2
  RamLengths = {38}
  Increments <- MCIncrements
  IoRanges <- MCIoRanges
INVARIANT KernelFramesReserved
