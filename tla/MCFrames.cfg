SPECIFICATION FairSpec
CONSTANTS
  FramesCount = 5
  Reserved = 1
  Requests = {0, 1, 2, 3}
  MaxRef = 2
INVARIANTS TypeOK Accounting LoopInv
PROPERTIES NeverGrantsUsedFrame CallsReturn Implements
