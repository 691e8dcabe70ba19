SPECIFICATION Spec
CONSTANTS
  Keys = {1, 2}
  Stray = {6, 9}
  HZ = 2
  WIDTH = 2
  Durations = {0}
  MaxElapsed = 1
INVARIANTS TypeOK EoiMatches StopsOnlyForStray NoLostInterrupt KeysEchoed
