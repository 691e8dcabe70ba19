SPECIFICATION FairSpec
CONSTANTS
  Keys = {1}
  Stray = {}
  HZ = 2
  WIDTH = 8
  Durations = {1}
  MaxElapsed = 3
PROPERTIES SleepLongEnough SleepReturns KeyRead
