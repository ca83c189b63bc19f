SPECIFICATION Spec
CONSTANTS
  Second = 5
  MaxLocal = 35
  StartFly = 2
  LatchFly = 3
  ToneLimit = 2
  MaxElapsed = 2
  METs = {13}
  ToneDelay = 2
  Delay = 3
  MaxDisturbances = 2
  MaxTicks = 45
CHECK_DEADLOCK FALSE
PROPERTIES GoesBackLittle
