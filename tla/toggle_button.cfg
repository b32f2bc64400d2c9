SPECIFICATION ManualFairSpec
CONSTANTS
  HWM = 1
  Timer1 = 1
  AgeCap = 2
  MaxLives = 1
  Garbage = Garbage
  NoData = NoData
PROPERTIES ButtonUsableAfterTimer1
