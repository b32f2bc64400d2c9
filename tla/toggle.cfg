SPECIFICATION ManualFairSpec
CONSTANTS
  HWM = 1
  Timer1 = 1
  AgeCap = 2
  MaxLives = 2
  Garbage = Garbage
  NoData = NoData
INVARIANTS ManualTypeOK OneEstimatePerServer
PROPERTIES ButtonObeyedWhileAlive
