SPECIFICATION FairSpec
CONSTANTS
  HWM = 2
  Timer1 = 1
  Timer2 = 2
  AgeCap = 3
  MaxLives = 2
  Garbage = Garbage
  NoData = NoData
INVARIANTS TypeOK AtMostOneLateSample NullOnlyAfterTimer2 WeightsInOrder
PROPERTIES BeamSpec NoCatchUp NullingEventually
