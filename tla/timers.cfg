SPECIFICATION Spec
CONSTANTS
  Timers = {t1, t2, t3}
  WheelSize = 2
  TicMod = 4
  MaxDur = 3
  None = None
SYMMETRY Symmetry
INVARIANTS TypeOK WheelOK
PROPERTIES NoneLeftBehind OnlyRunningCalled
