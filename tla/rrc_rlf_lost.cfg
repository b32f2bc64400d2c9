SPECIFICATION Spec
CONSTANTS
  u1 = u1
  u2 = u2
  Ues <- MCUes
  Timers <- MCTimers
  MaxKo = 1
  RlfTime = 2
  ActTime = 1
  WheelSize = 2
  TicMod = 4
  None = None
INVARIANTS RlfTimely
