SPECIFICATION FairSpec
CONSTANTS
  Window = 2
  Ring = 3
  PollPdu = 1
  First = 2
  Reach = 1
  MaxSdus = 4
  MaxFlight = 2
  MaxLost = 1
INVARIANTS TypeOK NothingForgotten
PROPERTIES ServiceSpec Repaired
