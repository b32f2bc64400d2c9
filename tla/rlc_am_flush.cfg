SPECIFICATION FairSpec
CONSTANTS
  Window = 3
  Ring = 4
  PollPdu = 1
  First = 5
  Reach = 2
  MaxSdus = 3
  MaxFlight = 2
  MaxLost = 1
PROPERTIES RequestedAgain
