SPECIFICATION FairSpec
CONSTANTS
  Buffers = {b1, b2}
  Null = Null
  NofSf = 2
  Room = 3
  Opps = {0, 2, 5, 7}
  MaxTti = 9
INVARIANTS TypeOK OwnedOnce PreambleIntact DueInOrder
PROPERTIES DueExamined StopReturns
\* phy::stop ends everything; and it hangs if it comes before line 189.
CHECK_DEADLOCK FALSE
