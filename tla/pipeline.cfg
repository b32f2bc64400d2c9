SPECIFICATION FairSpec
CONSTANTS
  NofLte = 2
  NofNr = 2
  MaxTti = 2
  MaxRem = 1
INVARIANTS TypeOK HeldUntilSent NothingLeftOut DrainedAtStop RemovalExclusive
PROPERTIES SchedInOrder StreamSpec StreamFair StopReturns
