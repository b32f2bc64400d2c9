SPECIFICATION FairSpec
CONSTANTS
  Lines <- MCLines
  MaxLines = 3
INVARIANTS TypeOK NobodyLeftWaiting
PROPERTIES ExitsUnlessHeldUp ShutdownEnds
