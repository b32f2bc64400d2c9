SPECIFICATION FairSpec
CONSTANTS
  Lines <- MCLines
  MaxLines = 3
PROPERTIES TraceCanBeStopped
