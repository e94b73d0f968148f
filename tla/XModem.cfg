\* A file of three blocks, with block numbers modulo 3, on a line that fails twice,
\* or once if an end times out before the other has answered.
CONSTANTS
  FileLen = 3
  Wrap = 3
  MaxRetries = 7
  MaxCrcRetries = 6
  MaxFaults = 2
  LateFaults = 1
  Patience = {{"sender"}, {"receiver"}, {"sender", "receiver"}}
SPECIFICATION XmFairSpec
CHECK_DEADLOCK FALSE
INVARIANTS
  XmTypeOK
  OutIsPrefix
  SuccessIsTrue
PROPERTIES
  BothReturn
  Recovers
