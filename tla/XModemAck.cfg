\* One message is lost on a line where the answers come in time.
CONSTANTS
  FileLen = 3
  Wrap = 3
  MaxRetries = 7
  MaxCrcRetries = 6
  MaxFaults = 1
  LateFaults = 1
  Patience = {{"sender", "receiver"}}
SPECIFICATION XmSpec
CHECK_DEADLOCK FALSE
INVARIANTS
  SurvivesLostAck
