CONSTANTS
  MaxSaves = 2
  MaxLives = 2
  MaxEngines = 2
  Ports = {p}
  None = none
SPECIFICATION FairSpec
INVARIANTS TypeOK NoStraySidecar 
PROPERTY SwapsEnd
CHECK_DEADLOCK FALSE
