CONSTANTS
  Viewers = {main}
  Capacity = 2
  MaxEvents = 6
  MaxConnections = 2
SPECIFICATION FanoutFairSpec
INVARIANTS InOrderAndAccounted NewestSurviveLag
PROPERTY ViewerCatchesUp
CHECK_DEADLOCK FALSE
