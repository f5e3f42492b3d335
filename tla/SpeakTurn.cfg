CONSTANTS
  Turns = {t1}
  Tts = {v1, v2}
  Silent = silent
  Configs <- AllConfigs
  MaxChunks = 3
  MaxSwaps = 1
SPECIFICATION FairSpec
INVARIANTS AudioInOrder DispatcherCloses
PROPERTIES ImplementsProtocol ReplyIsShown TurnEnds
CHECK_DEADLOCK FALSE
