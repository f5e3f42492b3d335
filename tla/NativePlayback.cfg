CONSTANTS
  t1 = t1
  t2 = t2
  Turns = {t1, t2}
  NoTurn = none
  Windows = {main}
  TurnOrder <- TwoTurns
  Seqs <- ThreeChunks
  Lens <- ShortLens
  Prebuffer = 2
  MaxToggles = 1
SPECIFICATION PFairSpec
INVARIANTS PTypeOK HeldRightly LatestReplyInOrder
PROPERTY LatestReplySounds
CHECK_DEADLOCK FALSE
