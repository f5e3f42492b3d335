CONSTANTS
  t1 = t1
  t2 = t2
  Turns = {t1, t2}
  NoTurn = none
  Windows = {main, overlay}
  TurnOrder <- TwoTurns
  Seqs <- TwoChunks
  Lens <- ShortLens
  Prebuffer = 2
  MaxToggles = 1
SPECIFICATION PSpec
SYMMETRY SameWindows
INVARIANTS LatestReplyComplete
CHECK_DEADLOCK FALSE
