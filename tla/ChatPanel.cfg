CONSTANTS
  Turns <- TwoTurns
  Texts = {a, b}
  Failed = failed
  Null = null
  MaxLost = 2
SPECIFICATION Spec
INVARIANTS TypeOK TurnsInOrder ShowsBestText DebugOnItsBubble
CONSTRAINT NotCrossed
CHECK_DEADLOCK FALSE
