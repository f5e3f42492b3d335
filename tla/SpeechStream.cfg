CONSTANTS
  Deltas <- SomeDeltas
  MaxText = 4
  MaxWire = 6
  Answers <- AllAnswers
  Translations <- ShortTranslations
  Target = 6
  HardCap = 7
SPECIFICATION FairSpec
INVARIANTS TypeOK NothingLost DeltasInOrder CutsAsBulk
PROPERTIES TranslationEnds
CHECK_DEADLOCK FALSE
