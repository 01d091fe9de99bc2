SPECIFICATION FairSpec
CONSTANTS
  SIZE = 2
  Values = {0, 1}
  WD_MAX = 3
  RDY_MAX = 0
  TRIES = 1
  RST_HOLD = 1
  MaxEvents = 3
  WritesDuringSave = FALSE
  LateAnswers = FALSE
INVARIANTS TypeOK WorkingCopy CleanIsSaved
PROPERTIES SaveWritesPram FlushServed ClearResets
