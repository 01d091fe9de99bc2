SPECIFICATION FairSpec
CONSTANTS
  CDROM = TRUE
  RING_BLOCKS = 2
  BLOCK = 4
  LBA_SPACE = 1
  BLK_SPACE = 64
  TLenMax = 8
  LBAs = {0}
  TLens = {3}
  MediaLoss = TRUE
  MediaReturn = FALSE
  LateAnswers = FALSE
PROPERTIES ReadCompletes
