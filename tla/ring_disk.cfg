SPECIFICATION FairSpec
CONSTANTS
  CDROM = FALSE
  RING_BLOCKS = 2
  BLOCK = 5
  LBA_SPACE = 16
  BLK_SPACE = 64
  TLenMax = 8
  LBAs = {0, 5}
  TLens = {0, 1, 4}
  MediaLoss = FALSE
  MediaReturn = FALSE
  LateAnswers = FALSE
INVARIANTS TypeOK ServedValid LbaTracksRing RingInv
PROPERTIES UnreadKept ReadCompletes ImplementsStream
