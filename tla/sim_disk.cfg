SPECIFICATION FairSpec
CONSTANTS
  VDNUM = 3
  BLKSZ = 2
  MOUNT_DELAY = 12
  LATENCY = 2
  Images = {0, 1, 2}
  LBAs = {0, 1}
  INT_SPACE = 8
  CD = 2
  TOC_DELAY = 2
INVARIANTS TypeOK
PROPERTIES Answered MountsReported ImplementsChannel
