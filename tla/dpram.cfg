SPECIFICATION Spec
CONSTANTS
  SECTOR = 3
  SECTORS = 2
  Values = {0, 1}
  GAP = 4
  SETTLE = 7
INVARIANTS TypeOK Settled
