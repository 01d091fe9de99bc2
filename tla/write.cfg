SPECIFICATION FairSpec
CONSTANTS
  BLOCK = 3
  LBAs = {0, 4}
  TLens = {0, 1, 4}
  Straddle = FALSE
INVARIANTS TypeOK StatusMeansWritten SectorsWhole WriteInv
PROPERTIES WriteCompletes ImplementsStream
