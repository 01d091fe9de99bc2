SPECIFICATION Spec
CONSTANTS
  TB_MAXSEC = 4
  BLOCK = 3
  HEAD = 1
  AHEAD = 1
  TB_SEC_MAX = 6
  TB_RETRY_MAX = 1
  TB_STALL_RETRY_MAX = 1
  Lens = {0}
  Chunks = {1, 2}
  MaxCmds = 3
  LateStatus = FALSE
  MixedChunks = TRUE
CHECK_DEADLOCK FALSE
INVARIANTS FileMatches
