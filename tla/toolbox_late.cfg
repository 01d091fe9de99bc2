SPECIFICATION Spec
CONSTANTS
  TB_MAXSEC = 4
  BLOCK = 3
  HEAD = 1
  AHEAD = 1
  TB_SEC_MAX = 5
  TB_RETRY_MAX = 1
  TB_STALL_RETRY_MAX = 1
  Lens = {0, 1, 13, 16}
  Chunks = {0, 4}
  MaxCmds = 3
  LateStatus = TRUE
  MixedChunks = FALSE
CHECK_DEADLOCK FALSE
INVARIANTS FileMatches
