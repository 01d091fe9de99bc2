SPECIFICATION Spec
CONSTANTS
  JW_BATCH = 4
  SECTOR = 2
  max_bytes = 8
  sizes <- MCSizes
  BITS = 2
  WORD = 2
  U32 = 32
  IOBUF_BASE = 8
  MemTops = {4, 8, 10, 12}
  LineLens = {3, 4}
INVARIANTS TypeOK Persisted VerifiedHolds BufferInRam LinesSurvive WriterInv
