---------------------------- MODULE IoTestProofs ----------------------------
(***************************************************************************)
(* Proofs that the results file keeps what it promised, for every size of  *)
(* batch, sector and file, and that the disk bench that fills it stays in  *)
(* RAM and reports as verified only what is on the disk, for every table   *)
(* of sizes and every memory.                                              *)
(***************************************************************************)
EXTENDS IoTest, TLAPS

-----------------------------------------------------------------------------
(* The results writer *)

\* A multiple below another one is at least one unit below it.
LEMMA MultipleStep ==
  ASSUME NEW a \in Nat, NEW b \in Nat, NEW d \in Nat, d >= 1, a < b,
         Multiple(a, d), Multiple(b, d)
  PROVE  a + d <= b /\ Multiple(a + d, d)
<1>1. PICK m \in 0 .. a : a = m * d  BY DEF Multiple
<1>2. PICK n \in 0 .. b : b = n * d  BY DEF Multiple
<1>3. m < n
  <2>1. SUFFICES ASSUME m >= n PROVE FALSE  BY <1>1, <1>2
  <2>2. (m - n) \in Nat  BY <2>1, <1>1, <1>2
  <2>3. (m - n) * d >= 0  BY <2>2
  <2>4. (m - n) * d = m * d - n * d  BY <1>1, <1>2
  <2> QED  BY <2>3, <2>4, <1>1, <1>2
<1>4. (n - m - 1) * d >= 0
  <2>1. (n - m - 1) \in Nat  BY <1>3
  <2> QED  BY <2>1
<1>5. (n - m - 1) * d = n * d - m * d - d  BY <1>1, <1>2
<1>6. (m + 1) * d = m * d + d  BY <1>1
<1>7. m + 1 \in 0 .. a + d  BY <1>1
<1>8. a + d <= b  BY <1>1, <1>2, <1>4, <1>5
<1>9. a + d = (m + 1) * d  BY <1>1, <1>6
<1> QED  BY <1>7, <1>8, <1>9 DEF Multiple

LEMMA FileMultiples == Multiple(JW_BATCH, SECTOR) /\ Multiple(max_bytes, JW_BATCH)
BY WriterAssumption DEF Multiple

LEMMA ZeroMultiple == ASSUME NEW d \in Nat PROVE Multiple(0, d)
BY DEF Multiple

LEMMA WriterInitial == jw_init => WriterInv
<1> SUFFICES ASSUME jw_init PROVE WriterInv  OBVIOUS
<1> USE WriterAssumption DEF jw_init, Batch, Positions, Pad, Old
<1>1. WriterTypeOK
  <2>1. sector \in [Batch -> Nat]  OBVIOUS
  <2>2. disk \in [Positions -> Nat \cup {Old}]  OBVIOUS
  <2>3. used \in 0 .. JW_BATCH /\ moved \in 0 .. JW_BATCH  OBVIOUS
  <2> QED  BY <2>1, <2>2, <2>3 DEF WriterTypeOK
<1>2. InFile  BY ZeroMultiple DEF InFile
<1>3. BatchIsText  BY DEF BatchIsText
<1>4. MovedIsBatch /\ NotAhead /\ BatchesKept
  BY DEF MovedIsBatch, NotAhead, BatchesKept
<1>5. Persisted /\ CommitKeeps /\ FileIsText /\ NoHoles
  BY DEF Persisted, CommitKeeps, FileIsText, NoHoles
<1> QED  BY <1>1, <1>2, <1>3, <1>4, <1>5 DEF WriterInv

LEMMA PutcKeeps == WriterInv /\ jw_putc => WriterInv'
<1> SUFFICES ASSUME WriterInv, jw_putc PROVE WriterInv'  OBVIOUS
<1> USE WriterAssumption DEF jw_putc, Ready, Full, Batch, Positions, Pad, Old
<1>0. WriterTypeOK /\ InFile /\ BatchIsText  BY DEF WriterInv
<1>a. used < JW_BATCH /\ moved = 0 /\ text = written + used
  BY <1>0 DEF BatchIsText, WriterTypeOK
<1>1. WriterTypeOK'  BY <1>0, <1>a DEF WriterTypeOK
<1>2. InFile'  BY <1>0, <1>a DEF InFile, WriterTypeOK
<1>3. BatchIsText'
  <2>1. ASSUME NEW o \in Batch, o < used'
        PROVE  sector'[o] = written' + o + 1
    <3>1. CASE o = used  BY <3>1, <1>0, <1>a DEF WriterTypeOK
    <3>2. CASE o # used
      <4>1. o < used  BY <2>1, <3>2, <1>0 DEF WriterTypeOK
      <4>2. sector'[o] = sector[o]  BY <3>2, <1>0 DEF WriterTypeOK
      <4> QED  BY <4>1, <4>2, <1>0 DEF BatchIsText
    <3> QED  BY <3>1, <3>2
  <2>2. writing' # "no" => \A o \in Batch : o >= used' => sector'[o] = Pad
    BY <1>0, <1>a DEF WriterTypeOK
  <2>3. text' = written' + used'  BY <1>0, <1>a DEF WriterTypeOK
  <2>4. /\ writing' # "advance" => used' < JW_BATCH
        /\ writing' = "no" => moved' = 0
        /\ writing' # "no" => used' > 0
        /\ writing' = "advance" => used' = JW_BATCH
    BY <1>0, <1>a DEF WriterTypeOK
  <2> QED  BY <2>1, <2>2, <2>3, <2>4 DEF BatchIsText
<1>4. MovedIsBatch'  BY <1>0, <1>a DEF MovedIsBatch, WriterTypeOK
<1>5. NotAhead'  BY <1>0, <1>a DEF NotAhead, WriterInv, WriterTypeOK
<1>6. BatchesKept'
  <2> SUFFICES ASSUME last_err = 0, NEW p \in Positions, p < written
               PROVE  disk[p] = p + 1
    BY DEF BatchesKept
  <2>1. p < text  BY <1>0, <1>a DEF WriterTypeOK
  <2> QED  BY <2>1 DEF WriterInv, BatchesKept
<1>7. Persisted' /\ CommitKeeps' /\ FileIsText' /\ NoHoles'
  BY DEF WriterInv, Persisted, CommitKeeps, FileIsText, NoHoles
<1> QED  BY <1>1, <1>2, <1>3, <1>4, <1>5, <1>6, <1>7 DEF WriterInv

\* The padding changes only what lies behind the text.
LEMMA StartWriteKeeps ==
  ASSUME WriterInv, Ready, used # 0, NEW after \in {"advance", "stay"},
         WriteCurrentBatch(after), flushed' \in BOOLEAN,
         after = "advance" => flushed'
  PROVE  WriterInv'
<1> USE WriterAssumption
        DEF WriteCurrentBatch, Ready, Batch, Positions, Pad, Old
<1>0. WriterTypeOK /\ InFile /\ BatchIsText  BY DEF WriterInv
<1>a. used < JW_BATCH /\ used > 0 /\ moved = 0 /\ text = written + used
  BY <1>0 DEF BatchIsText, WriterTypeOK
<1>1. WriterTypeOK'  BY <1>0, <1>a DEF WriterTypeOK
<1>2. InFile'  BY <1>0 DEF InFile
<1>3. BatchIsText'
  <2>1. \A o \in Batch : o < used' => sector'[o] = written' + o + 1
    BY <1>0, <1>a DEF BatchIsText, WriterTypeOK
  <2>2. \A o \in Batch : o >= used' => sector'[o] = Pad
    BY <1>0, <1>a DEF WriterTypeOK
  <2> QED  BY <2>1, <2>2, <1>a DEF BatchIsText
<1>4. MovedIsBatch'  BY <1>0, <1>a DEF MovedIsBatch, WriterTypeOK
<1>5. NotAhead' /\ BatchesKept'  BY DEF NotAhead, BatchesKept, WriterInv
<1>6. Persisted' /\ CommitKeeps' /\ FileIsText' /\ NoHoles'
  BY DEF WriterInv, Persisted, CommitKeeps, FileIsText, NoHoles
<1> QED  BY <1>1, <1>2, <1>3, <1>4, <1>5, <1>6 DEF WriterInv

LEMMA CommitLineKeeps == WriterInv /\ jw_commit_line => WriterInv'
<1> SUFFICES ASSUME WriterInv, jw_commit_line PROVE WriterInv'  OBVIOUS
<1>0. Ready /\ UNCHANGED flushed  BY DEF jw_commit_line
<1>1. CASE used # 0 /\ WriteCurrentBatch("stay")
  <2>1. flushed' \in BOOLEAN  BY <1>0 DEF WriterInv, WriterTypeOK
  <2> QED  BY <1>0, <1>1, <2>1, StartWriteKeeps
<1>2. CASE /\ used = 0 /\ done' = text
           /\ UNCHANGED <<batchVars, disk, text, kept>>
  <2> USE <1>0, <1>2, WriterAssumption DEF batchVars, Ready, Batch, Positions
  <2>0. WriterTypeOK /\ InFile /\ BatchIsText  BY DEF WriterInv
  <2>1. text = written  BY <2>0 DEF BatchIsText, WriterTypeOK
  <2>2. WriterTypeOK' /\ InFile' /\ BatchIsText'
    BY <2>0 DEF WriterTypeOK, InFile, BatchIsText
  <2>3. MovedIsBatch' /\ NotAhead' /\ BatchesKept'
    BY <2>0 DEF WriterInv, WriterTypeOK, MovedIsBatch, NotAhead, BatchesKept
  <2>4. CommitKeeps'
    <3>1. \A p \in 0 .. text - 1 : p \in Positions /\ p < written /\ p < text
      BY <2>0, <2>1 DEF WriterTypeOK, InFile
    <3> QED  BY <3>1 DEF WriterInv, BatchesKept, CommitKeeps
  <2>5. Persisted' /\ FileIsText' /\ NoHoles'
    BY DEF WriterInv, Persisted, FileIsText, NoHoles
  <2> QED  BY <2>2, <2>3, <2>4, <2>5 DEF WriterInv
<1> QED  BY <1>1, <1>2 DEF jw_commit_line

LEMMA FlushKeeps == WriterInv /\ jw_flush => WriterInv'
<1> SUFFICES ASSUME WriterInv, jw_flush PROVE WriterInv'  OBVIOUS
<1>0. Ready /\ flushed' = TRUE  BY DEF jw_flush
<1>1. CASE used > 0 /\ WriteCurrentBatch("advance")
  <2>1. used # 0  BY <1>1 DEF WriterInv, WriterTypeOK
  <2> QED  BY <1>0, <1>1, <2>1, StartWriteKeeps
<1>2. CASE used = 0 /\ UNCHANGED <<batchVars, disk, text, done, kept>>
  <2> USE <1>0, <1>2, WriterAssumption DEF batchVars, Ready, Batch, Positions
  <2>0. WriterTypeOK /\ InFile /\ BatchIsText  BY DEF WriterInv
  <2>1. WriterTypeOK' /\ InFile'  BY <2>0 DEF WriterTypeOK, InFile
  <2>2. BatchIsText'  BY <2>0 DEF BatchIsText, WriterTypeOK
  <2>3. MovedIsBatch' /\ NotAhead' /\ BatchesKept'
    BY DEF WriterInv, MovedIsBatch, NotAhead, BatchesKept
  <2>4. Persisted' /\ CommitKeeps' /\ FileIsText' /\ NoHoles'
    BY DEF WriterInv, Persisted, CommitKeeps, FileIsText, NoHoles
  <2> QED  BY <2>1, <2>2, <2>3, <2>4 DEF WriterInv
<1> QED  BY <1>1, <1>2 DEF jw_flush

\* The sector being written holds text and then padding, at its own place.
LEMMA WindowIsText ==
  ASSUME WriterInv, WriteSector
  PROVE  /\ moved + SECTOR <= JW_BATCH /\ Multiple(moved + SECTOR, SECTOR)
         /\ written + JW_BATCH <= max_bytes
         /\ text = written + used
         /\ \A p \in Positions :
              IF p - written \in moved .. moved + SECTOR - 1
              THEN /\ p - written \in Batch /\ disk'[p] = sector[p - written]
                   /\ disk'[p] = IF p < text THEN p + 1 ELSE Pad
              ELSE disk'[p] = disk[p]
<1> USE WriterAssumption
<1>0. WriterTypeOK /\ InFile /\ BatchIsText  BY DEF WriterInv
<1>1. writing # "no" /\ moved < JW_BATCH  BY DEF WriteSector
<1>2. moved \in Nat /\ Multiple(moved, SECTOR)
  BY <1>0 DEF WriterTypeOK, InFile
<1>3. moved + SECTOR <= JW_BATCH /\ Multiple(moved + SECTOR, SECTOR)
  BY <1>1, <1>2, FileMultiples, MultipleStep
<1>4. /\ written \in Nat /\ written < max_bytes
      /\ Multiple(written, JW_BATCH)
  BY <1>0, <1>1 DEF WriterTypeOK, InFile, BatchIsText
<1>5. written + JW_BATCH <= max_bytes
  BY <1>4, FileMultiples, MultipleStep
<1>6. text = written + used  BY <1>0, <1>1 DEF BatchIsText
<1>7. ASSUME NEW p \in Positions, p - written \in moved .. moved + SECTOR - 1
      PROVE  /\ p - written \in Batch /\ disk'[p] = sector[p - written]
             /\ disk'[p] = IF p < text THEN p + 1 ELSE Pad
  <2>1. p \in Int /\ p - written \in Batch
    BY <1>2, <1>3, <1>4, <1>7 DEF Positions, Batch
  <2>2. disk'[p] = sector[p - written]  BY <1>7 DEF WriteSector
  <2>3. CASE p - written < used
    <3>1. sector[p - written] = written + (p - written) + 1
      BY <2>1, <2>3, <1>0 DEF BatchIsText
    <3>2. p < text /\ written + (p - written) + 1 = p + 1
      BY <2>1, <2>3, <1>4, <1>6, <1>0 DEF WriterTypeOK
    <3> QED  BY <2>1, <2>2, <3>1, <3>2
  <2>4. CASE ~(p - written < used)
    <3>1. p - written >= used /\ ~(p < text)
      BY <2>1, <2>4, <1>4, <1>6, <1>0 DEF WriterTypeOK
    <3>2. sector[p - written] = Pad
      BY <2>1, <3>1, <1>0, <1>1 DEF BatchIsText
    <3> QED  BY <2>1, <2>2, <3>1, <3>2
  <2> QED  BY <2>3, <2>4
<1>8. ASSUME NEW p \in Positions, p - written \notin moved .. moved + SECTOR - 1
      PROVE  disk'[p] = disk[p]
  BY <1>8 DEF WriteSector
<1> QED  BY <1>3, <1>5, <1>6, <1>7, <1>8

LEMMA WriteSectorKeeps == WriterInv /\ WriteSector => WriterInv'
<1> SUFFICES ASSUME WriterInv, WriteSector PROVE WriterInv'  OBVIOUS
<1> USE WriterAssumption
<1> DEFINE win(p) == p - written \in moved .. moved + SECTOR - 1
<1>0. WriterTypeOK /\ InFile /\ BatchIsText  BY DEF WriterInv
<1>1. /\ moved + SECTOR <= JW_BATCH /\ Multiple(moved + SECTOR, SECTOR)
      /\ written + JW_BATCH <= max_bytes /\ text = written + used
  BY WindowIsText
<1>2. \A p \in Positions : win(p) =>
        /\ p - written \in Batch /\ disk'[p] = sector[p - written]
        /\ disk'[p] = IF p < text THEN p + 1 ELSE Pad
  BY WindowIsText
<1>3. \A p \in Positions : ~win(p) => disk'[p] = disk[p]
  BY WindowIsText
<1>4. /\ moved' = moved + SECTOR
      /\ UNCHANGED <<written, used, sector, last_err, writing, text, done,
                     kept, flushed>>
      /\ writing # "no"
  BY DEF WriteSector
<1>t. /\ written \in Nat /\ used \in Nat /\ moved \in Nat /\ text \in Nat
      /\ done \in Nat /\ kept \subseteq Positions
      /\ \A p \in Positions : p \in Nat
  BY <1>0 DEF WriterTypeOK, Positions
<1>5. WriterTypeOK'
  <2>1. moved' \in 0 .. JW_BATCH  BY <1>1, <1>4, <1>t
  <2>2. ASSUME NEW p \in Positions PROVE disk'[p] \in Nat \cup {Old}
    <3>1. CASE win(p)
      BY <3>1, <1>2, <1>0 DEF WriterTypeOK
    <3>2. CASE ~win(p)  BY <3>2, <1>3, <1>0 DEF WriterTypeOK
    <3> QED  BY <3>1, <3>2
  <2>3. disk' \in [Positions -> Nat \cup {Old}]  BY <2>2 DEF WriteSector
  <2> QED  BY <1>0, <1>4, <2>1, <2>3 DEF WriterTypeOK
<1>6. InFile'  BY <1>0, <1>1, <1>4 DEF InFile
<1>7. BatchIsText'  BY <1>0, <1>4 DEF BatchIsText
<1>8. MovedIsBatch'
  <2> SUFFICES ASSUME NEW o \in Batch, o < moved + SECTOR
               PROVE  disk'[written + o] = sector[o]
    BY <1>4 DEF MovedIsBatch
  <2>1. /\ o \in Nat /\ written + o \in Positions
        /\ (written + o) - written = o
    BY <1>1, <1>t DEF Batch, Positions
  <2>2. CASE o < moved
    <3>1. ~win(written + o)  BY <2>1, <2>2, <1>t
    <3>2. disk[written + o] = sector[o]
      BY <2>2 DEF WriterInv, MovedIsBatch
    <3> QED  BY <2>1, <3>1, <3>2, <1>3
  <2>3. CASE ~(o < moved)
    <3>1. win(written + o)  BY <2>1, <2>3, <1>t
    <3> QED  BY <2>1, <3>1, <1>2
  <2> QED  BY <2>2, <2>3
<1>9. NotAhead'
  <2>1. ASSUME NEW p \in Positions, disk'[p] = p + 1 PROVE p < text
    <3>1. CASE win(p)
      <4>1. p + 1 # Pad  BY <1>t DEF Pad
      <4> QED  BY <2>1, <3>1, <4>1, <1>2
    <3>2. CASE ~win(p)  BY <2>1, <3>2, <1>3 DEF WriterInv, NotAhead
    <3> QED  BY <3>1, <3>2
  <2> QED  BY <2>1, <1>4 DEF NotAhead, WriterInv
\* A position that held its character still does.
<1>10. ASSUME NEW p \in Positions, disk[p] = p + 1 PROVE disk'[p] = p + 1
  <2>1. p < text  BY <1>10 DEF WriterInv, NotAhead
  <2>2. CASE win(p)  BY <2>1, <2>2, <1>2
  <2>3. CASE ~win(p)  BY <2>3, <1>3, <1>10
  <2> QED  BY <2>2, <2>3
<1>11. BatchesKept'
  BY <1>4, <1>10 DEF WriterInv, BatchesKept
<1>12. Persisted'
  BY <1>4, <1>10, <1>t DEF WriterInv, Persisted
<1>13. CommitKeeps'
  <2>1. \A p \in 0 .. done - 1 : p \in Positions
    <3>1. done <= text  BY DEF WriterInv, NotAhead
    <3>2. used <= JW_BATCH  BY <1>0 DEF WriterTypeOK
    <3> QED  BY <3>1, <3>2, <1>1, <1>t DEF Positions
  <2> QED  BY <2>1, <1>4, <1>10 DEF WriterInv, CommitKeeps
<1>14. FileIsText'
  <2> SUFFICES ASSUME NEW p \in Positions
               PROVE  disk'[p] \in IF p < max_bytes THEN {Old, Pad, p + 1}
                                   ELSE {Old}
    BY DEF FileIsText
  <2>1. CASE win(p)
    <3>1. p < max_bytes  BY <2>1, <1>1, <1>2, <1>t DEF Batch
    <3> QED  BY <2>1, <3>1, <1>2
  <2>2. CASE ~win(p)  BY <2>2, <1>3 DEF WriterInv, FileIsText
  <2> QED  BY <2>1, <2>2
<1>15. NoHoles'
  <2> SUFFICES ASSUME last_err = 0, NEW p \in Positions, disk'[p] = p + 1,
                      NEW o \in 0 .. p
               PROVE  disk'[o] = o + 1
    BY <1>4 DEF NoHoles
  <2>1. o \in Positions /\ o \in Nat /\ o <= p  BY <1>t DEF Positions
  <2>2. p < text  BY <1>4, <1>9 DEF NotAhead
  <2>3. o < text  BY <2>1, <2>2, <1>t
  <2>4. CASE o < written
    <3>1. disk[o] = o + 1  BY <2>1, <2>3, <2>4 DEF WriterInv, BatchesKept
    <3> QED  BY <2>1, <3>1, <1>10
  <2>5. CASE win(o)  BY <2>1, <2>3, <2>5, <1>2
  <2>6. CASE o >= written /\ o - written < moved
    <3>1. o - written \in Batch /\ written + (o - written) = o
      BY <2>1, <2>6, <1>1, <1>t DEF Batch
    <3>2. disk[o] = sector[o - written]
      BY <3>1, <2>6 DEF WriterInv, MovedIsBatch
    <3>3. o - written < used  BY <2>1, <2>3, <1>1, <1>t
    <3>4. sector[o - written] = written + (o - written) + 1
      BY <3>1, <3>3, <1>0 DEF BatchIsText
    <3>5. disk[o] = o + 1  BY <3>1, <3>2, <3>4
    <3> QED  BY <2>1, <3>5, <1>10
  <2>7. CASE o >= written /\ o - written >= moved + SECTOR
    <3>1. ~win(p)  BY <2>1, <2>7, <1>t
    <3>2. disk[p] = p + 1  BY <3>1, <1>3
    <3>3. disk[o] = o + 1  BY <3>2 DEF WriterInv, NoHoles
    <3> QED  BY <2>1, <3>3, <1>10
  <2> QED  BY <2>1, <2>4, <2>5, <2>6, <2>7, <1>t
<1> QED  BY <1>5, <1>6, <1>7, <1>8, <1>9, <1>11, <1>12, <1>13, <1>14, <1>15
         DEF WriterInv

\* The end of a _Write, whatever it returned: promises are only added for
\* characters that are on the disk.
LEMMA AfterWriteKeeps ==
  ASSUME WriterInv, writing # "no", AfterWrite, last_err' \in {0, 1},
         kept' \subseteq Positions,
         \A p \in kept' : p < written + used /\ disk[p] = p + 1,
         last_err' = 0 => /\ last_err = 0
                          /\ \A p \in Positions : p < written + used
                                                    => disk[p] = p + 1
  PROVE  WriterInv'
<1> USE WriterAssumption
<1>0. WriterTypeOK /\ InFile /\ BatchIsText  BY DEF WriterInv
<1>1. /\ moved' = 0 /\ writing' = "no"
      /\ UNCHANGED <<sector, disk, text, flushed>>
      /\ done' = done \/ done' = text
  BY DEF AfterWrite
<1>2. /\ written \in Nat /\ used \in Nat /\ used > 0 /\ used <= JW_BATCH
      /\ text = written + used /\ done \in Nat /\ done <= text
      /\ \A p \in Positions : p \in Nat
  BY <1>0 DEF WriterInv, WriterTypeOK, BatchIsText, NotAhead, Positions
<1>3. written + JW_BATCH <= max_bytes /\ Multiple(written + JW_BATCH, JW_BATCH)
  <2>1. written < max_bytes /\ Multiple(written, JW_BATCH)
    BY <1>0, <1>2 DEF InFile
  <2> QED  BY <2>1, <1>2, FileMultiples, MultipleStep
<1>4. \/ writing = "advance" /\ written' = written + JW_BATCH /\ used' = 0
      \/ writing = "stay" /\ written' = written /\ used' = used
  BY <1>0 DEF AfterWrite, WriterTypeOK
<1>5. WriterTypeOK'
  <2>1. written' \in Nat /\ used' \in 0 .. JW_BATCH  BY <1>2, <1>4
  <2>2. done' \in Nat  BY <1>1, <1>2
  <2> QED  BY <1>0, <1>1, <2>1, <2>2 DEF WriterTypeOK
<1>6. InFile'
  <2>1. Multiple(0, SECTOR)  BY ZeroMultiple
  <2>2. CASE writing = "advance" /\ written' = written + JW_BATCH /\ used' = 0
    BY <2>1, <2>2, <1>1, <1>3 DEF InFile
  <2>3. CASE writing = "stay" /\ written' = written /\ used' = used
    BY <2>1, <2>3, <1>0, <1>1 DEF InFile
  <2> QED  BY <1>4, <2>2, <2>3
<1>7. BatchIsText'
  <2>1. CASE writing = "advance" /\ written' = written + JW_BATCH /\ used' = 0
    <3>1. used = JW_BATCH \/ flushed  BY <2>1, <1>0 DEF BatchIsText
    <3>2. text' = written' + used' \/ (flushed' /\ text' <= written')
      BY <3>1, <2>1, <1>1, <1>2
    <3>3. \A o \in Batch : ~(o < used')  BY <2>1 DEF Batch
    <3> QED  BY <3>2, <3>3, <2>1, <1>1 DEF BatchIsText
  <2>2. CASE writing = "stay" /\ written' = written /\ used' = used
    <3>1. used < JW_BATCH  BY <2>2, <1>0, <1>2 DEF WriterInv, BatchIsText
    <3> QED  BY <3>1, <2>2, <1>0, <1>1, <1>2 DEF BatchIsText
  <2> QED  BY <1>4, <2>1, <2>2
<1>8. MovedIsBatch'  BY <1>1 DEF MovedIsBatch, Batch
<1>9. written + used <= written' + used'  BY <1>2, <1>4
<1>10. NotAhead'
  <2>1. done' <= text'  BY <1>1, <1>2
  <2>2. \A p \in kept' : p < written' + used'
    <3> SUFFICES ASSUME NEW p \in kept' PROVE p < written' + used'  OBVIOUS
    <3>1. p < written + used /\ p \in Nat  BY <1>2
    <3>2. written' + used' \in Nat  BY <1>2, <1>4
    <3> QED  BY <3>1, <3>2, <1>2, <1>9
  <2> QED  BY <2>1, <2>2, <1>1 DEF NotAhead, WriterInv
<1>11. BatchesKept'  BY <1>1, <1>2 DEF BatchesKept
<1>12. Persisted'  BY <1>1 DEF Persisted
<1>13. CommitKeeps'
  <2> SUFFICES ASSUME last_err' = 0, NEW p \in 0 .. done' - 1
               PROVE  disk[p] = p + 1
    BY <1>1 DEF CommitKeeps
  <2>1. done' <= text  BY <1>1, <1>2
  <2>2. p \in Positions /\ p < written + used
    BY <2>1, <1>1, <1>2, <1>3 DEF Positions
  <2> QED  BY <2>2
<1>14. FileIsText' /\ NoHoles'
  BY <1>1 DEF WriterInv, FileIsText, NoHoles
<1> QED  BY <1>5, <1>6, <1>7, <1>8, <1>10, <1>11, <1>12, <1>13, <1>14
         DEF WriterInv

LEMMA WriteOkKeeps == WriterInv /\ WriteOk => WriterInv'
<1> SUFFICES ASSUME WriterInv, WriteOk PROVE WriterInv'  OBVIOUS
<1> USE WriterAssumption
<1>0. WriterTypeOK /\ InFile /\ BatchIsText  BY DEF WriterInv
<1>1. /\ writing # "no" /\ moved = JW_BATCH /\ AfterWrite
      /\ kept' = kept \cup (written .. written + used - 1)
      /\ last_err' = last_err
  BY DEF WriteOk
<1>2. /\ written \in Nat /\ used \in Nat /\ used <= JW_BATCH
      /\ written < max_bytes /\ text = written + used
  BY <1>0, <1>1 DEF WriterTypeOK, InFile, BatchIsText
<1>3. ASSUME NEW p \in written .. written + used - 1
      PROVE  p \in Positions /\ disk[p] = p + 1
  <2>1. /\ p - written \in Batch /\ p - written < used
        /\ written + (p - written) = p /\ p \in Positions
    BY <1>2 DEF Batch, Positions
  <2>2. p - written < moved  BY <2>1, <1>1, <1>2 DEF Batch
  <2>3. disk[p] = sector[p - written]
    BY <2>1, <2>2 DEF WriterInv, MovedIsBatch
  <2>4. sector[p - written] = written + (p - written) + 1
    BY <2>1, <1>0 DEF BatchIsText
  <2> QED  BY <2>1, <2>3, <2>4
<1>4. kept' \subseteq Positions
  BY <1>0, <1>1, <1>3 DEF WriterTypeOK
<1>5. ASSUME NEW p \in kept' PROVE p < written + used /\ disk[p] = p + 1
  <2>1. CASE p \in kept  BY <2>1 DEF WriterInv, NotAhead, Persisted
  <2>2. CASE p \in written .. written + used - 1  BY <2>2, <1>2, <1>3
  <2> QED  BY <2>1, <2>2, <1>1
<1>6. ASSUME last_err' = 0, NEW p \in Positions, p < written + used
      PROVE  disk[p] = p + 1
  <2>1. p \in Nat  BY DEF Positions
  <2>2. CASE p < written
    BY <2>2, <1>1, <1>2, <1>6 DEF WriterInv, BatchesKept
  <2>3. CASE p >= written
    <3>1. p \in written .. written + used - 1  BY <2>1, <2>3, <1>2, <1>6
    <3> QED  BY <3>1, <1>3
  <2> QED  BY <2>1, <2>2, <2>3, <1>2
<1>7. last_err' \in {0, 1}  BY <1>0, <1>1 DEF WriterTypeOK
<1> QED  BY <1>1, <1>4, <1>5, <1>6, <1>7, AfterWriteKeeps

LEMMA WriteFailsKeeps == WriterInv /\ WriteFails => WriterInv'
<1> SUFFICES ASSUME WriterInv, WriteFails PROVE WriterInv'  OBVIOUS
<1>1. writing # "no" /\ last_err' = 1 /\ kept' = kept /\ AfterWrite
  BY DEF WriteFails
<1>2. kept' \subseteq Positions  BY <1>1 DEF WriterInv, WriterTypeOK
<1>3. \A p \in kept' : p < written + used /\ disk[p] = p + 1
  BY <1>1 DEF WriterInv, NotAhead, Persisted
<1> QED  BY <1>1, <1>2, <1>3, AfterWriteKeeps

\* WriterInv holds in every state of the writer, for every size of batch,
\* sector and file: the places of the text on the disk and in the batch agree.
THEOREM WriterInvariant == WriterSpec => []WriterInv
<1>1. WriterInv /\ [WriterNext]_writerVars => WriterInv'
  <2> SUFFICES ASSUME WriterInv, [WriterNext]_writerVars PROVE WriterInv'
    OBVIOUS
  <2>1. CASE UNCHANGED writerVars
    <3>1. /\ UNCHANGED <<written, used, sector, last_err, writing, moved>>
          /\ UNCHANGED <<disk, text, done, kept, flushed>>
      BY <2>1 DEF writerVars, batchVars
    <3>2. WriterTypeOK' /\ InFile' /\ BatchIsText'
      BY <3>1 DEF WriterInv, WriterTypeOK, InFile, BatchIsText
    <3>3. MovedIsBatch' /\ NotAhead' /\ BatchesKept'
      BY <3>1 DEF WriterInv, MovedIsBatch, NotAhead, BatchesKept
    <3>4. Persisted' /\ CommitKeeps' /\ FileIsText' /\ NoHoles'
      BY <3>1 DEF WriterInv, Persisted, CommitKeeps, FileIsText, NoHoles
    <3> QED  BY <3>2, <3>3, <3>4 DEF WriterInv
  <2> QED  BY <2>1, PutcKeeps, CommitLineKeeps, FlushKeeps, WriteSectorKeeps,
              WriteOkKeeps, WriteFailsKeeps DEF WriterNext
<1> QED  BY <1>1, WriterInitial, PTL DEF WriterSpec

\* A hang at any moment leaves on the disk every character a successful _Write
\* covered and, without errors, every committed line.
THEOREM CommittedLinesSurvive == WriterSpec => [](Persisted /\ CommitKeeps)
<1>1. WriterInv => Persisted /\ CommitKeeps  BY DEF WriterInv
<1> QED  BY <1>1, WriterInvariant, PTL

\* The file holds the text in order, without holes unless a _Write failed, and
\* no byte behind it is written.
THEOREM FileHoldsText == WriterSpec => [](FileIsText /\ NoHoles)
<1>1. WriterInv => FileIsText /\ NoHoles  BY DEF WriterInv
<1> QED  BY <1>1, WriterInvariant, PTL

-----------------------------------------------------------------------------
(* The disk bench: arithmetic *)

LEMMA Remainder ==
  ASSUME NEW a \in Nat, NEW d \in Nat, d >= 1
  PROVE  /\ a = d * (a \div d) + (a % d)
         /\ a \div d \in Nat /\ a % d \in 0 .. d - 1
  OBVIOUS

\* A product is monotonic, and strictly below the next multiple.
LEMMA Below ==
  ASSUME NEW p \in Nat, NEW q \in Nat, NEW d \in Nat, d >= 1, d * p < d * (q + 1)
  PROVE  d * p <= d * q
<1>1. p <= q
  <2> SUFFICES ASSUME p >= q + 1 PROVE FALSE  OBVIOUS
  <2>1. p - (q + 1) \in Nat  OBVIOUS
  <2>2. d * (p - (q + 1)) >= 0  BY <2>1
  <2>3. d * (p - (q + 1)) = d * p - d * (q + 1)  OBVIOUS
  <2>4. d * p \in Int /\ d * (q + 1) \in Int  OBVIOUS
  <2> QED  BY <2>2, <2>3, <2>4
<1>2. q - p \in Nat  BY <1>1
<1>3. d * (q - p) >= 0  BY <1>2
<1>4. d * (q - p) = d * q - d * p  OBVIOUS
<1>5. d * p \in Int /\ d * q \in Int  OBVIOUS
<1> QED  BY <1>3, <1>4, <1>5

\* A size rounded up is at least the size.
LEMMA RoundUpCovers ==
  ASSUME NEW n \in Nat
  PROVE  sector_round_up(n) \in Nat /\ sector_round_up(n) >= n
<1>1. SECTOR \in Nat /\ SECTOR >= 1  BY WriterAssumption
<1>2. CASE n = 0  BY <1>1, <1>2 DEF sector_round_up
<1>3. CASE n # 0
  <2> DEFINE a == n + SECTOR - 1
             q == a \div SECTOR
  <2>1. a \in Nat  BY <1>1
  <2>2. a = SECTOR * q + (a % SECTOR) /\ q \in Nat /\ a % SECTOR \in 0 .. SECTOR - 1
    BY <1>1, <2>1, Remainder
  <2>3. sector_round_up(n) = q * SECTOR  BY <1>3 DEF sector_round_up
  <2>4. q * SECTOR = SECTOR * q /\ q * SECTOR \in Nat  BY <1>1, <2>2
  <2>5. a = n + SECTOR - 1  OBVIOUS
  <2> HIDE DEF a, q
  <2> QED  BY <1>1, <2>2, <2>3, <2>4, <2>5
<1> QED  BY <1>2, <1>3

\* A size that is not zero is not rounded past a multiple of the sector.
LEMMA RoundUpStays ==
  ASSUME NEW n \in Nat, n >= 1, NEW c \in Nat, n <= SECTOR * c
  PROVE  sector_round_up(n) <= SECTOR * c
<1>1. SECTOR \in Nat /\ SECTOR >= 1  BY WriterAssumption
<1> DEFINE a == n + SECTOR - 1
           q == a \div SECTOR
<1>2. a \in Nat  BY <1>1
<1>3. a = SECTOR * q + (a % SECTOR) /\ q \in Nat /\ a % SECTOR \in 0 .. SECTOR - 1
  BY <1>1, <1>2, Remainder
<1>4. sector_round_up(n) = q * SECTOR  BY DEF sector_round_up
<1>5. q * SECTOR = SECTOR * q /\ q * SECTOR \in Nat  BY <1>1, <1>3
<1>6. SECTOR * (c + 1) = SECTOR * c + SECTOR /\ SECTOR * c \in Nat  BY <1>1
<1>7. a = n + SECTOR - 1  OBVIOUS
<1> HIDE DEF a, q
<1>8. SECTOR * q < SECTOR * (c + 1)  BY <1>1, <1>3, <1>5, <1>6, <1>7
<1> QED  BY <1>1, <1>3, <1>4, <1>5, <1>8, Below

\* What u32 arithmetic leaves of a number that is at most one turn away.
LEMMA Turn ==
  ASSUME NEW w \in Nat, NEW x \in Int, x < w, x >= 0 - w
  PROVE  x % w = IF x >= 0 THEN x ELSE x + w
<1>1. w >= 1  OBVIOUS
<1>2. CASE x >= 0  BY <1>1, <1>2
<1>3. CASE x < 0  BY <1>1, <1>3
<1> QED  BY <1>2, <1>3

\* Every size of the table is at least one byte and the buffer's end stays in
\* the address space, as with the sizes of sizes.h (1 byte to 4 MB) at 2 MB.
Addressable ==
  \A k \in Sizes : sizes[k] >= 1 /\ IOBUF_BASE + sizes[k] < U32

LEMMA SizeType == ASSUME NEW k \in Sizes PROVE sizes[k] \in Nat
  BY BenchAssumption DEF Sizes

\* A size that passes the two tests of the RAM check is in RAM with the sector
\* it is rounded up to, also when RAM ends below the buffer.
LEMMA FitsInRam ==
  ASSUME Addressable, mem_top \in MemTops, NEW k \in Sizes, Fits(sizes[k])
  PROVE  IOBUF_BASE + sector_round_up(sizes[k]) <= mem_top
<1> DEFINE n == sizes[k]
<1>1. /\ SECTOR \in Nat /\ SECTOR >= 1 /\ U32 \in Nat
      /\ IOBUF_BASE \in 0 .. U32 - 1 /\ IOBUF_BASE % SECTOR = 0
      /\ mem_top \in 0 .. U32 - 1 /\ mem_top % SECTOR = 0
  BY WriterAssumption, BenchAssumption
<1>2. n \in Nat /\ n >= 1 /\ IOBUF_BASE + n < U32
  BY SizeType DEF Addressable
<1>3. (IOBUF_BASE + n) % U32 <= mem_top /\ n <= (mem_top - IOBUF_BASE) % U32
  <2>1. ~((IOBUF_BASE + n) % U32 > mem_top) /\ ~(n > (mem_top - IOBUF_BASE) % U32)
    BY DEF Fits
  <2>2. (IOBUF_BASE + n) % U32 \in Int /\ (mem_top - IOBUF_BASE) % U32 \in Int
    BY <1>1, <1>2
  <2> QED  BY <1>1, <1>2, <2>1, <2>2
<1> HIDE DEF n
<1>4. (IOBUF_BASE + n) % U32 = IOBUF_BASE + n
  <2>1. IOBUF_BASE + n \in Int /\ IOBUF_BASE + n >= 0 - U32 /\ IOBUF_BASE + n >= 0
    BY <1>1, <1>2
  <2> QED  BY <1>1, <1>2, <2>1, Turn
<1>5. IOBUF_BASE + n <= mem_top  BY <1>3, <1>4
<1> DEFINE t == mem_top \div SECTOR
           b == IOBUF_BASE \div SECTOR
<1>6. mem_top = SECTOR * t /\ t \in Nat /\ IOBUF_BASE = SECTOR * b /\ b \in Nat
  <2>1. mem_top \in Nat /\ IOBUF_BASE \in Nat  BY <1>1
  <2>2. mem_top = SECTOR * t + (mem_top % SECTOR) /\ t \in Nat  BY <1>1, <2>1, Remainder
  <2>3. IOBUF_BASE = SECTOR * b + (IOBUF_BASE % SECTOR) /\ b \in Nat
    BY <1>1, <2>1, Remainder
  <2>4. SECTOR * t \in Nat /\ SECTOR * b \in Nat  BY <1>1, <2>2, <2>3
  <2> HIDE DEF t, b
  <2> QED  BY <1>1, <2>2, <2>3, <2>4
<1> HIDE DEF t, b
<1>7. SECTOR * (t - b) = mem_top - IOBUF_BASE
  <2>1. SECTOR * (t - b) = SECTOR * t - SECTOR * b  BY <1>1, <1>6
  <2> QED  BY <1>6, <2>1
<1>8. t - b \in Nat
  <2> SUFFICES ASSUME b >= t PROVE FALSE  BY <1>6
  <2>1. b - t \in Nat  BY <1>6
  <2>2. SECTOR * (b - t) >= 0  BY <1>1, <2>1
  <2>3. SECTOR * (b - t) = SECTOR * b - SECTOR * t  BY <1>1, <1>6
  <2> QED  BY <1>1, <1>2, <1>5, <1>6, <2>2, <2>3
<1>9. n <= SECTOR * (t - b)  BY <1>1, <1>2, <1>5, <1>7
<1>10. sector_round_up(n) <= SECTOR * (t - b)  BY <1>2, <1>8, <1>9, RoundUpStays
<1>11. sector_round_up(n) \in Nat  BY <1>2, RoundUpCovers
<1> QED  BY <1>1, <1>7, <1>10, <1>11 DEF n

-----------------------------------------------------------------------------
(* The disk bench: the inductive invariant *)

\* The bench is inside row i: its line of the comparison is still to come.
Busy ==
  \/ step \in {"check", "read", "fill", "write", "clear", "readback", "verify"}
  \/ step = "emit" /\ resume = "fill"

\* Rows are taken in order, and one is reported only when it is done.
Rows ==
  /\ resume \in {"next", "fill"}
  /\ Busy => i \in Sizes
  /\ \A k \in Sizes : k > i \/ (k = i /\ Busy) => verified[k] = "none"

\* A row that is worked on has passed the RAM check.
Fitted == Busy /\ step # "check" => Fits(sizes[i])

\* The readback finds a cleared buffer; one that succeeded has brought the file
\* over it, or has left it as it was.
Copied ==
  /\ step = "readback" => \A o \in 0 .. sizes[i] - 1 : buf[o] = {}
  /\ step = "verify" /\ err = 0 =>
       \/ \A o \in 0 .. sizes[i] - 1 : buf[o] = scratch[i][o]
       \/ \A o \in 0 .. sizes[i] - 1 : buf[o] = {}

\* The line is committed before the bench goes on: done, or on its way.
Committed ==
  step # "emit" => IF writing = "no" THEN done = text
                   ELSE writing = "stay" \/ flushed

BenchInv == TypeOK /\ Rows /\ Fitted /\ Copied /\ Committed /\ VerifiedHolds

LEMMA ExtentType ==
  ASSUME NEW k \in Sizes
  PROVE  /\ sector_round_up(sizes[k]) \in Nat /\ sizes[k] \in Nat
         /\ sizes[k] <= sector_round_up(sizes[k])
         /\ Extent(k) \subseteq Nat /\ Extent(k) \subseteq Buffer
         /\ \A o \in Nat : o < sector_round_up(sizes[k]) => o \in Extent(k)
         /\ \A o \in 0 .. sizes[k] - 1 : o \in Extent(k)
<1>1. sizes[k] \in Nat  BY SizeType
<1>2. sector_round_up(sizes[k]) \in Nat /\ sector_round_up(sizes[k]) >= sizes[k]
  BY <1>1, RoundUpCovers
<1>3. Extent(k) \subseteq Buffer  BY DEF Buffer
<1> QED  BY <1>1, <1>2, <1>3 DEF Extent

\* The words that are cleared cover the bytes of the row.
LEMMA WordsCover ==
  ASSUME NEW n \in Nat, NEW w \in Nat, w >= 1
  PROVE  /\ ((n + w - 1) \div w) * w \in Nat
         /\ ((n + w - 1) \div w) * w >= n
<1> DEFINE m == n + w - 1
           q == m \div w
<1>1. m \in Nat /\ m = n + w - 1  OBVIOUS
<1>2. m = w * q + (m % w) /\ q \in Nat /\ m % w \in 0 .. w - 1  BY <1>1, Remainder
<1>3. q * w \in Nat /\ q * w = w * q  BY <1>2
<1>4. q * w >= n
  <2> HIDE DEF m, q
  <2> QED  BY <1>1, <1>2, <1>3
<1> QED  BY <1>3, <1>4

LEMMA BufferType == Buffer \subseteq Nat
<1> SUFFICES ASSUME NEW k \in Sizes PROVE Extent(k) \subseteq Nat  BY DEF Buffer
<1> QED  BY ExtentType

LEMMA BytesType ==
  /\ Ones \in Byte /\ {} \in Byte
  /\ \A k \in Sizes : \A o \in Nat : Pattern(k, o) \in Byte
  BY DEF Ones, Byte, Pattern

\* An overlay keeps the type of a buffer or a file.
LEMMA OverlayType ==
  ASSUME NEW D, NEW b \in [D -> Byte], NEW f, NEW n,
         \A o \in D : o < n => f[o] \in Byte
  PROVE  /\ Overlay(b, f, n) \in [D -> Byte]
         /\ \A o \in D : Overlay(b, f, n)[o] = IF o < n THEN f[o] ELSE b[o]
<1>1. DOMAIN b = D  OBVIOUS
<1>2. Overlay(b, f, n) = [o \in D |-> IF o < n THEN f[o] ELSE b[o]]
  BY <1>1 DEF Overlay
<1>3. \A o \in D : (IF o < n THEN f[o] ELSE b[o]) \in Byte  OBVIOUS
<1> QED  BY <1>2, <1>3

\* A transfer of whole sectors ends inside the extent of its row.
LEMMA WholeSectors ==
  ASSUME NEW k \in Sizes, NEW n \in Extent(k) \cup {sector_round_up(sizes[k])},
         NEW o \in Nat, o < n
  PROVE  o \in Extent(k)
<1>1. sector_round_up(sizes[k]) \in Nat  BY ExtentType
<1>2. n \in Nat /\ n <= sector_round_up(sizes[k])  BY <1>1 DEF Extent
<1> QED  BY <1>1, <1>2, ExtentType

LEMMA TrapReadType ==
  ASSUME TypeOK, i \in Sizes, NEW f \in [Extent(i) -> Byte], TrapRead(f)
  PROVE  /\ buf' \in [Buffer -> Byte] /\ err' \in {0, 1} /\ scratch' = scratch
         /\ err' = 0 => \/ \A o \in 0 .. sizes[i] - 1 : buf'[o] = f[o]
                        \/ \A o \in 0 .. sizes[i] - 1 : buf'[o] = buf[o]
<1> DEFINE top == sector_round_up(sizes[i])
<1>1. /\ buf \in [Buffer -> Byte] /\ Buffer \subseteq Nat /\ scratch' = scratch
      /\ err' \in {0, 1}
  BY BufferType DEF TypeOK, TrapRead
<1>2. ASSUME NEW n \in Extent(i) \cup {top}
      PROVE  /\ Overlay(buf, f, n) \in [Buffer -> Byte]
             /\ \A o \in Buffer : Overlay(buf, f, n)[o] = IF o < n THEN f[o] ELSE buf[o]
  <2>1. \A o \in Buffer : o < n => f[o] \in Byte
    <3> SUFFICES ASSUME NEW o \in Buffer, o < n PROVE f[o] \in Byte  OBVIOUS
    <3>1. o \in Nat  BY <1>1
    <3>2. o \in Extent(i)  BY <3>1, WholeSectors
    <3> QED  BY <3>2
  <2>2. buf \in [Buffer -> Byte]  BY <1>1
  <2>3. Overlay(buf, f, n) \in [Buffer -> Byte]  BY <2>1, <2>2, OverlayType, Zenon
  <2>4. \A o \in Buffer : Overlay(buf, f, n)[o] = IF o < n THEN f[o] ELSE buf[o]
    BY <2>1, <2>2, OverlayType, SMT
  <2> QED  BY <2>3, <2>4
<1>3. PICK n \in Extent(i) \cup {top} : buf' = Overlay(buf, f, n) /\ (err' = 0 => n \in {0, top})
  <2>1. CASE err' = 0 /\ buf' = Overlay(buf, f, top)  BY <2>1
  <2>2. CASE \E n \in Extent(i), e \in {0, 1} :
               (e = 0 => n = 0) /\ err' = e /\ buf' = Overlay(buf, f, n)
    <3>1. PICK n \in Extent(i), e \in {0, 1} :
            (e = 0 => n = 0) /\ err' = e /\ buf' = Overlay(buf, f, n)
      BY <2>2
    <3>2. err' = 0 => n = 0  BY <3>1
    <3> QED  BY <3>1, <3>2
  <2> QED  BY <2>1, <2>2 DEF TrapRead
<1>4. ASSUME n = top, NEW o \in 0 .. sizes[i] - 1 PROVE buf'[o] = f[o]
  <2>1. n = top  BY <1>4
  <2>2. sizes[i] \in Nat /\ top \in Nat /\ sizes[i] <= top /\ o \in Extent(i)
    BY ExtentType
  <2>3. o \in Buffer  BY <2>2, ExtentType
  <2>4. o < top  BY <2>2
  <2> QED  BY <1>2, <1>3, <2>1, <2>3, <2>4
<1>5. ASSUME n = 0, NEW o \in 0 .. sizes[i] - 1 PROVE buf'[o] = buf[o]
  <2>1. o \in Buffer /\ o \in Nat /\ ~(o < n)  BY <1>1, <1>5, ExtentType
  <2> QED  BY <1>2, <1>3, <2>1
<1> QED  BY <1>1, <1>2, <1>3, <1>4, <1>5

LEMMA TrapWriteType ==
  ASSUME TypeOK, i \in Sizes, TrapWrite
  PROVE  /\ buf' = buf /\ err' \in {0, 1} /\ DOMAIN scratch' = Sizes
         /\ \A k \in Sizes : scratch'[k] \in [Extent(k) -> Byte]
         /\ \A k \in Sizes : k # i => scratch'[k] = scratch[k]
<1> DEFINE top == sector_round_up(sizes[i])
<1>1. /\ buf \in [Buffer -> Byte] /\ DOMAIN scratch = Sizes
      /\ \A k \in Sizes : scratch[k] \in [Extent(k) -> Byte]
  BY DEF TypeOK
<1>2. PICK n \in Extent(i) \cup {top} :
        scratch' = [scratch EXCEPT ![i] = Overlay(@, buf, n)]
  <2>1. CASE scratch' = [scratch EXCEPT ![i] = Overlay(@, buf, top)]  BY <2>1
  <2>2. CASE \E n \in Extent(i) : scratch' = [scratch EXCEPT ![i] = Overlay(@, buf, n)]
    BY <2>2
  <2> QED  BY <2>1, <2>2 DEF TrapWrite
<1>3. buf' = buf /\ err' \in {0, 1}  BY DEF TrapWrite
<1>4. Overlay(scratch[i], buf, n) \in [Extent(i) -> Byte]
  <2>1. \A o \in Extent(i) : o < n => buf[o] \in Byte  BY <1>1, ExtentType
  <2>2. scratch[i] \in [Extent(i) -> Byte]  BY <1>1
  <2> QED  BY <2>1, <2>2, OverlayType, Zenon
<1> HIDE DEF top
<1> QED  BY <1>1, <1>2, <1>3, <1>4

-----------------------------------------------------------------------------
(* The disk bench: the steps *)

\* Most steps leave the writer, the file under test and the report alone.
LEMMA ReportKept ==
  ASSUME VerifiedHolds, UNCHANGED <<scratch, verified>> PROVE VerifiedHolds'
  BY DEF VerifiedHolds

LEMMA SizesType == Len(sizes) \in Nat
  BY BenchAssumption

LEMMA NextSizeKeeps ==
  ASSUME BenchInv, WriterTypeOK', NextSize PROVE BenchInv'
<1>0. TypeOK /\ Rows /\ Committed /\ VerifiedHolds  BY DEF BenchInv
<1>1. /\ step = "next" /\ writing = "no" /\ UNCHANGED writerVars
      /\ UNCHANGED <<mem_top, buf, scratch, err, verified, left, resume>>
      /\ \/ i < Len(sizes) /\ i' = i + 1 /\ step' = "check"
         \/ i = Len(sizes) /\ i' = i /\ step' = "flush"
  BY DEF NextSize, At
<1>2. i \in 0 .. Len(sizes) /\ Len(sizes) \in Nat  BY <1>0, SizesType DEF TypeOK
<1>3. TypeOK'
  <2>1. i' \in 0 .. Len(sizes)  BY <1>1, <1>2
  <2> QED  BY <1>0, <1>1, <2>1 DEF TypeOK
<1>4. Rows'
  <2>1. Busy' => i' \in Sizes  BY <1>1, <1>2 DEF Busy, Sizes
  <2>2. ASSUME NEW k \in Sizes, k > i' \/ (k = i' /\ Busy') PROVE verified'[k] = "none"
    <3>1. k > i  BY <1>1, <1>2, <2>2 DEF Sizes, Busy
    <3> QED  BY <1>0, <1>1, <3>1 DEF Rows
  <2> QED  BY <1>0, <1>1, <2>1, <2>2 DEF Rows
<1>5. Fitted' /\ Copied'  BY <1>1 DEF Fitted, Copied, Busy
<1>6. Committed'  BY <1>0, <1>1 DEF Committed, writerVars, batchVars
<1> QED  BY <1>0, <1>1, <1>3, <1>4, <1>5, <1>6, ReportKept DEF BenchInv

LEMMA CheckKeeps ==
  ASSUME BenchInv, WriterTypeOK', Check PROVE BenchInv'
<1>0. TypeOK /\ Rows /\ Committed /\ VerifiedHolds  BY DEF BenchInv
<1>1. /\ step = "check" /\ writing = "no" /\ UNCHANGED writerVars
      /\ UNCHANGED <<i, mem_top, buf, scratch, err, verified>>
      /\ \/ step' = "emit" /\ resume' = "next" /\ left' \in LineLens
         \/ Fits(sizes[i]) /\ step' = "read" /\ UNCHANGED <<left, resume>>
  BY DEF Check, At, EmitLine, Go
<1>2. TypeOK'
  <2>1. left' \in Nat  BY <1>0, <1>1, BenchAssumption DEF TypeOK
  <2> QED  BY <1>0, <1>1, <2>1 DEF TypeOK
<1>3. Rows'  BY <1>0, <1>1 DEF Rows, Busy
<1>4. Fitted'  BY <1>1 DEF Fitted, Busy, Fits
<1>5. Copied'  BY <1>1 DEF Copied
<1>6. Committed'  BY <1>0, <1>1 DEF Committed, writerVars, batchVars
<1> QED  BY <1>0, <1>1, <1>2, <1>3, <1>4, <1>5, <1>6, ReportKept DEF BenchInv

LEMMA ReadKeeps ==
  ASSUME BenchInv, WriterTypeOK', Read PROVE BenchInv'
<1>0. TypeOK /\ Rows /\ Fitted /\ Committed /\ VerifiedHolds  BY DEF BenchInv
<1> DEFINE f == [o \in Extent(i) |-> Ones]
<1>1. /\ step = "read" /\ UNCHANGED writerVars /\ TrapRead(f)
      /\ UNCHANGED <<i, mem_top, verified>>
      /\ step' = "emit" /\ resume' = "fill" /\ left' \in LineLens
  BY DEF Read, At, EmitLine
<1>2. i \in Sizes  BY <1>0, <1>1 DEF Rows, Busy
<1>3. f \in [Extent(i) -> Byte]  BY BytesType
<1> HIDE DEF f
<1>4. buf' \in [Buffer -> Byte] /\ err' \in {0, 1} /\ scratch' = scratch
  BY <1>0, <1>1, <1>2, <1>3, TrapReadType
<1>5. TypeOK'
  <2>1. left' \in Nat  BY <1>1, BenchAssumption
  <2> QED  BY <1>0, <1>1, <1>4, <2>1 DEF TypeOK
<1>6. Rows'  BY <1>0, <1>1 DEF Rows, Busy
<1>7. Fitted'  BY <1>0, <1>1 DEF Fitted, Busy, Fits
<1>8. Copied' /\ Committed'  BY <1>1 DEF Copied, Committed
<1> QED  BY <1>0, <1>1, <1>4, <1>5, <1>6, <1>7, <1>8, ReportKept DEF BenchInv

LEMMA FillKeeps ==
  ASSUME BenchInv, WriterTypeOK', Fill PROVE BenchInv'
<1>0. TypeOK /\ Rows /\ Fitted /\ Committed /\ VerifiedHolds  BY DEF BenchInv
<1> DEFINE f == [o \in Extent(i) |-> Pattern(i, o)]
<1>1. /\ step = "fill" /\ UNCHANGED writerVars
      /\ buf' = Overlay(buf, f, sizes[i])
      /\ step' = "write" /\ UNCHANGED <<i, mem_top, left, resume, scratch, err, verified>>
  BY DEF Fill, At, Go
<1>2. i \in Sizes  BY <1>0, <1>1 DEF Rows, Busy
<1>3. f \in [Extent(i) -> Byte]  BY <1>2, BytesType, ExtentType
<1> HIDE DEF f
<1>4. buf' \in [Buffer -> Byte]
  <2>1. \A o \in Buffer : o < sizes[i] => f[o] \in Byte
    <3> SUFFICES ASSUME NEW o \in Buffer, o < sizes[i] PROVE f[o] \in Byte  OBVIOUS
    <3>1. o \in Extent(i)  BY <1>2, BufferType, ExtentType
    <3> QED  BY <1>3, <3>1
  <2>2. buf \in [Buffer -> Byte]  BY <1>0 DEF TypeOK
  <2> QED  BY <1>1, <2>1, <2>2, OverlayType, Zenon
<1>5. TypeOK'  BY <1>0, <1>1, <1>4 DEF TypeOK
<1>6. Rows'  BY <1>0, <1>1 DEF Rows, Busy
<1>7. Fitted'  BY <1>0, <1>1 DEF Fitted, Busy, Fits
<1>8. Copied'  BY <1>1 DEF Copied
<1>9. Committed'  BY <1>0, <1>1 DEF Committed, writerVars, batchVars
<1> QED  BY <1>0, <1>1, <1>5, <1>6, <1>7, <1>8, <1>9, ReportKept DEF BenchInv

LEMMA WriteKeeps ==
  ASSUME BenchInv, WriterTypeOK', Write PROVE BenchInv'
<1>0. TypeOK /\ Rows /\ Fitted /\ Committed /\ VerifiedHolds  BY DEF BenchInv
<1>1. /\ step = "write" /\ UNCHANGED writerVars /\ TrapWrite
      /\ step' = "clear" /\ UNCHANGED <<i, mem_top, left, resume, verified>>
  BY DEF Write, At, Go
<1>2. i \in Sizes /\ verified[i] = "none"
  <2>1. Busy  BY <1>1 DEF Busy
  <2> QED  BY <1>0, <2>1 DEF Rows
<1>3. /\ buf' = buf /\ err' \in {0, 1} /\ DOMAIN scratch' = Sizes
      /\ \A k \in Sizes : scratch'[k] \in [Extent(k) -> Byte]
      /\ \A k \in Sizes : k # i => scratch'[k] = scratch[k]
  BY <1>0, <1>1, <1>2, TrapWriteType
<1>4. TypeOK'  BY <1>0, <1>1, <1>3 DEF TypeOK
<1>5. Rows'  BY <1>0, <1>1 DEF Rows, Busy
<1>6. Fitted'  BY <1>0, <1>1 DEF Fitted, Busy, Fits
<1>7. Copied'  BY <1>1 DEF Copied
<1>8. Committed'  BY <1>0, <1>1 DEF Committed, writerVars, batchVars
<1>9. VerifiedHolds'
  <2> SUFFICES ASSUME NEW k \in Sizes, verified'[k] = "yes", Telling(k),
                      NEW o \in 0 .. sizes[k] - 1
               PROVE  scratch'[k][o] = Pattern(k, o)
    BY DEF VerifiedHolds
  <2>1. k # i /\ verified[k] = "yes"  BY <1>1, <1>2
  <2>2. scratch'[k] = scratch[k]  BY <1>3, <2>1
  <2> QED  BY <1>0, <2>1, <2>2 DEF VerifiedHolds
<1> QED  BY <1>4, <1>5, <1>6, <1>7, <1>8, <1>9 DEF BenchInv

LEMMA ClearKeeps ==
  ASSUME BenchInv, WriterTypeOK', Clear PROVE BenchInv'
<1>0. TypeOK /\ Rows /\ Fitted /\ Committed /\ VerifiedHolds  BY DEF BenchInv
<1> DEFINE f == [o \in DOMAIN buf |-> {}]
           n == ((sizes[i] + WORD - 1) \div WORD) * WORD
<1>1. /\ step = "clear" /\ UNCHANGED writerVars /\ buf' = Overlay(buf, f, n)
      /\ step' = "readback"
      /\ UNCHANGED <<i, mem_top, left, resume, scratch, err, verified>>
  BY DEF Clear, At, Go
<1>2. buf \in [Buffer -> Byte]  BY <1>0 DEF TypeOK
<1>3. \A o \in Buffer : f[o] \in Byte  BY <1>2, BytesType
<1>i. i \in Sizes  BY <1>0, <1>1 DEF Rows, Busy
<1>n. sizes[i] \in Nat /\ n \in Nat /\ n >= sizes[i]
  BY <1>i, SizeType, WordsCover, BenchAssumption
<1>z. \A o \in Buffer : f[o] = {}  BY <1>2
<1> HIDE DEF f, n
<1>4. buf' \in [Buffer -> Byte]  BY <1>1, <1>2, <1>3, OverlayType, Zenon
<1>o. \A o \in Buffer : buf'[o] = IF o < n THEN f[o] ELSE buf[o]
  BY <1>1, <1>2, <1>3, OverlayType, SMT
<1>b. ASSUME NEW o \in 0 .. sizes[i] - 1 PROVE buf'[o] = {}
  <2>1. o \in Buffer /\ o < n  BY <1>i, <1>n, ExtentType
  <2> QED  BY <1>o, <1>z, <2>1
<1>5. TypeOK'  BY <1>0, <1>1, <1>4 DEF TypeOK
<1>6. Rows'  BY <1>0, <1>1 DEF Rows, Busy
<1>7. Fitted'  BY <1>0, <1>1 DEF Fitted, Busy, Fits
<1>8. Copied'  BY <1>1, <1>b DEF Copied
<1>9. Committed'  BY <1>0, <1>1 DEF Committed, writerVars, batchVars
<1> QED  BY <1>0, <1>1, <1>5, <1>6, <1>7, <1>8, <1>9, ReportKept DEF BenchInv

LEMMA ReadbackKeeps ==
  ASSUME BenchInv, WriterTypeOK', Readback PROVE BenchInv'
<1>0. TypeOK /\ Rows /\ Fitted /\ Copied /\ Committed /\ VerifiedHolds  BY DEF BenchInv
<1>1. /\ step = "readback" /\ UNCHANGED writerVars /\ TrapRead(scratch[i])
      /\ step' = "verify" /\ UNCHANGED <<i, mem_top, left, resume, verified>>
  BY DEF Readback, At, Go
<1>2. i \in Sizes  BY <1>0, <1>1 DEF Rows, Busy
<1>3. scratch[i] \in [Extent(i) -> Byte]  BY <1>0, <1>2 DEF TypeOK
<1>4. /\ buf' \in [Buffer -> Byte] /\ err' \in {0, 1} /\ scratch' = scratch
      /\ err' = 0 => \/ \A o \in 0 .. sizes[i] - 1 : buf'[o] = scratch[i][o]
                     \/ \A o \in 0 .. sizes[i] - 1 : buf'[o] = buf[o]
  BY <1>0, <1>1, <1>2, <1>3, TrapReadType
<1>5. TypeOK'  BY <1>0, <1>1, <1>4 DEF TypeOK
<1>6. Rows'  BY <1>0, <1>1 DEF Rows, Busy
<1>7. Fitted'  BY <1>0, <1>1 DEF Fitted, Busy, Fits
<1>8. Copied'  BY <1>0, <1>1, <1>4 DEF Copied
<1>9. Committed'  BY <1>0, <1>1 DEF Committed, writerVars, batchVars
<1> QED  BY <1>0, <1>1, <1>4, <1>5, <1>6, <1>7, <1>8, <1>9, ReportKept DEF BenchInv

LEMMA VerifyKeeps ==
  ASSUME BenchInv, WriterTypeOK', Verify PROVE BenchInv'
<1>0. TypeOK /\ Rows /\ Fitted /\ Copied /\ Committed /\ VerifiedHolds  BY DEF BenchInv
<1>1. /\ step = "verify" /\ UNCHANGED writerVars
      /\ verified' = [verified EXCEPT ![i] = IF Matches(i) THEN "yes" ELSE "no"]
      /\ step' = "emit" /\ resume' = "next" /\ left' \in LineLens
      /\ UNCHANGED <<i, mem_top, buf, scratch, err>>
  BY DEF Verify, At, EmitLine
<1>2. i \in Sizes /\ verified \in [Sizes -> {"none", "no", "yes"}]
  BY <1>0, <1>1 DEF Rows, Busy, TypeOK
<1>3. TypeOK'
  <2>1. left' \in Nat  BY <1>1, BenchAssumption
  <2>2. verified' \in [Sizes -> {"none", "no", "yes"}]  BY <1>1, <1>2
  <2> QED  BY <1>0, <1>1, <2>1, <2>2 DEF TypeOK
<1>4. Rows'
  <2>1. ~Busy'  BY <1>1 DEF Busy
  <2>2. ASSUME NEW k \in Sizes, k > i' PROVE verified'[k] = "none"
    <3>1. k # i /\ k > i  BY <1>1, <1>2, <2>2 DEF Sizes
    <3> QED  BY <1>0, <1>1, <1>2, <3>1 DEF Rows
  <2> QED  BY <1>1, <2>1, <2>2 DEF Rows
<1>5. Fitted' /\ Copied' /\ Committed'
  BY <1>1 DEF Fitted, Busy, Copied, Committed
<1>6. VerifiedHolds'
  <2> SUFFICES ASSUME NEW k \in Sizes, verified'[k] = "yes", Telling(k),
                      NEW o \in 0 .. sizes[k] - 1
               PROVE  scratch[k][o] = Pattern(k, o)
    BY <1>1 DEF VerifiedHolds
  <2>1. CASE k = i
    <3>1. Matches(i)  BY <1>1, <1>2, <2>1
    <3>2. PICK p \in 0 .. sizes[i] - 1 : Pattern(i, p) # {}  BY <2>1 DEF Telling
    <3>3. err = 0 /\ buf[p] = Pattern(i, p) /\ buf[o] = Pattern(i, o)
      BY <2>1, <3>1, <3>2 DEF Matches
    <3>4. buf[p] # {}  BY <3>2, <3>3
    <3>5. buf[o] = scratch[i][o]  BY <1>0, <1>1, <2>1, <3>2, <3>3, <3>4 DEF Copied
    <3> QED  BY <2>1, <3>3, <3>5
  <2>2. CASE k # i
    <3>1. verified[k] = "yes"  BY <1>1, <1>2, <2>2
    <3> QED  BY <1>0, <3>1 DEF VerifiedHolds
  <2> QED  BY <2>1, <2>2
<1> QED  BY <1>3, <1>4, <1>5, <1>6 DEF BenchInv

\* The calls of the writer move the bench on, or leave it where it is.
LEMMA WriterCallKeeps ==
  ASSUME BenchInv, WriterTypeOK', PutChar \/ Commit \/ Flush \/ Driver
  PROVE  BenchInv'
<1>0. TypeOK /\ Rows /\ Fitted /\ Copied /\ Committed /\ VerifiedHolds  BY DEF BenchInv
<1>1. UNCHANGED <<i, mem_top, buf, scratch, err, verified, resume>>
  BY DEF PutChar, Commit, Flush, Driver, Go, benchVars
<1>2. \/ step' = step /\ left' \in {left - 1, left} /\ (left' = left \/ left > 0)
      \/ step = "emit" /\ step' = resume /\ left' = left
      \/ step = "flush" /\ step' = "done" /\ left' = left
  BY DEF PutChar, Commit, Flush, Driver, Go, benchVars
<1>3. TypeOK'
  <2>1. left' \in Nat  BY <1>0, <1>2 DEF TypeOK
  <2>2. step' \in {"next", "check", "read", "fill", "write", "clear", "readback",
                   "verify", "emit", "flush", "done"}
    BY <1>0, <1>2 DEF TypeOK, Rows
  <2> QED  BY <1>0, <1>1, <2>1, <2>2 DEF TypeOK
<1>4. Busy' = Busy /\ (step' = "check" <=> step = "check")
      /\ (step' = "verify" <=> step = "verify")
      /\ (step' = "readback" <=> step = "readback")
  BY <1>0, <1>1, <1>2 DEF Busy, Rows
<1>5. Rows'  BY <1>0, <1>1, <1>4 DEF Rows
<1>6. Fitted' /\ Copied'  BY <1>0, <1>1, <1>4 DEF Fitted, Fits, Copied
<1>7. Committed'
  <2>1. CASE PutChar  BY <2>1 DEF PutChar, Committed
  <2>2. CASE Commit
    BY <2>2 DEF Commit, Committed, jw_commit_line, WriteCurrentBatch, Ready, batchVars
  <2>3. CASE Flush
    <3>1. step = "flush" /\ done = text /\ writing = "no"
      BY <1>0, <2>3 DEF Flush, Ready, Committed
    <3> QED
      BY <2>3, <3>1 DEF Flush, Committed, jw_flush, WriteCurrentBatch, Ready, Go, batchVars
  <2>4. CASE Driver
    <3>1. step' = step /\ writing # "no"
      BY <2>4 DEF Driver, benchVars, WriteSector, WriteOk, WriteFails
    <3>2. CASE WriteSector  BY <1>0, <3>1, <3>2 DEF Committed, WriteSector
    <3>3. CASE AfterWrite  BY <1>0, <3>1, <3>3 DEF Committed, AfterWrite
    <3> QED  BY <2>4, <3>2, <3>3 DEF Driver, WriteOk, WriteFails
  <2> QED  BY <2>1, <2>2, <2>3, <2>4
<1> QED  BY <1>0, <1>1, <1>3, <1>5, <1>6, <1>7, ReportKept DEF BenchInv

LEMMA BenchInitial == Init => BenchInv
<1> SUFFICES ASSUME Init PROVE BenchInv  OBVIOUS
<1> USE DEF Init
<1>1. WriterTypeOK  BY WriterInitial DEF WriterInv
<1>2. TypeOK
  <2>1. i \in 0 .. Len(sizes)  BY SizesType
  <2>2. buf \in [Buffer -> Byte]  BY BytesType
  <2>3. DOMAIN scratch = Sizes  OBVIOUS
  <2>4. ASSUME NEW k \in Sizes PROVE scratch[k] \in [Extent(k) -> Byte]
    BY BytesType, ExtentType
  <2>5. verified \in [Sizes -> {"none", "no", "yes"}]  OBVIOUS
  <2> QED  BY <1>1, <2>1, <2>2, <2>3, <2>4, <2>5 DEF TypeOK
<1>3. Rows /\ Fitted /\ Copied /\ VerifiedHolds
  BY DEF Rows, Busy, Fitted, Copied, VerifiedHolds
<1>4. Committed  BY DEF Committed, jw_init
<1> QED  BY <1>2, <1>3, <1>4 DEF BenchInv

LEMMA BenchNext == BenchInv /\ WriterTypeOK' /\ [Next]_vars => BenchInv'
<1> SUFFICES ASSUME BenchInv, WriterTypeOK', [Next]_vars PROVE BenchInv'  OBVIOUS
<1>1. CASE UNCHANGED vars
  <2>1. UNCHANGED benchVars /\ UNCHANGED writerVars  BY <1>1 DEF vars
  <2>2. /\ UNCHANGED <<step, i, mem_top, buf, scratch, err, verified, left, resume>>
        /\ UNCHANGED <<writing, done, text, flushed>>
    BY <2>1 DEF benchVars, writerVars, batchVars
  <2>3. TypeOK'  BY <2>2 DEF BenchInv, TypeOK
  <2>4. Rows' /\ Fitted' /\ Copied'
    BY <2>2 DEF BenchInv, Rows, Fitted, Copied, Busy, Fits
  <2>5. Committed'  BY <2>2 DEF BenchInv, Committed
  <2> QED  BY <2>2, <2>3, <2>4, <2>5, ReportKept DEF BenchInv
<1>2. CASE Finished  BY <1>1, <1>2 DEF Finished
<1> QED
  BY <1>1, <1>2, NextSizeKeeps, CheckKeeps, ReadKeeps, FillKeeps, WriteKeeps,
     ClearKeeps, ReadbackKeeps, VerifyKeeps, WriterCallKeeps DEF Next

\* The bench implements the writer's specification: it calls the writer only
\* where a call is allowed, and touches its state by no other way, so all that
\* is proved of the results file holds of the file this bench leaves.
THEOREM BenchUsesWriter == Spec => WriterSpec
<1>1. Init => jw_init  BY DEF Init
<1>2. [Next]_vars => [WriterNext]_writerVars
  <2> SUFFICES ASSUME [Next]_vars PROVE WriterNext \/ UNCHANGED writerVars
    OBVIOUS
  <2>1. CASE NextSize \/ Check \/ Read \/ Fill \/ Write \/ Clear \/ Readback \/ Verify
    BY <2>1 DEF NextSize, Check, Read, Fill, Write, Clear, Readback, Verify, At
  <2>2. CASE PutChar \/ Commit \/ Flush \/ Driver
    BY <2>2 DEF PutChar, Commit, Flush, Driver, WriterNext
  <2>3. CASE Finished \/ UNCHANGED vars  BY <2>3 DEF Finished, vars
  <2> QED  BY <2>1, <2>2, <2>3 DEF Next
<1> QED  BY <1>1, <1>2, PTL DEF Spec, WriterSpec

LEMMA BenchInvariant == Spec => [](BenchInv /\ WriterInv)
<1>1. Spec => []WriterInv  BY BenchUsesWriter, WriterInvariant, PTL
<1>2. WriterInv' => WriterTypeOK'  BY DEF WriterInv
<1> QED  BY <1>1, <1>2, BenchInitial, BenchNext, PTL DEF Spec

\* The bench's buffer, files, report and the writer's registers keep their
\* types, for every table of sizes.
THEOREM BenchTypes == Spec => []TypeOK
<1>1. BenchInv => TypeOK  BY DEF BenchInv
<1> QED  BY <1>1, BenchInvariant, PTL

\* A size whose pattern is not all zeros and that is reported as verified is on
\* the disk: a successful readback has brought the scratch file over the cleared
\* buffer or has left it cleared, and then the comparison fails, whatever the
\* write before it stored and reported.
THEOREM VerifiedOnDisk == Spec => []VerifiedHolds
<1>1. BenchInv => VerifiedHolds  BY DEF BenchInv
<1> QED  BY <1>1, BenchInvariant, PTL

\* With the two u32 tests of the RAM check no transfer, rounded up to sectors,
\* leaves RAM, for every memory size, also one that ends below the buffer.
THEOREM TransfersInRam == ASSUME Addressable PROVE Spec => []BufferInRam
<1>1. BenchInv => BufferInRam
  <2> SUFFICES ASSUME BenchInv, step \in {"read", "write", "readback"}
               PROVE  IOBUF_BASE + sector_round_up(sizes[i]) <= mem_top
    BY DEF BufferInRam
  <2>1. i \in Sizes /\ Fits(sizes[i]) /\ mem_top \in MemTops
    BY DEF BenchInv, TypeOK, Rows, Fitted, Busy
  <2> QED  BY <2>1, FitsInRam
<1> QED  BY <1>1, BenchInvariant, PTL

\* Whenever the bench has gone on after a line and no _Write has failed, every
\* character of the results so far is on the disk.
THEOREM LinesOnDisk == Spec => []LinesSurvive
<1>1. BenchInv /\ WriterInv => LinesSurvive
  BY DEF BenchInv, Committed, WriterInv, CommitKeeps, LinesSurvive
<1> QED  BY <1>1, BenchInvariant, PTL
=============================================================================
