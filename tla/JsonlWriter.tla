---------------------------- MODULE JsonlWriter -----------------------------
(***************************************************************************)
(* The results file of the pre-boot test programs (SingleStepTests/        *)
(* preboot/common/runtime/jsonl_writer.c): characters are collected in a   *)
(* batch that is written over its place in a preallocated file, when it is *)
(* full, when a line is committed and once at the end.  The machine may    *)
(* hang or be switched off in any state; what the disk holds then is what  *)
(* the operator extracts.                                                  *)
(*                                                                         *)
(* A character is its number in the accepted text, from 1; 0 is padding.   *)
(***************************************************************************)
EXTENDS Integers

CONSTANTS
  JW_BATCH,    \* bytes in a batch (16384)
  SECTOR,      \* bytes the medium writes at once (512)
  max_bytes    \* size of the file (32768 for iotest)

ASSUME WriterAssumption ==
  /\ JW_BATCH \in Nat /\ SECTOR \in Nat /\ max_bytes \in Nat
  /\ SECTOR >= 1 /\ JW_BATCH >= 1
  /\ \E n \in 1 .. JW_BATCH : JW_BATCH = n * SECTOR
  /\ \E n \in 0 .. max_bytes : max_bytes = n * JW_BATCH

Pad == 0
Old == -1     \* what an earlier run left in the file, or lies behind it

\* The file, and the bytes behind it that an overrun would reach.
Positions == 0 .. max_bytes + JW_BATCH - 1

VARIABLES
  written, used, sector, last_err,   \* JsonlWriter
  writing,    \* what follows the _Write under way: "no", "advance", "stay"
  moved,      \* bytes of the batch that _Write has put on the disk
  disk,       \* [Positions -> characters]
  text,       \* characters accepted so far
  done,       \* text when the last jw_commit_line or jw_flush returned
  kept,       \* positions of text covered by a _Write that returned noErr
  flushed     \* jw_flush has been called, the last call of a run

batchVars  == <<written, used, sector, last_err, writing, moved>>
writerVars == <<batchVars, disk, text, done, kept, flushed>>

Batch == 0 .. JW_BATCH - 1

jw_init ==
  /\ written = 0 /\ used = 0 /\ sector = [o \in Batch |-> Pad]
  /\ last_err = 0 /\ writing = "no" /\ moved = 0
  /\ disk = [p \in Positions |-> Old]
  /\ text = 0 /\ done = 0 /\ kept = {} /\ flushed = FALSE

Ready == writing = "no" /\ ~flushed
Full  == written + used >= max_bytes

-----------------------------------------------------------------------------
\* Fault: a full batch is noticed one character late.
FaultPutc ==
  /\ Ready /\ ~Full
  /\ sector' = [sector EXCEPT ![used] = text + 1]
  /\ used' = used + 1 /\ text' = text + 1
  /\ writing' = IF used' > JW_BATCH THEN "advance" ELSE "no"
  /\ UNCHANGED <<written, last_err, moved, disk, done, kept, flushed>>

\* The character that fills the batch starts flush_sector.
jw_putc ==
  /\ Ready /\ ~Full
  /\ sector' = [sector EXCEPT ![used] = text + 1]
  /\ used' = used + 1 /\ text' = text + 1
  /\ writing' = IF used' = JW_BATCH THEN "advance" ELSE "no"
  /\ UNCHANGED <<written, last_err, moved, disk, done, kept, flushed>>

\* write_current_batch up to the call of the driver.
WriteCurrentBatch(after) ==
  /\ sector' = [o \in Batch |-> IF o < used THEN sector[o] ELSE Pad]
  /\ writing' = after
  /\ UNCHANGED <<written, used, last_err, moved, disk, text, done, kept>>

jw_commit_line ==
  /\ Ready
  /\ \/ /\ used # 0
        /\ WriteCurrentBatch("stay")
     \/ /\ used = 0
        /\ done' = text
        /\ UNCHANGED <<batchVars, disk, text, kept>>
  /\ UNCHANGED flushed

jw_flush ==
  /\ Ready
  /\ flushed' = TRUE
  /\ \/ used > 0 /\ WriteCurrentBatch("advance")
     \/ used = 0 /\ UNCHANGED <<batchVars, disk, text, done, kept>>

-----------------------------------------------------------------------------
(* The _Write of the batch *)

\* Fault: the batch is written where the text ends, not where it starts.
FaultWriteSector ==
  /\ writing # "no" /\ moved < JW_BATCH
  /\ disk' = [p \in Positions |->
                IF p - used \in moved .. moved + SECTOR - 1
                THEN sector[p - used] ELSE disk[p]]
  /\ moved' = moved + SECTOR
  /\ UNCHANGED <<written, used, sector, last_err, writing, text, done, kept,
                 flushed>>

\* The medium takes the next sector of the batch.
WriteSector ==
  /\ writing # "no" /\ moved < JW_BATCH
  /\ disk' = [p \in Positions |->
                IF p - written \in moved .. moved + SECTOR - 1
                THEN sector[p - written] ELSE disk[p]]
  /\ moved' = moved + SECTOR
  /\ UNCHANGED <<written, used, sector, last_err, writing, text, done, kept,
                 flushed>>

\* Fault: a commit starts the next batch as well.
FaultAfterWrite ==
  /\ written' = written + JW_BATCH
  /\ used' = 0
  /\ done' = IF writing = "stay" \/ flushed THEN text ELSE done
  /\ moved' = 0 /\ writing' = "no"
  /\ UNCHANGED <<sector, disk, text, flushed>>

\* flush_sector moves on to the next batch; jw_commit_line does not.
AfterWrite ==
  /\ written' = IF writing = "advance" THEN written + JW_BATCH ELSE written
  /\ used' = IF writing = "advance" THEN 0 ELSE used
  /\ done' = IF writing = "stay" \/ flushed THEN text ELSE done
  /\ moved' = 0 /\ writing' = "no"
  /\ UNCHANGED <<sector, disk, text, flushed>>

WriteOk ==
  /\ writing # "no" /\ moved = JW_BATCH
  /\ kept' = kept \cup (written .. written + used - 1)
  /\ UNCHANGED last_err
  /\ AfterWrite

\* Any part of the batch may be on the disk when the driver reports an error.
WriteFails ==
  /\ writing # "no"
  /\ last_err' = 1
  /\ UNCHANGED kept
  /\ AfterWrite

WriterNext ==
  \/ jw_putc \/ jw_commit_line \/ jw_flush
  \/ WriteSector \/ WriteOk \/ WriteFails

WriterSpec == jw_init /\ [][WriterNext]_writerVars

-----------------------------------------------------------------------------
WriterTypeOK ==
  /\ written \in Nat /\ used \in 0 .. JW_BATCH
  /\ sector \in [Batch -> Nat] /\ last_err \in {0, 1}
  /\ writing \in {"no", "advance", "stay"} /\ moved \in 0 .. JW_BATCH
  /\ disk \in [Positions -> Nat \cup {Old}]
  /\ text \in Nat /\ done \in Nat /\ kept \subseteq Positions
  /\ flushed \in BOOLEAN

\* What a _Write that returned noErr put on the disk stays there, also while
\* its batch is written again and when that fails half way.
Persisted == \A p \in kept : disk[p] = p + 1

\* As long as no _Write failed, every line that was committed is on the disk:
\* "every JSONL line emitted before the hang is on disk".
CommitKeeps == last_err = 0 => \A p \in 0 .. done - 1 : disk[p] = p + 1

\* The file never holds anything but the text, in order, and padding, and
\* nothing is written behind it.
FileIsText ==
  \A p \in Positions :
    disk[p] \in IF p < max_bytes THEN {Old, Pad, p + 1} ELSE {Old}

\* Without an error the text has no holes, even in the middle of a _Write.
NoHoles ==
  last_err = 0 =>
    \A p \in Positions : disk[p] = p + 1 =>
      \A o \in 0 .. p : disk[o] = o + 1

-----------------------------------------------------------------------------
(* The invariant behind the four: each part relates the batch to the disk. *)

Multiple(a, d) == \E n \in 0 .. a : a = n * d

\* A batch that holds anything has its place inside the file.
InFile ==
  /\ Multiple(written, JW_BATCH) /\ written <= max_bytes
  /\ used > 0 => written < max_bytes
  /\ Multiple(moved, SECTOR)

\* The batch continues the text where the disk's batches end.
BatchIsText ==
  /\ writing # "advance" => used < JW_BATCH
  /\ writing = "no" => moved = 0
  /\ writing # "no" => used > 0
  /\ \/ text = written + used
     \/ flushed /\ writing = "no" /\ used = 0 /\ text <= written
  /\ \A o \in Batch : o < used => sector[o] = written + o + 1
  /\ writing # "no" => \A o \in Batch : o >= used => sector[o] = Pad
  /\ writing = "advance" => used = JW_BATCH \/ flushed

\* What the _Write under way has moved is on the disk.
MovedIsBatch ==
  \A o \in Batch : o < moved => disk[written + o] = sector[o]

\* The disk is never ahead of the text, nor the promises ahead of the batch.
NotAhead ==
  /\ done <= text
  /\ \A p \in Positions : disk[p] = p + 1 => p < text
  /\ \A p \in kept : p < written + used

BatchesKept ==
  last_err = 0 => \A p \in Positions :
    p < written /\ p < text => disk[p] = p + 1

\* An inductive invariant of the writer that implies its safety properties.
WriterInv ==
  /\ WriterTypeOK /\ InFile /\ BatchIsText /\ MovedIsBatch /\ NotAhead
  /\ BatchesKept /\ Persisted /\ CommitKeeps /\ FileIsText /\ NoHoles
=============================================================================
