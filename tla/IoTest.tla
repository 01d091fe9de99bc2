------------------------------ MODULE IoTest --------------------------------
(***************************************************************************)
(* The pre-boot disk bench (SingleStepTests/preboot/iotest/diskio_main.c)  *)
(* with its results file: for every size it reads a prepared file, writes  *)
(* a pattern to a scratch file, reads it back and compares, and commits a  *)
(* line of results after the read and after the comparison.  Every call is *)
(* synchronous: the bench waits while the writer's batch is written.       *)
(*                                                                         *)
(* A trap may fail after any number of sectors, by the driver's error or   *)
(* by a CPU exception that trap_with_recovery turns into one; it may also  *)
(* report success and move nothing.                                        *)
(***************************************************************************)
EXTENDS JsonlWriter, Sequences

CONSTANTS
  sizes,        \* g_iotest_sizes: the lengths, in the order of the table
  BITS,         \* bits in a byte (8)
  WORD,         \* bytes in the words the buffer is cleared by (4)
  U32,          \* values of a u32
  IOBUF_BASE,   \* address of the buffer (2 MB)
  MemTops,      \* values of the low-memory global MemTop
  LineLens      \* lengths of a line of results

ASSUME BenchAssumption ==
  /\ sizes \in Seq(Nat) /\ BITS \in Nat /\ WORD \in Nat /\ WORD >= 1
  /\ U32 \in Nat /\ IOBUF_BASE \in 0 .. U32 - 1 /\ LineLens \subseteq Nat
  /\ \A m \in MemTops : m \in 0 .. U32 - 1 /\ m % SECTOR = 0
  /\ IOBUF_BASE % SECTOR = 0

Sizes == 1 .. Len(sizes)

\* A byte is the set of its one bits.
Bits == 0 .. BITS - 1
Byte == SUBSET Bits
Ones == Bits           \* 0xFF

VARIABLES
  step,       \* the next statement of the bench
  i,          \* the row of g_iotest_sizes
  mem_top,
  buf,        \* [0 .. -> bytes], the buffer at IOBUF_BASE
  scratch,    \* [Sizes -> [0 .. -> bytes]]: the scratch files on the disk
  err,        \* result of the last trap
  verified,   \* [Sizes -> {"none", "no", "yes"}], as reported
  left,       \* characters of the line still to be put
  resume      \* the statement after the line is committed

benchVars == <<step, i, mem_top, buf, scratch, err, verified, left, resume>>
vars      == <<writerVars, benchVars>>

sector_round_up(n) ==
  IF n = 0 THEN SECTOR ELSE ((n + SECTOR - 1) \div SECTOR) * SECTOR

Extent(k) == 0 .. sector_round_up(sizes[k]) - 1
Buffer    == UNION {Extent(k) : k \in Sizes}

Bit(n, b) == (n \div 2^b) % 2

\* The byte at offset o of the pattern of row k, i ^ (i >> 8) ^ seed; row k has
\* seed k - 1.  A bit of an exclusive or is one if an odd number of them are.
Pattern(k, o) ==
  {b \in Bits : (Bit(o, b) + Bit(o, b + BITS) + Bit(k - 1, b)) % 2 = 1}

\* The first n bytes of b replaced by those of f.
Overlay(b, f, n) == [o \in DOMAIN b |-> IF o < n THEN f[o] ELSE b[o]]

Go(next) == step' = next /\ UNCHANGED <<i, mem_top, left, resume>>
At(s)    == step = s /\ writing = "no" /\ UNCHANGED writerVars

\* emit_*_line: put the characters, commit, go on at next.
EmitLine(next) ==
  /\ step' = "emit" /\ resume' = next
  /\ left' \in LineLens
  /\ UNCHANGED <<i, mem_top>>

-----------------------------------------------------------------------------
\* Fault: the difference alone is tested, and it wraps.
FaultFits(n) == ~(n > (mem_top - IOBUF_BASE) % U32)

\* The two tests of the RAM check, in u32 arithmetic.
Fits(n) == ~(\/ (IOBUF_BASE + n) % U32 > mem_top
             \/ n > (mem_top - IOBUF_BASE) % U32)

\* Top of the loop: a size that does not fit in RAM gets a line "skip".
NextSize ==
  /\ At("next")
  /\ \/ i < Len(sizes) /\ i' = i + 1 /\ step' = "check"
     \/ i = Len(sizes) /\ i' = i /\ step' = "flush"
  /\ UNCHANGED <<mem_top, buf, scratch, err, verified, left, resume>>

Check ==
  /\ At("check")
  /\ \/ ~Fits(sizes[i]) /\ EmitLine("next")
     \/ Fits(sizes[i]) /\ Go("read")
  /\ UNCHANGED <<buf, scratch, err, verified>>

\* trap_with_recovery(trap_read): from file f to the buffer.
TrapRead(f) ==
  /\ \/ err' = 0 /\ buf' = Overlay(buf, f, sector_round_up(sizes[i]))
     \/ \E n \in Extent(i), e \in {0, 1} :
          /\ n % SECTOR = 0 /\ (e = 0 => n = 0)
          /\ err' = e /\ buf' = Overlay(buf, f, n)
  /\ UNCHANGED scratch

\* trap_with_recovery(trap_write): from the buffer to the scratch file.
TrapWrite ==
  /\ \/ err' = 0 /\ scratch' = [scratch EXCEPT ![i] =
                      Overlay(@, buf, sector_round_up(sizes[i]))]
     \/ \E n \in Extent(i), e \in {0, 1} :
          /\ n % SECTOR = 0 /\ (e = 0 => n = 0)
          /\ err' = e /\ scratch' = [scratch EXCEPT ![i] = Overlay(@, buf, n)]
  /\ UNCHANGED buf

\* The prepared file holds bytes the bench does not look at.
Read ==
  /\ At("read")
  /\ TrapRead([o \in Extent(i) |-> Ones])
  /\ EmitLine("fill")
  /\ UNCHANGED verified

\* fill_pattern
Fill ==
  /\ At("fill")
  /\ buf' = Overlay(buf, [o \in Extent(i) |-> Pattern(i, o)], sizes[i])
  /\ Go("write")
  /\ UNCHANGED <<scratch, err, verified>>

Write == /\ At("write") /\ TrapWrite /\ Go("clear") /\ UNCHANGED verified

\* Fault: the buffer keeps the pattern that was written from it.
FaultClear ==
  /\ At("clear")
  /\ Go("readback")
  /\ UNCHANGED <<buf, scratch, err, verified>>

Clear ==
  /\ At("clear")
  /\ buf' = Overlay(buf, [o \in DOMAIN buf |-> {}],
                    ((sizes[i] + WORD - 1) \div WORD) * WORD)
  /\ Go("readback")
  /\ UNCHANGED <<scratch, err, verified>>

Readback ==
  /\ At("readback")
  /\ TrapRead(scratch[i])
  /\ Go("verify")
  /\ UNCHANGED verified

\* verify_pattern found no mismatch, and the readback succeeded.
Matches(k) == err = 0 /\ \A o \in 0 .. sizes[k] - 1 : buf[o] = Pattern(k, o)

Verify ==
  /\ At("verify")
  /\ verified' = [verified EXCEPT ![i] = IF Matches(i) THEN "yes" ELSE "no"]
  /\ EmitLine("next")
  /\ UNCHANGED <<buf, scratch, err>>

-----------------------------------------------------------------------------
(* The calls of the writer *)

PutChar ==
  /\ step = "emit" /\ left > 0 /\ Ready
  /\ jw_putc \/ (Full /\ UNCHANGED writerVars)
  /\ left' = left - 1
  /\ UNCHANGED <<step, i, mem_top, buf, scratch, err, verified, resume>>

\* Fault: the line is not committed.
FaultCommit ==
  /\ step = "emit" /\ left = 0 /\ Ready
  /\ UNCHANGED writerVars
  /\ step' = resume
  /\ UNCHANGED <<i, mem_top, buf, scratch, err, verified, left, resume>>

Commit ==
  /\ step = "emit" /\ left = 0 /\ Ready
  /\ jw_commit_line
  /\ step' = resume
  /\ UNCHANGED <<i, mem_top, buf, scratch, err, verified, left, resume>>

Flush ==
  /\ step = "flush" /\ Ready
  /\ jw_flush
  /\ Go("done")
  /\ UNCHANGED <<buf, scratch, err, verified>>

Driver == (WriteSector \/ WriteOk \/ WriteFails) /\ UNCHANGED benchVars

\* "Done!" stays on the screen.
Finished == step = "done" /\ writing = "no" /\ UNCHANGED vars

\* The scratch files hold random bytes in a new image, and the patterns in
\* one that was used before.
Init ==
  /\ jw_init
  /\ step = "next" /\ i = 0 /\ mem_top \in MemTops
  /\ buf = [o \in Buffer |-> Ones]
  /\ \/ scratch = [k \in Sizes |-> [o \in Extent(k) |-> Ones]]
     \/ scratch = [k \in Sizes |-> [o \in Extent(k) |-> Pattern(k, o)]]
  /\ err = 0 /\ verified = [k \in Sizes |-> "none"]
  /\ left = 0 /\ resume = "next"

Next ==
  \/ NextSize \/ Check \/ Read \/ Fill \/ Write \/ Clear \/ Readback \/ Verify
  \/ PutChar \/ Commit \/ Flush \/ Driver \/ Finished

Spec == Init /\ [][Next]_vars

-----------------------------------------------------------------------------
TypeOK ==
  /\ WriterTypeOK
  /\ step \in {"next", "check", "read", "fill", "write", "clear", "readback",
               "verify", "emit", "flush", "done"}
  /\ i \in 0 .. Len(sizes) /\ mem_top \in MemTops
  /\ buf \in [Buffer -> Byte]
  /\ DOMAIN scratch = Sizes /\ \A k \in Sizes : scratch[k] \in [Extent(k) -> Byte]
  /\ err \in {0, 1} /\ verified \in [Sizes -> {"none", "no", "yes"}]
  /\ left \in Nat

\* The pattern of row k is not what the cleared buffer holds.  It is for a row
\* of one byte with seed 0, the first of g_iotest_sizes.
Telling(k) == \E o \in 0 .. sizes[k] - 1 : Pattern(k, o) # {}

\* A size whose pattern is not all zeros is reported as verified only if its
\* scratch file holds the pattern: neither the cleared buffer (a readback that
\* moved nothing and said noErr) nor what a failed readback moved passes for it.
VerifiedHolds ==
  \A k \in Sizes : verified[k] = "yes" /\ Telling(k) =>
    \A o \in 0 .. sizes[k] - 1 : scratch[k][o] = Pattern(k, o)

\* No transfer, rounded up to whole sectors, reaches past the end of RAM.
BufferInRam ==
  step \in {"read", "write", "readback"} =>
    IOBUF_BASE + sector_round_up(sizes[i]) <= mem_top

\* When the bench has gone on after a line, the line is on the disk, unless a
\* _Write failed: a hang in the next step leaves the results so far.
LinesSurvive ==
  last_err = 0 /\ writing = "no" /\ step # "emit" =>
    \A p \in 0 .. text - 1 : disk[p] = p + 1
=============================================================================
