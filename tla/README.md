# Verification of the MacIIvi core

TLA+ models of parts of the MacIIvi_MiSTer core and of the C and C++ programs
that exercise it, TLC runs on small instances, and TLAPS proofs. Source paths are relative to the repository root. The RTL is
synchronous: a step of a model is one clock edge on which every register takes
its next value, and the nondeterminism is in what the outside does on that edge
(the Mac, the HPS, i.e. the ARM side of MiSTer, and the Egret firmware). Where
engines run many clocks apart (Toolbox) or one statement after the other (the C
and C++ programs) a step is one move of one of them.

## 1. The system

| component | state | operations and interaction |
|---|---|---|
| SCSI target (`rtl/scsi.v`, one per disk, one CD-ROM) | bus phase, CDB, `data_cnt`, READ ring counters, WRITE double buffer, Toolbox FSM | selected and clocked by the NCR 5380's ACK; fetches and flushes sectors over an HPS slot (request, ack rise, words, ack fall) |
| sector buffer (`scsi_dpram`) | RAM, look-ahead registers | port A belongs to the HPS, port B to the Mac; serves three bytes at once |
| NCR 5380 (`rtl/ncr5380.sv`) | registers, pseudo-DMA latches, ACK train, settle counter, IRQ | turns a 1, 2 or 4 byte bus cycle of the 68030 into ACK pulses; DREQ gates DTACK |
| CD audio (`rtl/cd_audio.sv`) | TOC, play state, frame ping-pong | fetches TOC and audio frames over the CD-ROM target's HPS slot when granted |
| PRAM persistence (`MacIIvi.sv`) | load/save/clear FSM, pending latches, ready gate, reset pulse | loads on mount, saves when the OSD opens, clears on request; holds and releases the boot |
| Egret (`rtl/egret/`) | 68HC05, working RAM, `pram[]`, reset latch | copies `pram[]` to its RAM at boot, mirrors the firmware's writes, holds the 68030 in reset |
| ADB, PS/2 (`rtl/adb*.sv`, `rtl/ps2_*`) | device registers, key queue | polled by the Egret |
| VIA, pseudo-VIA | timers, shift register, interrupt flags | interrupts to the 68030; byte protocol with the Egret |
| SCC, SWIM/floppy, ASC | FIFOs, mode registers, interrupts | register accesses of the 68030 against a serial, disk or sample clock |
| SDRAM, address and data controllers | bus slots, DTACK and BERR counters | arbitrate CPU, video and HPS downloads |
| NuBus arbiter, video cards, V8 video | timeouts, frame buffers, timing | memory mapped |
| 68030, PMMU, caches (`rtl/tg68k`) | processor | everything else's client |
| simulated block device (`verilator/sim/sim_blkdevice.cpp`) | current disk, shared delay counter, transfer flags, mount queue | plays the HPS for the simulation: mounts images, serves the request lines of all targets |
| SCSI bench (`verilator/scsi_bench`) | HPS states, Toolbox handler mirror | plays the HPS and the Mac for the target's tests |
| results writer (`SingleStepTests/preboot/common/runtime/jsonl_writer.c`) | batch, count written, error | rewrites the current batch of a preallocated file on every committed line |
| disk bench (`SingleStepTests/preboot/iotest/diskio_main.c`) | row, I/O buffer, last error | reads, writes and compares through the driver, with exception recovery; reports through the writer |

What is hard here: several state machines updated on the same edge with a
last-assignment-wins rule; an HPS that answers a request milliseconds later and
does not notice that the request was withdrawn; bus resets, media changes and
machine resets in the middle of a transfer; a channel shared by two engines; a
RAM port shared by stolen cycles; watchdogs that race the late answer.

What makes the parts correct: a READ gives the host its own sectors, in order,
once each, and ends; a WRITE reaches the image once, whole; DREQ means the
presented bytes are valid; the PRAM the firmware works on, `pram[]` and the
image agree; the boot is always released; an empty slot ends in a bus error; a
FIFO neither loses nor repeats; a Toolbox chunk reported good is in the file; a
line of results that was committed survives a hang.

`PROJECT.json` lists every component with its status, the hazards with the lines
where they bite, and the source lines each definition models.

## 2. Modules

### ScsiReadRing: the READ path of a target

State: the target's phase, `mounted`, the latched `lba` and `tlen`, `data_cnt`
split into sector index `blk` (`rd_cur_blk`) and offset `off`, the fetch engine
(`io_rd_d`, `rd_busy`, `old_io_ack`, `rd_hps_blk`), what each ring slot holds
(a sector is its LBA), the HPS channel, and the part of the CD-audio engine that
asks for it: `mst` (with the states that build the tables as `M_BUILD` and those of
commands and of the position as `M_CMD`), `blob_blk`, `toc_ready`, `fst`, and `ca_rd`
for `toc_rd | fr_rd`.

* `io_busy`, `req`, `rd_ring_space`, `req_rd`, `ca_grant` are the wires of the
  same names.
* `Clock` is every register the host does not own: `IoEngine` (with the clear of
  `rd_busy` last, as in the code), `RingCounter`, `LbaCounter`, one move of the
  HPS (`HpsTake`, `HpsRise`, `HpsFall`) and one of each FSM of the audio engine.
* The audio engine: `TocMove` acquires the two blocks of a disc's TOC, each when the
  target grants the channel, after a mount report or as long as it has none;
  `FrameMove` fetches a frame when the channel is granted and the master FSM rests.
  Playback is free: a frame may be queued on any clock on which the disc is in and its
  TOC known, in a READ too, and dropped again (`flush`); the master FSM may be away in
  `M_BUILD` or `M_CMD` for any time. So a TOC block or a frame may wait, be granted
  between any two sectors of a READ, or be requested on the very edge of the ring's
  own request. A mount report comes with a change of the medium (`Pulses`), inside a
  READ only with its removal unless `MediaReturn`.
* The host's operations: `Select`, `Command`, `Take(n)` (one pseudo-DMA read of
  1, 2 or 4 bytes; all bytes are captured at its end and the ACK train then
  advances `data_cnt`), `EndData`, `LastBytes`, `BusReset` (on any edge), `Wait`.
* HPS behaviour is external: it takes the address with the request, answers at
  any later time, and does not look at the request again.

`ReadStream` is what a READ promises: an in-order stream of the command's
sectors, or an abort. `ImplementsStream` is the refinement.

### ScsiWriteFlush: the WRITE path of a disk target

State: phase, `lba`, `tlen`, `data_cnt` as `blk` and `off`, the flush engine
(`io_wr`, `wr_pending`, `old_wr`, `old_io_ack`, `sd_buff_sel`), the two halves of
the double buffer (a byte is the sector it belongs to), the HPS channel, and the
image, of which only the sectors of the running command are kept.

* `io_busy`, `req`, `req_wr` are the wires of the same names; `flush_busy` is the
  part the two clauses of `io_busy` share.
* `Clock` is the flush engine (the issue of a flush is the last assignment),
  `BufferSelect` and one move of the HPS, which reads the selected half byte by
  byte and writes the sector when it drops its ack.
* `Store(n)` is the Mac's pseudo-DMA write of 1 or 2 bytes: it needs REQ, and its
  ACK pulses (`Beat`) then come whatever REQ does. `Straddle` says whether a word
  may start at the last byte of a sector.

`WriteStream` is what a WRITE promises: its sectors reach the image whole, in
order, each at its place, all before it is done. `ImplementsStream` is the
refinement; the abstract transfer lasts until the last flush has been counted.

### ScsiDpram: one lane of the sector buffer

RAM, the three outputs `q_b`, `q_c`, `q_d`, and the prefetch controller. A read
of a word port A is writing returns the old or the new byte (the RAM is built
with `no_rw_check`). `Next` drives the ports as the target does: the HPS fills
the ring slot behind the delivered sectors, the Mac moves over delivered words
or stores at its own address, its strobes at least `GAP` clocks apart.
(The random phase of `verilator/tb_scsi_pf.v` drives them more freely than that.)

### PramStore: PRAM persistence

One action per state of the FSM (`Idle` ... `StartReset`), conjoined on each edge
with the registers around it (`Dirty`, `Latches`, `ReadyGate`, `ResetPulse`), the
Egret side (`Egret`: `pram[]`, boot-copy, mirror, reset latch), the staging
buffer and one move of the HPS. Outside events: `Mount`, `Unmount`, `OsdOpen`,
`ResetPram`, `Store`. `synced` is a history variable used only by a property.

### ScsiToolbox: the Toolbox round trip

State: the target's phase and `data_cnt`, the command block, the registers of the
round-trip FSM under their own names, the ring of sectors (a unit of data is what
was stored there: kind, command, index), the HPS (idle, taken, ack, moved) and the
handler's files, and the Mac's account of its upload.

* `tb_col_stall`, `tb_ship_pending`, `tb_get_stall`, `tb_nsec`, `tb_srv_len` are the
  wires of the same names; `NextSlot` is the rotation of the payload ring.
* The Mac: `GetFile`, `SendPrep`, `SendData`, `SendEnd` (COUNT, LIST and the CD
  changer differ from these in the handler only), then `PutUnit`, `EndPayload`,
  `Handoff`, `TakeUnit`, `AbortServe`, `EndCommand`.
* The FSM: `Arm`, `ShipNext`, `ShipLast`, `Load`, `Latch2`, `FetchNext`, `Retire`, and
  `AckFall`, what each state makes of the end of a transfer. `Rearm`, `ShipGiveUp`,
  `FetchGiveUp` and `StatTimeout` are the watchdogs; they may fire at any time.
* The HPS, from its mirror in `scsi_bench.cpp`: `Poll` takes the live request (the
  deferred-latch model of the bench), `Raise`, `TakeBlock` (with `Run`, the handler),
  `GiveBlock`, `Drop`. The tails of an earlier chunk are never cleared.
* `TBS_REQ2` is left out: no assignment of the code leads to it.

### SimBlockDevice: the simulation's HPS

`BeforeEval` statement by statement: for each disk in turn `Transfer`, `Mount`,
`Pickup`, `Acknowledge`; after the last disk the core's clock edge (`Quiet`,
`Request`, `ReadToc`, `BusReset`). `q` is the core's buffer output, one edge behind
its address. `HpsChannel` is what the targets rely on: one transfer at a time, its
words from and to their places, an ack only around data. `ImplementsChannel` is the
refinement. Images present at start-up only; `ReadToc` is the fetch a CD target
out of reset makes while the mount pulse is still up (see the end of section 4).

### JsonlWriter and IoTest: the pre-boot disk bench

`JsonlWriter` has an action per call (`jw_putc`, `jw_commit_line`, `jw_flush`) and per
sector of the driver's write (`WriteSector`, `WriteOk`, `WriteFails`); a character is
its number in the text, so that order, loss and holes show. A hang or power-off
is any state. `IoTest` extends it: the loop of `bench_main` statement by statement,
u32 arithmetic in the RAM check (`Fits`), traps that fail after any sector or that
succeed and store nothing, and the result lines. A byte is the set of its one bits, so
that the exclusive or of the pattern is exact (`BITS` is 8 in the code, 2 in the run). It is the build that writes
(`IOTEST_READ_ONLY` leaves out the second half of the loop).

`MCReadRing`, `MCWrite`, `MCDpram`, `MCPram`, `MCToolbox`, `MCSimDisk`, `MCIoTest`
instantiate them for TLC; the operators commented "Fault" are the faulty variants
used to test the properties.

## 3. Runs

| run | expect | shows |
|---|---|---|
| `ring_disk` | pass | disk target, bus resets at any time: offered bytes are right (`ServedValid`), no unread sector is overwritten (`UnreadKept`), the fetch address tracks the ring (`LbaTracksRing`), every READ ends (`ReadCompletes`), the stream is implemented (`ImplementsStream`), and `RingInv`, which implies the frontier and that exactly the command's sectors are fetched, holds |
| `ring_cd` | pass | CD-ROM target with the audio engine fetching TOC blocks and frames between the sectors of a READ on the same channel, the disc removed at any clock and inserted again between READs: every READ ends |
| `ring_cd_lba` | violation | an audio ack that falls inside a READ advances the READ's fetch address |
| `pram_service` | pass | loads, saves, clears, mounts and stores in every order: `WorkingCopy`, `CleanIsSaved`, `SaveWritesPram`, and requests are served (`FlushServed`, `ClearResets`) |
| `pram_boot` | pass | the boot is released whatever the HPS does (`BootReleased`) |
| `dpram` | pass | with the target's access pattern the three outputs are right `SETTLE` clocks after a strobe |
| `write` | pass | accesses inside a sector, bus resets at any time: no half is refilled before it is flushed (`SectorsWhole`), status only after the last sector is in the image (`StatusMeansWritten`), every WRITE ends (`WriteCompletes`), the stream is implemented (`ImplementsStream`), and `WriteInv`, which implies that no flush is left on an idle bus, holds |
| `toolbox` | pass | transfers longer than the ring, late polls, watchdogs and exhausted budgets, bus resets: the response served is the command's own (`ServedFresh`) and whole if GOOD (`GetWhole`), the collect never laps an unshipped sector (`UnshippedKept`), an ack edge is never counted for another request (`AckOwned`), of a chunk reported GOOD all that the target took from the Mac is in the file (`FileMatches`), every command ends (`CommandEnds`) |
| `toolbox_late` | violation | the status read that is given up is answered in the next command |
| `toolbox_offset` | violation | a one-block chunk after larger ones is written at the client's chunk number |
| `sim_disk` | pass | three disks mounted at start-up, requests of several targets, resets: the channel is implemented (`ImplementsChannel`), requests are answered (`Answered`), mounts reported (`MountsReported`) |
| `iotest` | pass | four memory sizes, traps that fail or succeed and move nothing, failing batch writes: `VerifiedHolds` (for the rows whose pattern is not all zeros, section 4), `BufferInRam`, and of the results file `Persisted`, `LinesSurvive`, `WriterInv` |

### Bounds

* Ring: 2 slots, sectors of 5 bytes (odd, so that a longword straddles sectors at
  every alignment; 4 on the CD), lengths 0, 1 and 4 (zero length, shorter than
  the ring, wrapping it twice), two addresses so that a stale sector of another
  command can be told apart. `BLK_SPACE` keeps the subtraction unsigned.
* WRITE: sectors of 3 bytes (the shortest in which a word can start at the first,
  at the last, and at neither end of a sector), lengths 0, 1 and 4 (each half is
  refilled), two addresses.
* On the CD a READ of 3 sectors (longer than the ring), so that a fetch of the audio
  engine falls before, between and after its sectors. `LBA_SPACE` = 1: the audio acks
  make the address register drift (`ring_cd_lba`), and whether a READ ends does not
  depend on addresses, so `ring_cd` does not tell sectors apart (`ring_cd_lba` has 16
  addresses). TLC found each of these reachable in the instance: the second TOC block
  on the edge of a ring request, a frame between two sectors, a frame on the edge of a
  ring request, a frame queued while the TOC is fetched.
* PRAM: 2 bytes (a first and a last), watchdog 3, one re-kick, a reset pulse of
  2 clocks, 3 outside events (mount, store, OSD is a complete save; mount, clear
  and OSD a complete clear). The backstop is 0 where the boot is released
  before any load, 8 or 12 where it races one.
* Sector buffer: two sectors of three words (an access spans both; `address_d`
  wraps), two byte values. `GAP` = 4 is the shortest distance of two strobes of
  the ACK train in clocks; `SETTLE` = 7 is what `dma_settle` leaves after
  `data_cnt` has moved. TLC finds the property to hold from 5 clocks on on this
  instance; 7 is proved to be enough for every sector size and number (section 5).
* Toolbox: a ring of 4 sectors of 3 units (the payload ring has 3 slots; the head of
  a request block is one unit, so a chunk is never aligned to sectors), chunks of 4
  blocks (the payload ring is refilled) and legacy chunks of 1 to 3 units,
  responses of 0, 1, 13 and 16 units (nothing; one sector; one that goes once around
  the ring; one past the limit of 5 sectors), one re-arm and one re-look,
  3 commands (prepare and two chunks; a GET between them). The behaviour ends after
  the last command, so deadlock is not checked.
* Simulated disk: blocks of 2 words, three disks, two addresses, a latency of 2
  clocks. The mount delay is 12: the pulse ends while no transfer is under way, as it
  does with the 1200 clocks of the code and its transfers (last row of the table in 4).
* Disk bench: three sizes (one byte, and two that end inside their second sector, one
  with a zero as its last byte), sectors of 2 bytes, batches of 4, lines of 3 and 4 (one ends
  where a batch does), a file of 8 (two batches, as in the code)
  that the lines overfill, a 32-value u32 with the buffer at 8 and memory ends below, at and
  above it.

### Fairness

The clock runs (weak fairness of `Wait` with the medium left alone, `EndData`, `LastBytes`, `Tick`). The HPS
finishes what it has taken and polls its request lines (weak fairness of its
moves); `pram_boot` does without. The driver of an accepted READ keeps taking
bytes: strong fairness of `Take(1)`, because REQ may drop in between; it is a
polling loop or a stalled bus cycle of the 68030; the same of `Store(1)` in a
WRITE, and an accepted access is finished (weak fairness of `Beat`). Nothing is assumed of
selection, resets, media changes, or of when the audio engine asks; its registers are
clocked like the others.
In `toolbox` the Mac goes on with a transfer it has begun, the FSM steps, and the
HPS comes back to its poll loop and finishes a transfer (weak fairness of each);
without the last `TBS_REQ`, which has no watchdog, waits forever. In `sim_disk` every
simulated clock runs `BeforeEval` to its end and evaluates the core.

## 4. What the violations mean

`ring_cd_lba`, `toolbox_late` and `toolbox_offset` each show a disagreement between
the code and a sentence of the repository, quoted in `PROJECT.json`. The passing runs
assume the absence of such a case by a constant; set it otherwise in the cfg named
to see the counterexample:

| cfg and change | fails | the code, and what the repository says |
|---|---|---|
| `toolbox`: `LateStatus = TRUE` | `FileMatches` | run `toolbox_late` |
| `toolbox`: `Chunks = {1, 2}`, `MixedChunks = TRUE` | `FileMatches` | run `toolbox_offset` |
| `toolbox`: `FileMatches` over all of `Valid(c)` | `FileMatches` | the payload watchdog closes the data phase of a SEND DATA at any count after 2 ms without an ACK (`rtl/scsi.v:2353-2367`); of a chunk in which the Mac paused that long the rest is written from what an earlier chunk left in the handler's tails, and reported GOOD. Lines 2350-2352 say "let the HPS write the count the CDB gave it. Never fires on a client that sends the full block.", true only of one that never pauses |
| `ring_disk`: `LateAnswers = TRUE` | `ServedValid` | a reset clears `io_rd_d` and `rd_busy` (`rtl/scsi.v:1830`), but the HPS still answers a fetch it has taken, and its ack counts for the next READ; line 1823 says "A SCSI bus reset aborts any in-flight/queued disk IO." |
| `ring_cd`: `MediaReturn = TRUE` | `ReadCompletes` | the disc is removed inside a READ, the host runs past the fetch frontier, and another image is mounted: `rd_ring_space` wraps, no sector is requested again, and REQ waits for one until a bus reset (`rtl/scsi.v:1800`); lines 1795-1797 say "rd_hps_blk >= rd_cur_blk is invariant" and lines 430-434 mean to exclude the wait |
| `write`: `Straddle = TRUE` | `SectorsWhole` | `io_busy` tests the half of the current byte only (`rtl/scsi.v:471`) and the ACK train of a word does not look at REQ between its beats (`rtl/ncr5380.sv:345-363`); the second byte of a word across two sectors is stored into a half that is being flushed, what lines 436-440 mean to exclude |
| `pram_service`: `WritesDuringSave = TRUE`, `MaxEvents = 4` | `CleanIsSaved` | `P_SV_DAT` clears `pram_dirty` although the firmware stored after the capture (`MacIIvi.sv:517`); line 364 says "PRAM changed since last save" |
| `pram_service`: `RDY_MAX = 8`, `MaxEvents = 1`, `WritesDuringSave = TRUE` | `WorkingCopy` | `pram_restart_after_load` samples `pram_ready` on the edge on which the backstop sets it (`MacIIvi.sv:486`); line 380 says "both orders safe" |
| `pram_service`: `LateAnswers = TRUE` | `CleanIsSaved` | the late answer to a load the watchdog abandoned is taken for a save's, which then ends with nothing written (`MacIIvi.sv:514`) |
| `iotest`: `VerifiedHolds` without `Telling(k)` | `VerifiedHolds` | the pattern of the first row (1 byte, seed 0) is the byte 0 the buffer is cleared to, so a readback that reports noErr and moves nothing is reported as verified; `diskio_main.c:691` says "Clear the buffer so we know readback isn't a false match." |
| `sim_disk`: `MOUNT_DELAY = 9` (or 18, 21) | `ImplementsChannel` | the countdown of the mount pulse ends inside a transfer and the disk is acknowledged without data (`sim_blkdevice.cpp:146-150`); the constants in the code do not meet this case |

With `MediaLoss = TRUE` in `ring_disk`, `ServedValid` and `LbaTracksRing` hold (section 5
proves both), and a READ whose medium is removed does pass the fetch frontier, against `rtl/scsi.v:1795-1797`.
With the random port traffic of `verilator/tb_scsi_pf.v` the abort in `PF_RDC`
(`rtl/scsi.v:3430`) can leave `q_c` wrong, which the target's own traffic does not
reach (`dpram`). The `wr_pending` term of `io_busy` (lines 436-443) is needed by the
status clause: without it `StatusMeansWritten` fails, while `SectorsWhole` still
holds for accesses inside a sector. The ring and the audio engine can request on
the same edge, against `rtl/scsi.v:1812-1814` (`~RequestorsDisjoint` is reachable, and
`ring_cd` shows that READs still end).

Three smaller restrictions. `ScsiWriteFlush.Select` needs the HPS idle, which
`rtl/scsi.v:2712` does not test: a flush that a reset aborted is answered before the next
command. With `LateAnswers = FALSE` the HPS of `PramStore` moves on every clock between
the pick-up of a request and the fall of its ack, in saves as in loads. The TOC address
of the code is always 0x7FFF0000 (`rtl/cd_audio.sv:132`), whose int product
`DeviceAssumption` excludes; `SimBlockDevice.ReadToc` reads one of `LBAs` instead. And
`cd_audio` is held in reset with the machine (`verilator/sim.v:143-156`,
`rtl/ncr5380.sv:722`), for 2^16 clocks, so in the simulator its request comes after the
start-up pulses, when it is one of `Request`; `ReadToc` adds one that comes while they
last, the case the shared counter is exposed to.

Hazards no property reaches: the watchdog's look at a status block that is being
filled, with the status of the new block and the length of the old (`rtl/scsi.v:1583`:
the model moves the block in one step); an ack that rises in the nine clocks in which
`TBS_LATCH` settles (1592); a bus reset while the HPS is in a Toolbox transfer (1398:
the model resets with the HPS idle); a retry of a failed chunk, for which
`tb_send_pos` has already advanced (1531: the client's retry policy is not in the
repository); a mount of another image during a save (`MacIIvi.sv:450`); REQ hidden
until the host has polled CSR (`rtl/ncr5380.sv:564`); a latency of 0 on the simulator's
command line (`sim_blkdevice.cpp:46`) and the int product of line 167; an exception in
the writer's own `_Write`, which runs outside `setjmp` (`diskio_main.c:211`); several
periods of the one-shot timer within one transfer, which its flag counts as one
(`iotest/timing.c:80`); results of an earlier run behind the current batch.

## 5. Proofs

`ScsiReadRingProofs` proves, for every ring size, sector size, address set and
length set that satisfies `RingAssumption` (which asks of a disk that the last sector of
a READ has an address), in three steps. On every target, the CD-ROM
and late answers included:

* `ReadPathTypes`: `TypeOK`.

Under `DiskDrive` (not the CD-ROM, drained aborts; the medium may be removed and put back
at any time):

* `ServedAcrossLoss`: `ServedValid`;
* `FetchAddressTracks`: `LbaTracksRing`;
* `UnreadSectorsKept`: `UnreadKept`.

Under `DiskTarget` (and the medium stays in):

* `RingInvariant`: `Spec => []RingInv`;
* `ReadPathSafe`: `ServedValid`, `FetchFrontier`, `FetchExact`, `LbaTracksRing`;
* `ReadImplementsStream`: `ImplementsStream`.

None of the properties is inductive alone. Whether a slot holds the right sector
depends on where the one outstanding fetch is, so `RingInv` adds `FetchStage`
(the four stages of a fetch and the address the HPS holds in each), `Cursors`
(frontier and host position differ by at most the ring; a busy engine has room
for what it fetches) and `RingContent` (each delivered, undrained sector is in
its slot). The proof is one step per action, and under it the stage of the fetch
and the content of the ring; a lemma on residues shows that two of
`RING_BLOCKS` consecutive sectors never share a slot. The refinement maps phases
to the abstract states and cites `RingInv` for the captured sectors.

Without its medium a READ runs past the fetch frontier and can end with a fetch
outstanding, so `RingInv` does not survive a removal. What does is `DriveInv`: the same
stages, address and content, with the frontier bounded on one side only
(`DriveCursors`), and a status phase that may wait for the last fetch (`Pending`).
`RingInv` is `DriveInv` and `Steady` (the medium is in, the host is behind the
frontier, status comes with the engine quiet); the one step `Steady` turns on is
`TakeBehind`: REQ was up, so the sector three bytes ahead had been delivered.

`ScsiWriteFlushProofs` proves, for every sector size of at least 2 bytes, address
set and length set, and under `Aligned` (`Straddle = FALSE`):

* `WriteInvariant`: `Spec => []WriteInv`;
* `WritePathSafe`: `StatusMeansWritten`, `SectorsWhole`, `FlushDrained`;
* `WritePathTypes` and `SectorsStayWhole`: `TypeOK` and `SectorsWhole` by themselves;
* `WriteImplementsStream`: `ImplementsStream`.

`WriteInv` needs an account of the sectors: a complete sector is flushed, being
flushed, waiting (`wr_pending`) or just complete and not noticed (`NewBlock`), and
these add up to `blk` (`Accounts`); the host is inside a sector, or has an access
under way, only if it is at most one sector ahead of the image. `FlushStage` is
the stage of the one outstanding flush and `Contents` says what halves, HPS and
image hold. The heart of the proof is `StoreStep`: with REQ up while a flush is
running, the parity test of `io_busy` excludes a second unflushed sector, and
`BeatStep`: a byte stored then never falls into the half being read. The step
of a clock edge without the host (`FlushStep`, `LandStep`) is proved once, by
stages, and used by every action.

`IoTestProofs` proves of the results writer, for every sector size, batch of whole
sectors and file of whole batches:

* `WriterInvariant`: `WriterSpec => []WriterInv`;
* `CommittedLinesSurvive`: `Persisted` and `CommitKeeps`, what a commit has put on the
  disk stays there through every later write of the same batch;
* `FileHoldsText`: `FileIsText` and `NoHoles`.

`WriterInv` relates the batch to the disk: its place is inside the file (`InFile`), it
continues the text (`BatchIsText`), the part a running write has moved equals it
(`MovedIsBatch`), the disk is never ahead of the text (`NotAhead`), and full batches are
on the disk (`BatchesKept`). That a rewrite over old lines is harmless at every sector
follows because a batch only grows between two writes of it.

Of the bench it proves, besides for every table of sizes, memory size, width of a byte
and length of a line:

* `BenchUsesWriter`: `Spec => WriterSpec`, so the three results above hold of the file
  the bench leaves;
* `BenchTypes`, `VerifiedOnDisk` and `LinesOnDisk`: `TypeOK`, `VerifiedHolds` and
  `LinesSurvive`;
* `TransfersInRam`: `BufferInRam`, under `Addressable`: no size is 0 and none wraps 32 bits
  at the base of the buffer. `sizes.h` has 1 byte to 4 MB at 2 MB; a size of 0 would be
  rounded up to a sector that the RAM check does not look at, and one that wraps passes
  both of its tests.

`BenchInv` carries the RAM check to the traps that rely on it (`Fitted`), says that a
readback starts from a cleared buffer and that one that succeeded has copied the scratch
file over it or left it cleared (`Copied`), that the rows ahead have
no verdict yet (`Rows`: the file of a verified row is not written again), and that a line
is committed, or its commit is running, when the bench leaves it (`Committed`). What the
pattern of a row is does not matter to the proofs, only that both sides use the same.

`PramStoreProofs` proves, for every PRAM size, watchdog of at least 2 clocks, number of
re-kicks, backstop and length of the reset pulse:

* `PramTypes`: `TypeOK`;
* `WorkingCopyKept`: `WorkingCopy`, in every behaviour whose steps satisfy
  `NoReleaseRace`: the backstop does not set `pram_ready` on the very edge on which a
  load's sector is complete (the case of the table in 4 with `RDY_MAX = 8`);
* `CleanImageSaved` and `SavesThePram`: `CleanIsSaved` and `SaveWritesPram`, under
  `QuietSave` (`WritesDuringSave` and `LateAnswers` are `FALSE`; the table has both
  cases).

`CopyInv` says why a load may run beside the firmware's boot copy: a load that does
not restart the machine began before the boot was released, and the copy index stays
below the cell the load writes next (`Landing`), so what is copied is already loaded.
`SaveInv` places the HPS in each state of the FSM (`Stages`: an answer comes in the
state that waits for it), and says what the staging buffer (`BufferHolds`) and the
image (`ImageHolds`) hold there; the write to `pram[]` that is one clock behind the FSM
is accounted for by `Applied`. `CleanIsSaved` alone is not inductive: whether the image
is right when `P_SV_DAT` clears `pram_dirty` depends on what `P_FILL` captured.

`ScsiToolboxProofs` and `ScsiToolboxFileProofs` prove, for every ring size, sector size
and header, set of response lengths and of chunks, limit of re-arms and number of
commands that satisfies `ToolboxAssumption`, under `Prompt` (`LateStatus = FALSE`; run `toolbox_late` is the other case):

* `AckEdgesOwned`: `AckOwned`;
* `ResponseFresh` and `ResponseWhole`: `ServedFresh` and `GetWhole`;
* `PayloadKept`: `UnshippedKept`;
* `UploadFaithful`: `FileMatches`, under `Uniform` besides (`MixedChunks = FALSE`; run
  `toolbox_offset` is the other case). The payload watchdog may close a chunk at any
  unit: the theorem is about the units the target took, which is the whole chunk unless
  it did;
* `ToolboxTypes`: `TypeOK` with the limits of the counters and of the cells, under
  `Uniform` and `Sized` besides: the ring is not deeper than the longest response (16 and
  128 sectors in the code) and there are finitely many lengths (17 bits).

The request and the status block are both LBA 0 in slot 0, so an ack says nothing by
itself; `LineInv` says which line is up in which state (`LinesOwned`) and that the CDB
stands in slot 0 until the status block is moved (`StatusRead`). `GetInv` follows the
response: from the moment the HPS has run the command, what it answers and what the
core latches is this command's (`Answered`), the fetch in hand stays within a ring of
what is served (`Fetching`), and every sector fetched and not yet served is in its slot
(`Resident`). `CollectInv` does the same for the payload on its way out. The file needs the
whole path at once: the client's chunks and the offset the FSM keeps (`UploadInv`), each
payload unit either in the ring, in the tail of the request block or with the HPS
(`PayloadInv`), and the file and the status that reports it (`StoredInv`). All three
follow a chunk up to the unit the phase was closed at (`client.sent`, recorded by
`EndPayload`); beyond it the blocks shipped, the tails and the file hold what was there
before, of which nothing is claimed. `Uniform` is
used where the client picks the next chunk: the chunks of an upload are all of one block,
whose number is the offset, or all of several, whose offset `tb_send_pos` keeps.
`LimitInv` bounds what the counters reach: it needs `GetInv` for the fetch (address, sector
and count move together, and `tb_nsec` is at most the limit), `CollectInv` and `ShipAt` for
the payload (the sector collected is that of the linear place, the sector shipped is the
next), and `UploadInv` for the offset in the CDB, which is at most the client's position.

`ScsiDpramProofs` proves, for every number of sectors, byte set and sectors of at least
two words, under `Paced` (strobes at least 4 clocks apart, outputs read 7 clocks after
one; both are the figures of the code, see Bounds):

* `DpramTypes`: `TypeOK`;
* `OutputsSettle`: `Settled`.

`Settled` speaks of one moment; the invariant counts towards it. `Due` is the number of
clocks until the three outputs are right if no write comes in the way, and `OnTime`
says that `Due` and the clocks since the last strobe never exceed 7 while no write can
be in the way (`Calm`); a noticed write (`pf_snooped`) sets the account back to a full
fetch. `Near` says that the prefetch stays in the sectors the Mac is given, with one
exception of a single clock when it leaves a sector (`Leaving`), so a fill of the HPS
never meets it. `Data` says what the registers hold.

`SimBlockDeviceProofs` proves, for every number of disks, mount delay, latency, address
set and sectors of at least two words (`Sectored`; with one word the transfer is over
in the visit that raises the ack):

* `SimTypes`: `TypeOK`;
* `ChannelKept`: `ImplementsChannel`, in every behaviour without `FalseEnd`: the shared
  counter never reads 1 on the current disk while no transfer is under way (the last
  row of the table in 4 is the other case);
* `SimImplementsChannel`: `ImplementsChannel` with no such hypothesis, under `Timed`: if
  a disc is in the CD drive, the pulse that reports it outlasts the wait for the CD
  target's first request, and what is then left of it (`Lead`) is neither 0 nor 1 modulo
  `VDNUM + 1`. With the code's 1200, 10 disks and 2 clock edges it is 1170, which is 4
  modulo 11; in `sim_disk` it is 3, and 3 modulo 4. The values 9, 18 and 21 of the
  table in 4 are the ones `Timed` excludes.

`SimInv` relates the transfer to the visits of the disks: only the current disk is
acknowledged (`Acks`), the words moved are a prefix of the sector at their places
(`Moved`), before the ack at most one word moves (`Early`), and a write finds the core's
output at the word it stores (`Shown`). `Starting` discharges `FalseEnd`. The
computer is still starting while the mount pulses last, and only the CD target reads by
itself (its table of contents), so the invariant follows the CD's pulse: before the
request is found every visit has counted one tick (`Waiting`); then the CD is the current
disk and a round of visits takes `VDNUM + 1` ticks, so the counter's value on the CD's
own visit is `Lead` modulo that (`Queued`, `Beat`), and it neither ends the pulse there
nor reads 1 when the visit acknowledges; the transfer that begins at 0 ends the pulse
with its first word (`Begun`). Under the other pulses nobody asks (`OtherPulse`), and
after the last one at most its last tick is left over (`AllMounted`). TLC checked the
invariant with the CD in each place among three disks, with and without a disc.

Only model-checked:

* liveness (`ReadCompletes`, `WriteCompletes`, `FlushServed`, `ClearResets`,
  `BootReleased`, `CommandEnds`, `Answered`, `MountsReported`), which the prover does
  not do;
* the CD-ROM target beyond its types, and the cases the hypotheses above exclude.

## 6. Plan

1. Done: READ ring, WRITE flush, sector buffer, PRAM persistence, Toolbox round
   trip, simulated block device, results writer and disk bench; proofs of every
   invariant, action property and refinement the passing runs check.
2. Proofs left: the READ path of the CD-ROM target while no audio plays (with audio
   `ring_cd_lba` shows that it does not keep its fetch address).
3. `Ncr5380`: pseudo-DMA latches, ACK train, DREQ pipeline, settle window, IRQ and
   REQ deferral; composed with the target's strobes (`Take` as an abstraction).
4. `CdAudio`: playback states, frame ping-pong, TOC against media change.
5. The bench timer over the VIA's T2; ASC FIFO, SWIM/ISM FIFO, VIA interrupt flags,
   SDRAM slots, NuBus and BERR timeouts (`nubus_arbiter` counts to 256 and compares
   with 260).

## 7. Not modelled

The 68030, its PMMU and caches (an instruction set; covered by the repository's
SingleStepTests), the 68HC05 core (it runs a firmware ROM), pixel and sample data
paths, GCR/MFM bit encoding, PLLs, debug probes, the MiSTer framework in `sys/`
except as the HPS disk service.

Most of the C and C++ in the repository is vendored: Dear ImGui and ImPlot, the
nlohmann JSON header, GTKWave's fst library, stb. It is not this program's logic and
is left out. Of the repository's own C and C++, `sim_main.cpp` is the simulator's user
interface and tracing, the test programs of `scsi_bench.cpp` are sequences of calls
whose target and HPS are modelled, and the SingleStepTests runners compare tables.
The drive table and the screen output of the disk bench show values and change no
state.
