# TLA+ models of dawn_controller

dawn_controller turns E1.31 (sACN) packets into WS281x signals for up to 30
strands. A bare-metal C program on the Zynq PS receives UDP, assembles complete
frames and writes them into a memory in the PL; a state machine in the PL reads
committed frames and drives the strands. This directory holds TLA+ models of
that system, of the tools that build, load and measure it, the TLC
configurations that check them on small instances, and proofs, checked by TLAPS,
of every safety property the passing runs check, for instances of any size.

File names below are relative to `src/`.

## 1. The system

| Part | State it keeps | Operations | Talks to |
| --- | --- | --- | --- |
| Frame control registers, `hw/rtl/pl_frame_control.sv` | status and error flags, active bank, frame sequence, committed words, counters | bus writes: commit, clear errors, enable, reset; each clock edge | driver (AXI4-Lite), consumer (wires) |
| WS281x consumer, `hw/rtl/ws281x_frame_consumer.sv` | transmit and read state machines, latched bank and configuration, busy bank, last sequence shown | each clock edge | registers, frame memory, strands |
| Frame memory, `hw/rtl/axil_frame_ram.v` | two banks of words | bus write and read, consumer read | driver, consumer |
| PL ingest driver, `ps/app/pl_ingest.c` | locals of a call, statistics | init, self test, write a frame, configure, enable the consumer | registers, memory |
| Frame pipeline, `ps/app/frame_pipeline.c` | two frame buffers, which one is written, strand configuration | clear, write pixels, commit, configure | driver |
| E1.31 receiver, `ps/app/e131_receiver.c` | locked sender and priority, sync mode and address, bitmap of universes, times, counters | handle a packet, poll | parser, pipeline |
| E1.31 parser, `ps/app/e131_parser.c` | none | parse data, parse sync | receiver |
| RX ring, `ps/app/rx_packet_ring.c` | slots, head, tail, depth, counters | reserve, commit, dequeue | ethernet receiver |
| Ethernet receiver, `ps/app/ethernet_receiver.c` | counters, time of the poll | UDP callback, poll, print | lwIP, ring, receiver |
| Boot and main loop, `ps/app/main.c` | none | boot sequence, loop | all of the PS |
| Test sender, `ps/tools/e131_send.py` | frame, universe, sequence counter | send a sweep, a sync packet, wait for the next frame | network |
| Measuring tools, `ps/tools/e131_benchmark.py`, `e131_ingress_profile.py`, `e131_profile_report.py`, `make_helpers.py` | lines and queue of the UART capture, where the cell is, rows | program the board, wait for lines, send, classify, build the next candidate | board (UART, JTAG, network), make |
| Debugger launcher and script, `ps/scripts/run_xsdb_checked.py`, `run_controller.tcl` | hw_server and xsdb processes, the port | clean up, start, wait for the port, run a script, terminate | board (JTAG) |
| Contract generator and checks, `hw/regs/generate_regs.py`, `ssot_check.py` | generated files | generate, copy, compare | files |
| Build, `Makefile`, `hw/scripts/build.tcl`, `ps/scripts/create_app_vitis.py`, `package_boot.py` | built files, time stamps | regs, check, hw, ps, boot | files, Vivado, Vitis |

What is hard in it:

* **Two clocks of control, no lock.** The driver polls registers one by one
  while the consumer moves at every clock edge. The bank the consumer picks is
  published as busy only after it has scanned the configuration of every output
  (`ws281x_frame_consumer.sv:177-227`), and a commit takes effect two cycles
  after it was written.
* **Partial failure.** A commit may fail after the PL took the frame, a read
  may fail, a pixel may be late, the wait for a bank times out.
* **Order and loss.** Packets come from several senders, lost, repeated or
  late; a sender may be replaced, change its sync address or end its stream in
  the middle of a sweep; packets wait in the ring over a poll or a blackout.
* **Tools beside the board.** A reader thread fills a list and a queue that the
  main thread looks at in between; lines of an earlier boot look like new ones;
  the debugger may find somebody else's server on its port.
* **Builds that stop halfway.** Any step of a make may fail; what is up to date
  is judged by time stamps, and settings from the environment have none.
* **Bounds and wraps.** Ring indices, 32-bit sequence numbers, counters and
  milliseconds all wrap; the rounds of a poll and the tries of a wait are limited.

What makes each part correct:

* handoff: the writer never touches what is being read, no frame is torn, no
  commit is refused, every accepted frame is shown once and in order, a call
  returns;
* ring: a bounded first-in first-out queue, no packet lost without a trace;
* parser: whatever parses is read within the datagram and written within the
  frame, and a complete set of universes is a complete frame;
* receiver: a frame is one sweep of one sender under one sync address, or black;
* poll: it returns under any load, and the blackout is on time;
* sender and receiver: only a mishap on the way tears a frame or counts an anomaly;
* measurement: a good row is a good measurement, of the right boot; a run ends;
* build: what is packaged or measured belongs together and to the sources.

The hazards of the code, each at its line, with the properties aimed at them,
are in `PROJECT.json` under `hazards`.

## 2. Modules

| Module | What it models |
| --- | --- |
| `PlContract` | the numbers PS and PL agree on; the 32-bit increment |
| `PlFrameControl` | the control registers; `ControlClock` is one clock edge, `RegisterWrite` a bus write dispatched in that cycle |
| `WsFrameConsumer` | the transmit state machine; one disjunct of `ConsumerClock` per state |
| `WsController` | registers, consumer and memory wired together: `PlClock` |
| `PlIngest` | driver and boot sequence; one action per access of the CPU to the PL |
| `FrameChannel` | abstract: a channel of depth one in front of a display |
| `FrameHandoff` | driver against PL, its properties |
| `FrameHandoffProofs` | proofs about `FrameHandoff`: the handshake, the content of the memory, the refinement of `FrameChannel` |
| `PacketQueue` | abstract: a bounded queue |
| `RxPacketRing` | the ring and the UDP callback that fills it |
| `RxPacketRingProofs` | proofs about the ring: the queue, the counters |
| `FramePipeline` | the two frame buffers of the PS |
| `E131Receiver` | the receiver: one operator per handler, with all it calls |
| `E131ReceiverProofs` | what each handler of the receiver keeps, lemmas for the three modules that use it |
| `E131Reception` | the receiver among arbitrary senders and commit results |
| `E131ReceptionProofs` | proofs about `E131Reception` |
| `EthernetPoll` | the rounds of the network poll over the queue and the receiver |
| `EthernetPollProofs` | proofs about `EthernetPoll` |
| `CommitTiming` | the commit-gap statistic beside that poll |
| `E131Parser` | which datagrams are data or sync packets, the pixels of one, the universes a frame needs |
| `E131Sender` | the test sender and a network that loses packets |
| `E131Link` | that sender against parser and receiver, pixel by pixel, with the sequence numbers |
| `E131LinkProofs` | proofs about `E131Parser` and `E131Link` |
| `SerialCapture` | UART capture: port choice, reader thread, list and queue |
| `XsdbRun` | the debugger launcher: processes, port, outcome |
| `ControllerBoard` | the board as the tools see it: printed lines, counters, resets |
| `E131Benchmark` | a measurement, cell by cell, over the three modules before |
| `E131BenchmarkProofs` | proofs about `E131Benchmark` and the modules below it |
| `RegisterContract` | the numbers derived from `pl_control.rdl`, and when it is accepted |
| `GeneratedFiles` | generating, copying and comparing the files; prerequisites of make |
| `BuildFlow` | the targets of the Makefile, each as the steps of its recipes |
| `ProfileReport` | profile and report over the builds |
| `ProfileReportProofs` | proofs about `ProfileReport` and the builds below it |
| `MC...` | TLC instances, one or more `.cfg` each |

`FrameHandoff` extends `PlIngest`, which extends `WsController`, which extends
`PlFrameControl` and `WsFrameConsumer`. `EthernetPoll` extends `E131Receiver`,
which extends `FramePipeline`, and takes the ring as `PacketQueue`, which the
run `ring` shows `RxPacketRing` to implement. `E131Link` extends `E131Receiver`,
`E131Sender` and `E131Parser`. `E131Benchmark` extends `ControllerBoard`, which
extends `SerialCapture`, and `XsdbRun`. `ProfileReport` extends `BuildFlow`,
`GeneratedFiles` and `RegisterContract`, in this order.

### State and steps of the handoff

A step of `FrameHandoff` is one PL clock cycle: everything in the PL takes its
clock edge, and the CPU makes at most one access. Between two accesses the CPU
may stall for any number of cycles (`PsStall`), so interrupts, the bus and the
code between accesses may take as long as they like. The one assumption about
speed is that two accesses never fall in one cycle, which AXI4-Lite without
pipelining from a CPU that waits for each answer guarantees.

The registers have the names of the RTL (`active_bank_reg` is `active_bank`).
`swmod` strobes are variables of their own, because the two cycles between the
bus write of `FRAME_COMMIT` and its effect are where the interesting
interleavings are. A snapshot of the driver is a record; its n-th read is the
n-th line of `pl_ingest_snapshot`, and only the reads that a decision uses are
captured, while all of them take their cycles. A word of the memory holds the
frame it belongs to. `accepted` and `displayed` are history variables.

Of the consumer, the number of cycles a read, a pixel or the reset interval
takes is left open, and with `ReadFaults` a read may fail or a pixel be late at
any word. The configuration scan is modelled cycle by cycle, since its length
against the length of a snapshot is what keeps the handoff safe.

### State and steps of the reception

A step of `E131Reception` is one call of `e131_receiver_handle_packet` or
`e131_receiver_poll`, which runs to its end in one thread. A packet is a record
of sender, priority, sync address and universe; pixels are told apart by where
they come from and whether they were written in the sweep being assembled
(`fresh`, a history variable kept in the data). A commit returns 0, 1 or -1 as
the driver may: -1 both with and without the PL having taken the frame. Packets
come in any order and number, which covers loss, repetition and reordering.

`EthernetPoll` adds the ring, the time stamps and the rounds. Time passes at
any point, at most `MaxPollTime` ms from the start of one poll to the next.

Left out: ignored senders, which change only counters; `has_display_time`, which
is set whenever a sender is locked. Previews, unparsable packets, and sequence
numbers, which only count anomalies, are in `E131Link`.

### State and steps of the link

A step of `E131Link` is one packet sent, lost or handled, one blackout, or one
tick of the clock. The sender's universe loop is `SendUniverse`, one iteration
each. It builds records of the fields on the wire with the literals of
`build_packet`; `E131Parser` has the constants of the parser, so the two are
independent, and `total_slots` and `ExpectedUniverses` likewise. A pixel is the
frame and the place the sender meant it for; `Written` puts the pixels of a
packet where the parser says. `Receive` takes one of five paths through
`e131_receiver_handle_packet`: a universe written, one of the wrong length, a
terminated stream, a sync packet that releases a sweep, or nothing but a counter.
The order of pixels in the words of the memory is left out.

The network keeps the order of what it delivers: one sender on one cable.
`damaged` is a history variable: it becomes true with a lost packet, a sender
stopped within a sweep, a run that asks for sync without sending it
(`--sync-address` without `--send-sync`), a run with other universes than the
strands, or a blackout, and false when both ends are between two sweeps with
nothing under way. The commit returns
what it may without faults (`OnlyFullBanksFail`): taken, or no free bank.

### State and steps of a measurement

`pc` is the place in `main()` of `e131_benchmark.py`, one value per statement
that touches something shared; `run_cell` of `e131_ingress_profile.py` makes the
same steps. Appending to the list and putting into the queue are two steps of
the reader thread (`pending` is the line between them), so that the scan of the
list, the queue and a drain can fall in between. A line is a record of its boot
and its counters; a garbled line, or one broken off before the counters, is
lost; one broken off behind `rx_packets` is a status without the later keys. The
board begins in an earlier boot (0), idle or with the counters of an earlier
measurement. A packet stands for a frame. All cells ask for the same strand
configuration, which is the harder case: the line of another boot matches too.

`classify` calls a cell stable that reached 99 percent of its target, so with a
hundred packets or more one of them may have been lost or broken after the last
status was printed. `StableRowIsHonest` says just that: the board has committed
99 percent of what was sent, and what may still turn out an error is the rest.

`XsdbRun` is the launcher as on Windows, where stale processes are killed by
image name and `taskkill` is awaited. Elsewhere nothing is killed first and
`terminate()` is not awaited, so nothing is claimed there; neither is it with
`DAWN_CLEAN_JTAG=0` or without a hw_server on the path. The snapshot after a
cell is one step that works or fails.

### State and steps of a build

The content of a generated file is the contract it was generated from. A make is
the list of steps left of its recipes; each step works or fails, and a failed
make leaves what it wrote. Time stamps are the set `fresh` of the targets newer
than all their direct prerequisites: writing a file takes the targets that
depend on it out of the set. An application, a boot loader, a bitstream and an
image are records of what they were made from. The developer edits sources or
the contract, or checks out a commit, between two commands; a file edited while
a recipe runs counts as built for make, so nothing is claimed of that. Host
tests and RTL simulation only read. The textual scan of `ssot_check.py` is a
step that may fail.

## 3. What the runs check

| Run | Checks | Shows |
| --- | --- | --- |
| `handoff` | `TypeOK`, `OnlyFullBanksFail`, `ChannelSpec` | without consumer faults a call fails only for lack of a bank, and the handoff implements `FrameChannel` |
| `handoff_faults` | `NoTornFrame`, `CommitNeverRefused` | the same handshake with read errors and late pixels, after which a frame is picked again |
| `handoff_scan` | `WriterOwnsBank` | the scan window at 28 outputs, near the product's 30 |
| `handoff_live` | `CallReturns`, `AcceptedFrameIsShown` | a call returns though the serializer hangs; an advancing one shows every frame |
| `ring` | `TypeOK`, `EveryPacketAccounted`, `QueueSpec` | the ring implements `PacketQueue`; lost packets are counted |
| `reception` | `TypeOK`, `FrameIsOneSweep`, `BitmapMatchesBuffer` | no frame mixes senders, sync addresses or sweeps the receiver knows of |
| `poll` | `TypeOK`, `BlackoutOnTime`, `PollReturns` | the poll returns under any load; a locked sender goes black on time; a released one leaves the lamps dark, or its black commit failed |
| `link` | `TypeOK`, `ParsedPixelsInFrame`, `UndamagedFramesAreWhole`, `SyncedFrameIsShown`, `AnomalyMeansDamage` | sender, parser and receiver agree on places, sweeps and sequence numbers; sync packets end the damage a loss did; a sender set up wrongly writes nothing outside the frame |
| `benchmark` | `TypeOK`, `StableRowIsHonest`, `RowOfItsBoot`, `XsdbTalksToOwnServer`, `BenchmarkEnds` | stale, lost or broken lines never make a bad cell stable; a run ends though the board is mute, the reader thread dead or hw_server silent |
| `build` | `TypeOK`, `BootImageFitsTogether`, `BuiltFromOneContract`, `BuiltContractFits`, `CellMeasuresItsSettings` | failed builds, edits and profiles in any order leave nothing mixed in an image or a measured cell |
| `reception_release` | `NoSourceIsBlack` (violated) | finding 1 |
| `commit_gap` | `CommitGapIsElapsed` (violated) | finding 2 |

Every property of a passing run has a mutant in `PROJECT.json`: a plausible bug
in one definition, under which TLC finds the property violated.

**Bounds and why they are enough.**
The handoff runs with two banks as the product has; two words per bank, the
least at which a frame can be torn; two frames to tell apart; one or two tries
of the wait, so that it both succeeds and gives up. Sequence numbers run modulo
4: even, as 2^32 is, so that sequence and bank keep their relation across the
wrap, and the wrap is reached. Two outputs suffice for the order of events;
`handoff_scan` takes 28 because there the scan is nearly as long as a snapshot.
Its mutant, a snapshot that ends at the last register a decision needs, breaks
the property. `reception` has two universes (a sweep may be incomplete), two
senders, two priorities, two sync addresses besides none. `poll` has a ring of
two, one packet per round, two rounds: packets wait for later rounds and later
polls, and the ring overflows. In `commit_gap` packets are left when a poll and one more round have
drained the ring (3 against 1 + 1), so that a packet may wait over a whole poll
and its blackout; so they are in the product (1024 against 8 x 64 + 64). Times run modulo a number larger than the timeout plus the longest poll.

`link` has three pixels in two universes of two (the last one short), three
frames and two packets under way: a sweep may be completed by the packets of the
next, the sync packet of a frame and a data packet of the next are in flight
together, and the sender may be restarted with other options. The command lines
are the three sync modes as the board is set up; six pixels from a universe too
low, whose first is refused, whose second lands in the place of the first and
whose third is too long; previews; a terminated stream. Five sequence numbers
wrap within three frames. A lost packet leaves a gap of two within a universe,
which stays a gap modulo five; the clock has the two values that matter to one
timer, since time between packets is free.

`benchmark` makes two runs of one cell with one packet: lines of three boots, a
server left behind by the first run, one glitch, two status lines a boot. A
packet that is lost or turned into an error decides the row, so more would only
repeat it. `build` has two edits, three makes and one run of a tool with two
candidates: a make that fails, an edit, and two makes after it. The contracts
are the committed one, one with other copied parameters, one that fills the
frame aperture to the last byte with a power of two of outputs, and one too
large. That `Config` gives the committed numbers is an assumption TLC evaluates
(`DerivedAsCommitted`).

**Fairness.** `PsFairSpec` asks that a CPU which has an access to make makes
it: the bus answers, and there is one thread. `AcceptedFrameIsShown` names its
own assumption about the consumer, `WF_vars(ConsumerAdvances)`: the counters of
TX_SEND and TX_RESET are finite and the memory answers. It is part of the
property and not of the specification, because `CallReturns` must hold without
it. `FairSpec` of `EthernetPoll` asks that the main loop runs and that
`xemacif_input` returns; it asks nothing of arriving packets or of time.
No fairness is assumed of the caller: no frame need ever be committed.
`BenchmarkEnds` assumes that the tool, the script in the debugger and the
launcher go on: the main thread runs, its waits have deadlines, and the script
makes only accesses that return or fail. The loop over the output of xsdb in
`run_xsdb_checked.py` and the `subprocess.run` calls have no timeout, so a
debugger that neither prints nor ends would hold a run up. It assumes nothing of the board, of the
reader thread or of hw_server. `link` and `build` check safety only.

## 4. Findings

1. `e131_receiver.c:168`: a black commit that fails (for a full PL, say)
   releases the sender all the same. The poll then returns early, the blackout
   is never tried again, and the last frame stays on the lamps. The host tests
   (`ps/tests/e131_host_tests.c:368-369`) expect a release to go with a blackout.
2. `e131_receiver.c:121`: after a blackout, a packet that waited in the ring
   completes a frame with the time of an earlier poll than the blackout's. The
   gap wraps to about 2^32 ms and stays in `max_frame_commit_gap_ms`.

Observed on the way, contradicting no document:

* Without sync packets a lost packet shifts the sweeps: each frame shown mixes
  two frames of the sender until the two ends meet between sweeps again. A
  blackout within a sweep does the same. With sync packets the first frame that
  arrives whole is shown whole (`SyncedFrameIsShown`).
* `--sync-address` without `--send-sync` makes the receiver wait for the sync
  packets of somebody else; its universes then repeat within one sweep, and the
  anomaly counter grows though nothing was lost.
* After `e131_ingress_profile.py` alone, the newest application is the last
  candidate's and its stamp is fresh: `make boot` packages it. The report builds
  the default again.
* `generate_regs.py` accepts at most 30 outputs, because `STRAND_PIXEL_COUNT`
  would run into `CONFIG_STATUS`; the width of the address bus is 12 in the call
  of the register generator whatever `CONTROL_RANGE_BYTES` says.
* `pl_config.h`, `pl_config.py` and `pl_config.tcl` are no prerequisites of
  anything the board runs; a new contract leads to a rebuild only because the
  generated package `dawn_pl_contract_pkg.sv` changes with it.

## 5. What is proved

Every invariant of the passing runs, every action property and both refinements
are theorems: they hold for every value of the constants the assumptions allow,
where a run shows one small instance. Each inductive invariant stands at the
head of the module that proves it, before the lemmas, so a reader finds there why
the code works.

The assumptions are the `ASSUME`s of the modules, on constants only, and TLC
evaluates each in a run whose module extends the one that states it. Most say no
more than that there is at least one of something and that model values are
distinct. The others are:

* `MaxPollTime \in 0 .. TimeSpace - BlackoutTimeout`: the timeout plus the longest
  time from one poll to the next is less than a turn of the clock, 2^32 ms. With
  more, a difference of times would be ambiguous.
* `SlotsPerUniverse % 3 = 0`: a universe holds whole pixels, as the 510 slots of
  the contract do. Only the theorems about `E131Link` use it, not those about the
  parser.
* `Contracts \subseteq Parameters`: an address window is at most the 1 GiB that
  the port `M_AXI_GP0` of `hw/scripts/ps_bd.tcl` reaches. `CeilLog2` is written
  as a finite table for that range.
* `SequenceSpace >= 3`: two or more values of a frame sequence besides the
  current one.

| Module | Theorem | Statement |
| --- | --- | --- |
| `FrameHandoffProofs` | `TypeCorrect` | `Spec => []TypeOK` |
| | `HandshakeCorrect` | `Spec => []HandshakeInv` |
| | `WriterOwnsItsBank` | `Spec => []WriterOwnsBank` |
| | `NoCommitRefused` | `Spec => []CommitNeverRefused` |
| | `FramesAreWhole` | `Spec => []NoTornFrame` |
| | `CallsFailForBanksOnly` | `~ReadFaults` gives `Spec => []OnlyFullBanksFail` |
| | `HandoffIsAChannel` | `~ReadFaults` gives `Spec => ChannelSpec` |
| `RxPacketRingProofs` | `RingTypeCorrect` | `Spec => []TypeOK` |
| | `PacketsAccounted` | `Spec => []EveryPacketAccounted` |
| | `RingIsAQueue` | `Spec => QueueSpec` |
| `E131ReceptionProofs` | `ReceptionTypeCorrect` | `Spec => []TypeOK` |
| | `FramesAreSweeps` | `Spec => []FrameIsOneSweep` |
| | `BitmapIsTrue` | `Spec => []BitmapMatchesBuffer` |
| `EthernetPollProofs` | `PollTypeCorrect` | `Spec => []TypeOK` |
| | `BlackoutIsOnTime` | `Spec => []BlackoutOnTime` |
| | `PolledFramesAreSweeps` | `Spec => []FrameIsOneSweep` |
| `E131LinkProofs` | `ParsedIsInBounds` | `IsData(packet) => InBounds(packet)`, whatever the fields say |
| | `RightSlotsAreUncut` | the universes that are marked are written to their end |
| | `FullBitmapIsFullFrame` | if every expected universe was marked, every pixel was written |
| | `LinkTypeCorrect` | `Spec => []TypeOK` |
| | `ParsedPixelsAreInFrame` | `Spec => []ParsedPixelsInFrame` |
| | `LinkCorrect` | `Spec => []LinkInv` |
| | `AnomaliesMeanDamage` | `Spec => AnomalyMeansDamage` |
| | `UndamagedMeansWhole` | `Spec => UndamagedFramesAreWhole` |
| | `SyncedFramesAreShown` | `Spec => SyncedFrameIsShown` |
| `ProfileReportProofs` | `ProfileCorrect` | `Spec => []ProfileInv` |
| | `BuildTypeCorrect` | `Spec => []TypeOK` |
| | `BootImageFits` | `Spec => []BootImageFitsTogether` |
| | `OneContractIsBuilt` | `Spec => []BuiltFromOneContract` |
| | `BuiltHardwareFits` | `Spec => []BuiltContractFits` |
| | `CellsMeasureTheirSettings` | `Spec => []CellMeasuresItsSettings` |
| `E131BenchmarkProofs` | `BenchmarkCorrect` | `Spec => []BenchmarkInv` |
| | `BenchmarkTypeCorrect` | `Spec => []TypeOK` |
| | `StableRowsAreHonest` | `Spec => []StableRowIsHonest` |
| | `RowsAreOfTheirBoot` | `Spec => []RowOfItsBoot` |
| | `OwnServerOnly` | `Spec => []XsdbTalksToOwnServer` |

`E131ReceiverProofs` holds the lemmas about the handlers of the receiver that
the reception, the poll and the link share.

**The handshake.** None of the safety properties is inductive. That a driver
owns the bank it writes rests on what it read from `WRITE_BANK_VALID` many
accesses earlier, and at that time the consumer may have picked the bank
without having published it. The strengthening `HandshakeInv` says why this
cannot go wrong:

* `BootInv`: the consumer is enabled only after the boot, rests until then, and
  sees the reset pulse only while it rests (a pulse during a scan would be
  overridden in part).
* `BusyInv`: the published bank is the bank being read, in the reading states.
* `LandInv`: a commit on its way is the one the driver wrote last, and it
  takes effect before the first read of the snapshot that follows.
* `ScanInv`: the window. If the consumer has picked a bank that is no longer the
  active one and has not published it, the commit that replaced it took effect
  during the scan, so the driver is still in the snapshot after that commit, at
  a read no later than the cycles of the scan so far. A scan has `OutputCount`
  cycles and a snapshot `21 + OutputCount + 2 * MaskWords` reads, so the scan
  is over before the driver reads `WRITE_BANK_VALID` again.
* `OwnInv`: the bank in the snapshot is the inactive one, and while the driver
  owns it the consumer, if not idle, has picked the active one.

The margin matters: a driver with a shorter snapshot, a quicker bus master that
reads only the registers it needs, or a consumer that scans more entries than
the snapshot reads, would lose it. The mutant of `handoff_scan` shows it.

**The channel.** `ContentInv` adds what is in the memory: the driver's frame as
far as it is written, the committed frame in the active bank and in the bank
being read, and that every frame the consumer may pick is as long as its
configuration needs (`WordsInv`). `NoTornFrame` follows. `ChannelInv` adds, for
a consumer without faults, that nothing raises an error (`FaultFreeInv`); that a
driver which owns a bank has no frame waiting, so that a commit never replaces a
frame not yet shown (`PickedInv`); that the two snapshots of a commit differ by
that commit alone, so that the driver does not take its own success for a
failure (`ConfirmInv`); and that the commits of the boot are the first
(`BootCommitInv`). The refinement maps a pick of the consumer, a commit taking
effect and the end of a frame to the three steps of the channel, every other
step to a stutter. With `ReadFaults` both statements are false, as hazard
`pl_ingest.c:399` says: an error flag stops every later commit.

**The ring.** The head is `depth` slots after the tail, modulo the size. The
packets between the two are the queue of `PacketQueue`.

**The receiver and the poll.** `ReceiverInv` is `FrameIsOneSweep` and
`BitmapMatchesBuffer` with `LockInv`: no sender is locked or a known one is, no
universe is marked without one, and a sync address goes with the sync mode. Each
handler keeps it. `PollInv` adds the times: the display is at most as long ago
as `last_display_ms` says, and a poll that returned without a blackout found it
younger than the timeout. Its last part is that without a sender the lamps are
dark or a black commit failed (`black_failed`, a history variable): that is all
the code promises. A failed black commit leaves the last frame on the lamps for
good (finding 1), and a sender that takes over restarts the timer without a
frame, so there is no bound on how long one frame stays lit.

**The parser.** `FullBitmapIsFullFrame` needs no assumption that a universe holds
whole pixels: a full universe of another size would not parse, and a marked one
did. It rests on `Division` and `UniverseOfPixel` (the slot of a pixel lies in a
universe the receiver waits for) and `UniverseIsWritten`.

**The link.** `LinkInv` follows a frame over the wire. `TypeOK`, `ReceiverInv`,
`WireInv` (each packet has the form the sender gives it), `SenderInv` and
`AssemblyInv` hold always. `StreamInv` holds while nothing is damaged: each
packet on the wire is followed by the next of its frame or the first of another,
and the receiver awaits the packet at the head, with the universes before it in
its buffer. From it follow `AnomalyMeansDamage` and `UndamagedFramesAreWhole`.
`OrderInv` and `ArrivedInv` hold after any damage: frames are in order on the
wire, and what arrived of the frame sent last stays in the buffer until its sync
packet comes. From them follows `SyncedFrameIsShown`: with sync packets one whole
frame ends the damage.

**The build.** `FreshInv` says what a time stamp means: what is fresh was made
from what is there. `pl_config.tcl` is no prerequisite of the hardware, so for
the bitstream the contract is the one of the generated package only; that it is
also that of the script is known when `check` has passed in the same make
(`MakeInv`, what the remaining steps of a make rely on). `ToolInv` adds that only
its own make runs beside a tool, and that what is measured is the application of
that make. `BuiltContractFits` rests on `AcceptedFits`: what `generate_regs.py`
accepts has wide enough indices, counts and apertures, since `CeilLog2` of a
number is wide enough for it (`CeilLog2Enough`).

**The measurement.** The capture does not say which boot a line is of, and all
boots print the same configuration line; that a row is honest all the same is a
matter of what can still be found when. `BenchmarkInv` says it:

* `XsdbInv`: from the start of its hw_server to the end of its processes a call
  is alone, so whoever answers on the port is its own server.
* `CaptureInv`: the list is in the order of the boots, the queue and the line
  between the two are of the list, and no line of the present boot counts more
  frames than the board has committed.
* `ScriptInv`: the script runs only while `main()` waits for it, and what it
  leaves behind is a board past its configuration line (`Started`). So at the
  start of the next cell there is nothing of a configuration line under way.
* `EarlyInv`, before the boot of the cell: the configuration line of the boot
  before lies ahead of the search only when that boot has just begun, and then
  it has received nothing and the list holds no older lines. This is the first
  cell of a run, with a board that is starting when the capture opens.
* `SearchInv`, from the boot of the cell to the end of the search: if the line of
  the boot before can be found, no line of that boot counts a frame.
* `ReadableInv`, while the statuses are looked for: behind the mark, and after
  the second drain in the queue, a line is of this boot or counts nothing; what
  was sent is complete when the last status is awaited; and the status kept
  counts no more than the board has committed.
* `RowInv`: the properties themselves.

So a row with the configuration line of another boot exists, but the difference
of its counters is no larger than what the present boot has committed.
`RowOfItsBoot` therefore asks that the configuration line be of the cell's boot,
and `StableRowIsHonest` does not.

**Only model-checked.** Liveness (`CallReturns`, `AcceptedFrameIsShown`,
`PollReturns`, `BenchmarkEnds`), which the proof system cannot treat, and the two
properties that the code violates.

## 6. Not modelled, and why

* Strand configuration at run time (`frame_pipeline_configure`,
  `pl_ingest_configure_strands`): only host tests call it. Planned, with the
  shrink race of hazard `frame_pipeline.c:193`.
* Read and prefetch engine, bit timing, AXI4-Lite handshakes: planned.
* In `reception` and `poll` packets are arbitrary, so a frame that mixes two
  transmissions of one sender after packet loss is not seen as wrong there; the
  receiver cannot tell. `link` says when it happens.
* Tools: the launcher elsewhere than on Windows, `recover_jtag.tcl`, `make logs`,
  the bottleneck guess and the summaries, the collection of log files, a file
  edited while its recipe runs. The text of generated files, the scan for copied
  literals and the HTML documentation are abstracted.
* Telemetry without a decision behind it: no state of the system depends on it.

## 7. Plan

Written so far, in this order: the handoff, the ring, the reception, the poll
and the commit statistic, the sender and its link, the parser, the measurement,
the generated contract, the build and the profiles, with the proofs of all. Next:

1. `ConsumerRead`: scan, address, data and prefetch of the consumer against the
   bit clock; a late pixel is impossible with the product's numbers, and no
   stale answer is taken for a new one after an error.
2. `FrameRam`: the AXI4-Lite write channel; each write happens exactly once.
3. `Reconfiguration`: `frame_pipeline_configure` with the handoff; the read-back
   of word 0, a smaller configuration during a scan.
