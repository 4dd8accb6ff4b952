# TLA+ models of UltraGrid's playout buffer, transmit path, libavcodec compressor and DVB Master III Tx driver

This directory holds TLA+ models of the C/C++ sources under `src/`. Each model
is checked with TLC. Every definition is translated from the code, and
`PROJECT.json` gives the source lines for each one (`map`). `PROJECT.json` also
lists the runs, the mutants, the findings and the hazards.

## 1. Inventory

### Components and how they interact

| Component | Source | State | Operations |
|---|---|---|---|
| Sequence arithmetic | `src/src/rtp/pbuf.cpp` (`add_coded_unit`) | none | `(int16_t)(a - b)` comparisons |
| Frame store | `pbuf.cpp` | list `frst..last` of `pbuf_node` {rtp_timestamp, playout_time, decoded, mbit, completed, cdata}; `playout_delay_us`; `offset_ms` (caller-owned) | `pbuf_init`, frame half of `pbuf_insert`, `create_new_pnode`, `add_coded_unit`, `pbuf_destroy`, `pbuf_is_empty` (read-only) |
| Loss/reorder statistics | `pbuf.cpp` | 65536-bit `packets` bitmap, `last_report_seq`, window and cumulative counters, `last_display_ts`, `longest_gap`, reorder and dup flags | statistics half of `pbuf_insert`, `compute_longest_gap` |
| Playout scheduler | `pbuf.cpp` | the frame store | `pbuf_decode`, `pbuf_remove`, `frame_complete`, `pbuf_set_playout_delay` |
| Video transmit | `src/unnamed/part_000` (transmit.c) | `tx->mtu`; loop locals `pos`, `m` | `tx_init`, `tx_send`, `tx_send_tile`, `tx_send_base`, `tx_done` |
| Audio transmit | `part_000` | loop locals | `audio_tx_send` |
| libavcodec compressor | `src/src/video_compress/libavcodec.cpp` | per instance: `saved_desc`, codec context, `in_frame`, `in_frame_part[]`, `cpu_count`, message queue; the function-static `frame_seq` is shared by all instances | `libavcodec_compress_init`, `libavcodec_compress_tile`, `parse_fmt` (for change messages), `configure_with` (pixel-format choice and each failure exit), `cleanup`, `libavcodec_compress_done`, `libavcodec_check_messages`, the pixel converters, `my_task` |
| DVB Master III Tx driver | `src/quad/src/dvbm_txu.c` | `drvdata` of the PCI device, the card structure, the ICSR and DMA registers, the transmit interface's completion count | `dvbm_txu_pci_probe` (with every failure exit), `dvbm_txu_pci_remove` (the unbind), `dvbm_txu_irq_handler` |

The components connect like this:

- **Compressor to transmit.** The compressor's output tile goes to `tx_send`.
- **Transmit to playout buffer.** `tx_send` cuts each tile into RTP packets that share one timestamp, with the marker bit on the last packet only. These packets, after an unreliable network, are what `pbuf_insert` receives.
- **Receiving.** The receive thread calls `pbuf_insert` once per packet.
- **Playout.** The render loop calls `pbuf_decode(now)` and then `pbuf_remove(now)`.
- **Shared counter.** Compressor instances run on their own threads, one per tile or stream. They share only the static `frame_seq`.
- **Conversion tasks.** Each compressor instance forks `cpu_count` conversion tasks and joins them before encoding.

### Hard behaviours

- **Packet delivery.** Packets can be reordered, duplicated or lost, including packets of frames that are already decoded and removed.
- **Wrap-around.** 16-bit sequence numbers wrap. The statistics use uint16_t distances, and the per-frame lists use int16_t comparisons. 32-bit RTP timestamps are compared with plain `<`.
- **Deadlines.** Eviction and decoding depend on deadlines and a grace period. The delay is captured per frame and can be changed while the buffer runs.
- **Allocation failure.** `pbuf_insert` can fail on either allocation path.
- **Shared counter race.** Several threads do a non-atomic `frame_seq++`, and each instance must hand its encoder increasing pts.
- **Fork/join.** Conversion tasks are forked and joined, and the slice arithmetic must tile the picture.
- **MTU arithmetic.** The mtu computation mixes unsigned and int types and rounds down to multiples of 48.
- **Driver probe and interrupts.** The probe's failure exits release the card through the same remove path; the interrupt handler reads and clears latched registers while the board keeps raising them.

### Properties worth checking

- **Frame store:**
  - frames stay ordered;
  - each frame's packet list stays ordered and has no duplicate across the wrap;
  - no held packet is lost;
  - a frame is evicted only after it is decoded or its grace period is over;
  - no frame is decoded twice;
  - every frame eventually leaves the buffer.
- **Statistics:**
  - the loss count is exact;
  - the longest gap is the longest run of lost packets since the last report;
  - a report is printed no later than the 5-second interval after the last, across the timestamp wrap;
  - the cumulative counters are totals.
- **Transmit:**
  - exactly one marker per call, on the last packet;
  - every packet fits the mtu;
  - every call returns.
- **Compressor:**
  - pts increase per instance;
  - the slices tile the picture;
  - a tile is converted and encoded only with a context configured for its description;
  - a change of subsampling takes effect at the next call;
  - a change message that is rejected never aborts the process;
  - every call returns.
- **DVB driver:**
  - no card is freed twice, whatever exit the probe takes;
  - a live card is the bound device's driver data;
  - no latched interrupt event is cleared without being delivered;
  - every latched ICSR event eventually reaches the reader;
  - the DMA engine is never advanced past the completions it reported.

## 2. Modules

| Module | Models | State and actions |
|---|---|---|
| `SeqArith` | int16_t comparison | `SignedDiff`, `Newer`, `Older` over `SeqModulus` |
| `PbufFrames` | frame store and scheduler | `frames` (the list as a sequence of node records; `playout` is stored relative to now), `delay`, `offset`, `live`, `crashed`, bounded `inserts`, and the ghosts `held` and `decodes`. Actions: `PbufInsert` (disjuncts `InsertFirst`, `InsertLast`, `InsertNewFrame`, `InsertPrevious`, each with an allocation outcome), `PbufDecode`, `PbufRemove`, `PbufSetPlayoutDelay`, `PbufDestroy`, plus the environment actions `Tick` (the clock) and `ChangeOffset`. `Spec` lets the render side call `pbuf_decode` and `pbuf_remove` alternately or back to back, as spec section 2 allows; `RenderSpec` has the render loop call them back to back with the same now, as one step `PbufRender` built from the same `AfterDecode` and `RemoveCount` the two actions use |
| `LongestGap` | `compute_longest_gap` | recursive `Clz`, `Ctz` and `ShiftScan` over a `WordBits`-bit word, with the reference `LongestZeroRun` |
| `PbufStats` | statistics half of `pbuf_insert` | pure operators on the statistics record: `StartWindow`, `MarkSeq`, `Flush`, `Report`, `CollectStats` |
| `PbufStatsStream` | statistics under a real stream | `pb` plus a sender (`Send`) and a network (`Deliver`, `Duplicate`, `Lose`, with reordering depth `Window - 1`). The ghosts `missing`, `lost`, `flushed` and `gap` say what the counters should show; `gap` is the longest zero run of the flushed words since the last report, computed with `LongestGap`'s reference |
| `TxPacketizer` | transmit path | `mtu`, `mode`, a `queue` of tiles, `pos`, `m`, the last packet `pkt`, and `markers`. Actions: `TxSend` (grid loop), `TxSendTile`, `AudioTxSend`, `SendPacket` (one iteration of the do-while loop). Unsigned and int arithmetic is kept at width `UWidth` |
| `LavcCompress` | compressor instances | shared `frame_seq`; per instance `pc`, `msg`, `saved`, `ctx` (codec context, `in_frame`, `decoded` and the height they were set up for), `parse_ret` (what `parse_fmt` returned for each message the last `libavcodec_check_messages` took, the value it logs success or failure on), `subsampling` (the requested one), `pixfmt`, `tile_h`, `seq_read`, `pts`, `last_pts`, `task[i]` and `slices[i]`. `msg[s]` is the queue of change messages, each a config string as a sequence of option records. Actions: `ChangeCompress(s, c)`, `CompressTile`, `Reconfigure(s, h, fail)` (cleanup and `configure_with` up to its exit `fail`, or to the pixel-format exit when `BestPixFmt` finds none: `Configured` is what is set up by then), `LoadSeq`/`StoreSeq` (the racy `frame_seq++`, the conversion and the task fork), `RunTask`, `WaitTasks`, `Encode`, `CompressDone`, and `ReconfigureAbort` (the `abort()` of `configure_with`'s subsampling switch, which ends every instance). Both tile actions first apply `CheckedSubsampling`: `libavcodec_check_messages` folds `ParseFmt` (the recursive `parse_fmt`, with its early returns and its store-then-check of `subsampling=`) over the queued messages, and a non-empty queue forgets `saved_desc`. `RequestedPixFmts` translates the `requested_pix_fmts` list (by subsampling, interlacing and nvenc) and `BestPixFmt` takes the first the encoder's `PixFmts` accepts |
| `PlayoutAbstract` | what the playout buffer promises | `queue` of [ts, state] with state open, complete or decoded, and `alive`. Actions: `Create` (tail only, increasing ts), `Complete`, `Decode` (at most one complete frame becomes decoded, earlier open frames may be forced complete), `Evict` (a leading run with no open frame), `Destroy`. Written from spec sections 3, 4.2 and 4.4, not from code |
| `DvbmTxu` | DVB Master III Tx driver | `drvdata`, `cards[c]` (freed, live; the UID and timestamp features chosen by device id and firmware version), `bound`, `probes`, the ghost `doubleFree`; the registers `icsr` (write-one-to-clear FIFO and DATA bits), `dmaLatch`, `done`; the handler's program counter `hpc` and its locals `intcsr`, `dstatus`, `lstatus`; `events` delivered to the interface, `completions`, `advances`. Actions: `Probe(dev, ver, fail)` (the whole probe with its failure exit as input), `Remove`, the board's `DmaComplete` and `IcsrRaise(b)`, the handler steps `IrqEnter`, `IrqDmaRead`, `IrqDmaClear`, `IrqLocalRead`, `IrqLocalWrite`, `IrqReturn` (one per register access), and the reader's `TakeEvent`, `Done` |
| `MC*` | model values and bounds | one per specification |

Time in `PbufFrames` is relative to the caller's clock:

- **Tests.** "now > playout_time" is `playout < 0`, and "now > playout_time + 1s" is `playout < -Grace`.
- **Tick.** `Tick` lowers every node's `playout` by one tick and clamps it at `-(Grace+1)`. Below that value neither test can change.

`PbufFrames` also makes these simplifications:

- **Packets.** The packets come from a sender that numbers them as `tx_send_base` and the RTP layer do. The network may deliver any of them at any time, any number of times, or never.
- **Statistics.** The statistics half of `pbuf_insert` neither reads nor writes frame state. It is therefore checked separately in `PbufStats*`.

### Refinement

`PbufFrames` defines `Abs == INSTANCE PlayoutAbstract WITH queue <- ..., alive <- live`:
each node maps to `[ts |-> rtp_timestamp, state |-> ...]`, where the state is
decoded if `decoded` is set, complete if `frame_complete` holds, open
otherwise. The `frames` run checks `PlayoutRefinement == Abs!Spec` as a
property, so every step of the code is a step of the abstract buffer or a
stutter. The abstract spec allows the two liberties the code takes and the
violation runs show: a new tail may complete the previous one (`pbuf.cpp:414`),
and a complete frame may be evicted undecoded (`pbuf.cpp:475`). The redecode
behaviour (`pbuf.cpp:398`) re-creates a removed frame in an empty buffer, which
the abstract spec allows as a `Create` (nothing is held to compare with); the
`frames` run has the redecode run's constants, so the refinement holds through
that behaviour, and `NoRedecode` remains a separate, stronger statement.

### The DVB driver

The handler is interrupted by nothing but runs concurrently with the board:
each register access of `dvbm_txu_irq_handler` is a step, and between two steps
the board may latch a DMA completion or an ICSR bit. The probe is one action,
since nothing else runs on the device while it is probed; its input `fail`
names the exit taken (`generic` for a failed `dvbm_pci_probe_generic`, `kzalloc`, `register`, `uidfile`, `iface`, or
`none`). Kernel services (`pci_enable_device`, `request_irq`, the interface's
wait queue) are the actions' inputs or are left to their documented effect.

## 3. Runs

| Run | Expect | What it shows |
|---|---|---|
| `frames` | pass | `FramesOrdered`, `PacketListOrdered` (the sequence space wraps inside a frame), `PacketsRetained`, `Drains` under `WF(PbufDecode, PbufRemove, Tick)`, and `PlayoutRefinement`: the buffer implements `PlayoutAbstract`. Covers 3 frames of 2 packets, 4 insertions of any packet, two delays and two offsets |
| `eviction_safety` | violation | a frame without its marker is evicted before its grace period, because a packet of the next frame set `completed` (`pbuf.cpp:414`) |
| `undecoded_eviction` | violation | under `RenderSpec`, with `pbuf_decode` and then `pbuf_remove` called with the same now: two frames are due, `pbuf_decode` decodes the first, and `pbuf_remove` frees both, the second with its marker seen and never decoded (`pbuf.cpp:475`) |
| `redecode` | violation | a late packet recreates a removed frame in the empty buffer, and the frame is decoded twice (`pbuf.cpp:398`) |
| `stats` | pass | with loss, duplicates, the sequence wrap and bitmap-word reuse, `expected - received` equals the packets really lost in the flushed words, and `longest_gap` equals the longest run of lost packets in the words flushed since the last report (`compute_longest_gap` on real words, exact, not the edge-only estimate that spec 4.3 describes); and `ReportNotLate`: while packets are expected, the media clock never gets more than the report interval past the last report, also when the uint32_t timestamps wrap between two reports (`pbuf.cpp:376`) |
| `stats_reorder` | violation | the first two packets swap places, and a flush of almost the whole sequence space is reported as loss (`pbuf.cpp:359`) |
| `tx` | pass | at mtu 184 every call returns under weak fairness of the sending thread, with one marker per call, on the last packet, and every packet fits the mtu. Covers grids from 1x1 to 2x2, tiles of 0, 96, 150 and 192 bytes, and audio buffers of 0, 1444 and 3000 bytes |
| `lavc` | pass | one instance, with reconfigurations and compression changes: the slices tile an even-height picture row for row; `SubsamplingHonoured`: after change messages, a compressing call uses a pixel format of the subsampling requested (the memset of `saved_desc` forces the reconfiguration); and every call returns when the task workers and the instance thread are weakly fair |
| `lavc_bad_subsampling` | violation | a change message `subsampling=4:2:2` is split at `:` into `subsampling=4`, `2` and `2`; `parse_fmt` stores `atoi("4")` and then returns -1 (`parse_ret` is `<<-1>>`) before the `2`s, but the 4 stays; the next tile reconfigures and `configure_with` reaches `abort()` (`libavcodec.cpp:274`, `:505`, `NoAbort`) |
| `dvbm` | pass | over three probes of TXU, TXE and other device ids on two firmware versions, with every failure exit, and the interrupt handler interleaved with the board: no card is freed twice (`NoStaleFree`), a live card is the bound device's data (`CardOwned`), every latched ICSR event is delivered (`IcsrEventNotLost`), and the DMA is never advanced past its completions (`AdvanceNotAhead`); with the handler called while the line is asserted, every ICSR bit the board latches reaches the reader unless the device is unbound first (`IcsrEventDelivered`) |
| `lavc_shared_seq` | violation | two instances race on the static `frame_seq`, and one instance's pts go backwards (`libavcodec.cpp:812`) |
| `lavc_stale_context` | violation | `configure_with` fails for a new description (at any exit, including no acceptable pixel format for subsampling 444) after `cleanup` freed the context; `saved_desc` still holds the old description, so the next tile of the old description skips configuration and converts into the freed `in_frame` (`libavcodec.cpp:780`, `ContextConfigured`) |

Every property of a passing run has a mutant in `PROJECT.json`. A mutant is a
plausible bug in the mapped definition, such as a dropped int16_t cast, an
off-by-one, a missing clear or a task never started. TLC finds each mutant's property
violated under the run's own configuration.

Four defects found while modelling are listed as hazards rather than runs.
Each shows up by changing constants of a configuration:

- **Small mtu.** With `Mtus = {100}` in `TxPacketizer.cfg`, `Terminates` fails. The payload per packet rounds to 0, and `tx_send_base` sends empty packets for ever (`part_000:183`).
- **Odd height.** With `Heights = {5}` and `PixFmts = {"yuv420p"}` in `LavcCompress.cfg`, `ConversionFillsPicture` fails. The last 4:2:0 task writes row 5 of a 5-row picture (`libavcodec.cpp:843`).
- **Cumulative counters.** Under the constants of `PbufStatsCumulative.cfg` (2-bit words, reports rarer than flushes) with `INVARIANT CumulativeExact`, TLC finds it violated: every flush adds the whole window so far to the cumulative counters (`pbuf.cpp:369`). The run gave its slot to `lavc_bad_subsampling`; under the `stats` constants a report follows each flush and it holds.
- **Allocation failure.** With `AllocOutcomes = {TRUE, FALSE}` in `PbufFrames.cfg`, `NoNullDeref` fails: a NULL returned by `create_new_pnode` on the newer-frame path is dereferenced (`pbuf.cpp:415`).

### Bounds and why they are enough

- **`frames`.** Sequence space 16, starting at 13, so a frame crosses 15 -> 0.
  - Three frames are enough for an eviction past a held frame and for a scan that passes a node.
  - Two packets per frame are enough for a marker and a non-marker packet.
  - Four insertions are enough for reorders, duplicates, a late packet after removal, and a newer frame.
  - `Grace = 1` separates due, past grace and not due.
  - Five insertions took more than five minutes.
- **`stats`.** True RTP timestamps run from 50, one tick per frame of 2 packets, in a 64-tick clock with a report gap of 4 ticks, so the clock wraps mid-stream and reports fall between flushes. `WordBits = 4` and `Interval = 8` keep the code's ratio of words per interval, and a 4-bit word holds interior zero runs. 40 packets starting at seq 13 in a 24-number space cross the wrap, reuse every word (so a word is flushed twice), and trigger several flushes and reports. The violation runs keep a 16-number space with 2-bit words.
- **`dvbm`.** Three probes reach a failed probe followed by a successful one, and a remove followed by a new probe. A DMA chain of 2 lets a completion arrive during the handler's read.
- **`tx`.** At mtu 184 a packet carries 96 bytes. The tile lengths cover an empty tile, one exact packet, two exact packets and a short tail.
- **`lavc`.** Two tasks, with heights 4 and 6. For height 6 the per-CPU share of 3 is rounded down to 2, and the last task gets the rest. Three calls per instance are enough for a reconfigure, a failure and a return to the old description. The encoder accepts 4:2:0 and 4:2:2, and the instance asks for no subsampling or for 4:2:2, so both orders of `requested_pix_fmts` are taken; `lavc_stale_context` also asks for 4:4:4, which no format fits. Passing runs take no failure exit (`ConfigFailures = {"none"}`): any failure leads to the stale-context defect. One message may be queued at a time, from three config strings: `subsampling=420` (accepted), an unknown codec followed by `subsampling=422` (rejected before the subsampling is read) and `subsampling=4:2:2` (stored as 4, rejected, and the process aborts at the next reconfiguration), so a change from 4:2:2 to 4:2:0, a change that does nothing and the abort all happen.

### Fairness

- **Frame store.** The render loop calls `pbuf_decode` and `pbuf_remove` on every frame tick, and the clock runs. This gives weak fairness of `PbufDecode`, `PbufRemove` and `Tick`. Insertion and the external knobs get no fairness.
- **Transmit.** The sending thread runs its loop without waiting. This gives weak fairness of `SendPacket`.
- **Compressor.** Each instance's thread runs its call, and `task_run_async` runs every task. This gives weak fairness per instance and per task. An instance may stop for good after `libavcodec_compress_done`, so the lavc runs do not check deadlock.
- **DVB driver.** The PLX bridge's interrupt line is level-triggered: while a DMA interrupt or an ICSR bit is latched (`Asserted`), the kernel keeps calling `dvbm_txu_irq_handler`, and a handler that started runs to its return. This gives weak fairness of `IrqEnter /\ Asserted` and of each later handler step. Nothing is assumed of the board, the reader, or the probes and removes. Under this fairness `(completions = ChainLen) ~> dma_done` fails in ten steps, through a completion between the `DMACSR0` read and the `CLINT` write (`dvbm_txu.c:207`). That property is not kept as a run, since whether the bridge interrupts again for that completion is hardware behaviour.

## 4. Not modelled

- **The rest of the DVB driver.** `dvbm_txu_pci_remove`'s callees, `mdma_advance`, the interface's wait queue and the sysfs attribute handlers are outside `src/quad/src/dvbm_txu.c` or are pure register I/O; the model keeps their effect on the card and the counters. The lost end-of-chain completion (a DMA completion latched between the handler's status read and its clear, `dvbm_txu.c:207`) is reachable in the model but depends on how the board latches; it is a hazard, not a run.
- **Option parsing, printing and codec parameters.** `usage`, `setparam_*` (they only set encoder options), `get_ug_for_av_codec`, the report text and `perf_record`. `parse_fmt` is modelled for change messages, but of its options only `subsampling=` changes modelled state; the others matter only by whether parsing goes on or stops, so the codec a rejected `codec=` resets to the default is not tracked (hazard `libavcodec.cpp:262`). The subsampling given at start-up (0, 420, 422, 444) is the constant `Subsamplings`; interlacing and the nvenc encoder are the constants `Interlaced` and `Nvenc`.
- **RTP timestamp wrap in the frame store.** Spec 4.2 says media timestamps are not subject to wrap, so `pbuf_insert`'s plain comparisons (`pbuf.cpp:410`) are within its contract; the frame model numbers timestamps without wrap.
- **Outside the repository.** This covers pixel values, the libavcodec encoder itself, `rtp_send_data_hdr`, and the pacing busy-wait.
- **`pbuf_validate`.** It is compiled out.

## 5. Further work

1. **`Pbuf`, the composition.** `PbufInsert == CollectStats /\ frame half`, one module for the whole of `pbuf_insert`, fed from `TxPacketizer`'s packets through the lossy network.
2. **Report-timestamp ordering.** Reorder across a report (`pbuf.cpp:376`).
3. **Small-mtu wrap in transmit.** The small-mtu wrap (`part_000:182`) with mtu at most 16.
4. **Decode order.** Spec 4.4 lets a later due frame be decoded before an earlier one that is not yet due, so no ordering property is stated; the refinement records what is promised instead.
