# A TLA+ model of gr-ofdm

gr-ofdm is an adaptive OFDM transceiver built from GNU Radio blocks. This
project models the control of the transceiver: how a transmitter that changes
its bit loading from frame to frame and a receiver that learns of it over a
separate, unreliable channel stay in agreement, how streams that carry no
frame marks stay in step through blocks called with arbitrary chunks, how the
receiver finds the frames and joins what it estimates from them with their
blocks again, and how the resource managers adapt the transmitter to what the
receiver measures. TLC checks small instances; TLAPS proves the central
properties for all values of the constants. Signal processing is left out.

Paths are relative to the repository (`lib/` is `src/lib/`, `python/` is
`src/python/`).

## 1. Inventory

| component | state | operations | interacts with |
|---|---|---|---|
| `allocation_src` | allocation announced and allocation output (id, bit loading, power), bit counts, scheme, amplitude, resource blocks, two ZeroMQ sockets, `d_mutex` | `general_work`, `recv_snr`, `send_allocation`, setters called by the RPC thread | announces on PUB :3333; reads SNR from the receiver; feeds the transmit graph |
| `allocation_buffer` | 256 slots of announced allocations, current outputs | `recv_allocation`, `set_allocation`, `work` | reads announcements; fed with decoded ids; feeds the receive graph |
| `feedback_sink_vf` | none | `general_work` | publishes id and SNR on :3322 |
| resource blocks (in `allocation_src`) | size, number, sizes of the first and last block; averages; loading per block | two setters, `combine_snr`, the loading algorithms, `duplicate_allocation` | scheduler thread and RPC thread, without a lock |
| transmitter framing (`transmit_path.py`) | current bit counts, multiplexer's waiting input, mapper's bit loading and symbol counter, held power | one `work` per block | a thread per block, bounded streams |
| receiver framing (`receive_path.py`) | held power, demapper's bit loading, symbol counter and output multiple, BER window, trigger position | one `work` per block | as above |
| receiver front end (`ofdm_receiver2.py`, `receive_path.py`) | offset and channel in use and whether the next call must wait for one, position in the frame, skip counter | `vector_sampler` (three times), `frequency_shift_vcc`, `channel_equalizer`, `lms_phase_tracking_dc_null`, `skip` | between synchronisation and receiver framing; a thread per block |
| resource managers (`resource_manager_base.py`, `rm_ber_measurement.py`, `rm_singleuser_waterfilling4.py`) | next id, modulation, power, strategy and constraint with shadow copies, received measurements, sweep state | timer rounds (`periodic_work`, `work`, `propagate_changes`, `push_data`), clients' setters and `update`, the consumer's `push` | CORBA event channels to transmitter and from receiver, ORB threads, timer thread |
| time synchronisation | acquisition/tracking state, decision index, window shift, frame counter | `time_sync::general_work` | three aligned sample streams |
| coding path | puncturing phase, trellis metrics, chunk bit counts | `puncture`, `depuncture`, `viterbi_combined_fb` | between reference data and mapper, demapper and BER |
| id coding, frame assembly, image transfer | small counters and buffers | see `PROJECT.json` | |
| channel estimation, equalisation, FBMC, SC-FDMA, MIMO | filter states | numeric | not modelled |
| RPC, applications, GUI | Python objects | forward calls to the setters | RPC thread |

Concurrency: GNU Radio runs each block in a thread of its own and calls it with
any number of the items in its input buffers, bounded by the room in its output
buffers; ZeroMQ RPC calls setters from another thread; announcements and
feedback travel over PUB/SUB sockets that drop messages. A resource manager's
rounds run in a timer's thread, started anew at the end of each round; clients
and measurements arrive in the ORB's threads, without any lock. There is no
persistence, so no crash recovery.

What is hard here: an announcement late, dropped or overwritten by one 256
frames later; the unlocked setters; state that is kept between two calls that
end in the middle of a frame; five streams that meet by counting; a block that
asks for input another one cannot yet give; measurements of an old setting that
arrive after the new one; an update that a round reads half of. The list of hazards, each at its
line, is in `PROJECT.json`.

What makes each component correct:

- link: a frame is demapped with the settings it was sent with, and if the
  announcement is missing with an older frame's; no mutual waiting; an
  allocation is not changed within a frame.
- resource blocks: averaging and duplication describe the same grouping.
- framing: bits, bit loading, power, reference and triggers of one frame meet,
  whatever the chunks, and no block waits for ever.
- front end: a block is corrected with the estimates of its own frame, each
  frame start yields one frame, its data blocks pass with the trigger on the
  first of them, and the threads do not wait for each other for ever.
- resource managers: a point of the sweep is computed from measurements of its
  own setting only, and ends; an adaptive round finds the best loading for its
  estimate from any earlier loading, and the transmitter ends up with it.
- time synchronisation: tracking begins on a preamble and cuts its block first;
  the blocks adjoin whatever the calls and the drift; the two states do not
  alternate without consuming.
- coding: puncturing and depuncturing use the same bit positions; chunks cover
  a frame's bits exactly.

## 2. Modules

| module | models |
|---|---|
| `AllocationChannels` | announcements and frames, the functions both ends compute on them, the PUB/SUB channel |
| `AllocationSrc` | `lib/allocation_src_impl.cc`: `general_work` with its mutex, `recv_snr`, `send_allocation`, setters |
| `AllocationBuffer` | `lib/allocation_buffer_impl.cc` |
| `AllocationSystem` | both ends, channel and feedback composed; the properties; the refinement mapping to `AllocationLink` |
| `AllocationLink` | abstract: what the link promises |
| `AllocationInv` | the inductive invariant |
| `AllocationProofs` | proofs about `AllocationSystem` and, at its end, `ResourceBlocks` |
| `BasicLemmas` | lemmas the proofs share: remainders, least and greatest elements, counting, segments of numbered sequences, joined sequences, loops, counting in a stretch of a sequence |
| `ResourceBlocks` | grouping of subcarriers with the RPC thread's unlocked setters |
| `Loops` | loops that are one step of their thread |
| `FrameBlocks` | what transmitter and receiver framing share: `reference_data_source_02_ib`, `multiply_frame_fc` |
| `TxFraming`, `TxFramingProofs` | `transmit_path.py` from `allocation_src` to the power allocator, uncoded; proofs |
| `RxFraming`, `RxFramingProofs` | `receive_path.py` from the pilot filters to the published bit error rate, uncoded; proofs |
| `TimeSync`, `TimeSyncProofs` | `lib/time_sync_impl.cc`; proofs |
| `ReceiverFront`, `ReceiverFrontProofs` | `ofdm_receiver2.py`, `receive_path.py` and `preambles.py` from the time synchronisation to the pilot block filter, with the blocks they connect |
| `ResourceManager` | `resource_manager_base.py` as the sweep meets it: rounds, pushes, the consumer, and what is outside |
| `BerSweep`, `BerSweepProofs` | `rm_ber_measurement.py` on `ResourceManager`; proofs |
| `BitLoading` | the Levin-Campello functions of `rm_singleuser_waterfilling4.py`, and what they promise |
| `AdaptiveManager`, `AdaptiveManagerProofs` | `rm_singleuser_waterfilling4.py` on the base class, with clients that change strategy and constraint; proofs, also of the algorithms in `BitLoading` |
| `MC*` | constants for TLC |

### The allocation link

`general_work` is split where another thread or the network can act: entry
(`WorkCall`, takes the mutex and fixes the number of items), one turn of
`recv_snr`'s loop or its end (`RecvSnr`), `SendAllocation`, `OutputFrame`, and
`WorkReturn`, which hands the items to the stream. `tx_pc` names the place.
`set_allocation` waits for the mutex; `set_allocation_scheme` does not take it.
`work` of the buffer is `ReadCall`, then per item `RecvAllocation` (the poll
loop) and `WriteItem`, then `ReadReturn`. `wire` is the network, `inbox` the
subscriber's queue, `air` the frames on their way through the rest of the
transceiver; ids are decoded correctly. What the loading algorithms compute
from an SNR report is any member of `Allocations`, and any amplitude for the
margin-adaptive scheme. Powers are small naturals, a divisor stands for the
announced inverse: `Gain` and `Divisor` keep what the program does to them,
including the multiplication of the uncoded power with itself.

History variables: `frames`, the `frame` fields and `lost` number the
announcements; `demapped` records what each frame was demapped with. A frame is `excused` if
its announcement had been dropped or had not reached the queue when its id was
looked up.

### Resource blocks

One action per loop turn of `combine_snr`, the per-block loading and
`duplicate_allocation`; one action per store of the two setters, since nothing
orders them with the loops. A value is the set of subcarriers it was computed
from, so that the properties say where a value comes from, not what it is.
Reading past a vector's end gives `Garbage`.

### Framing

Each block's `work` is one action with the chunk as parameter: the number of
output items (`1..CallMax`) the scheduler offers, together with all input items
present. A loop with state is a function of its number of turns (`Turns` in `Loops`).
The guards are the blocks' `forecast` functions, and for the demapper the
output multiple it asked for. Bits carry the frame and position they belong
to, symbols the bit loading they were mapped with; the program's streams hold
none of that, and no guard of the model reads it except through the bit counts
and bit loadings that the program reads, too. In `RxFraming` a frame's symbols
arrive first (`RecvFrame`); its power, bit loading, id and bit count come any time
after (`DecodeId`, the id decoder and `allocation_buffer` in one), since the id is
in the symbols. So `multiply_frame_fc` returns for want of a power vector and the
demapper waits for a bit loading, and the settings of several frames may queue up.
The ids and allocations are correct: whether they are is the link's question.

A bit error is a bit compared with another bit's reference, demapped or scaled
with another frame's settings, or one of the bits in `Wrong`.

### Time synchronisation

`TimeSync` splits `general_work` at its loops: `Call` is the entry, `SearchOn`
and `SearchPeak` a turn of the acquisition loop without and with a detection,
`TrackBlock` and `TrackLost` a turn of the tracking loop, and `Return` is
`consume`. Positions are relative to the first sample not consumed, as in the
program, so that an endless stream needs no counter. A sample's metric is
nothing, noise or a preamble's; whether the cyclic prefix agrees with a peak,
has drifted, or is lost is a choice at every turn. `d_window_shift` counts
steps of `d_i_gain_shift`: `ShiftSteps` of them move the cut. The history
variable `block` remembers what was cut or detected last. The index is kept
within `IndexMax`: nothing in the code bounds it when every call ends with a
full output, and beyond that it leaves the input (see the hazards).

### Receiver front end

Each thread is an action with the room in its output as parameter; it works on
all that has arrived. An OFDM block is known by its number, an estimate by the
number of the block it was made from: the properties say which estimate meets
which block, and the numbers themselves are left out. Buffers between threads
hold `Items` blocks, at least one frame, as GNU Radio sizes them by the history
of the reader. `Sample` is a call of `vector_sampler`, `Correct` one of
`frequency_shift_vcc` and `channel_equalizer`, which have the same control. A
marked block waits for an estimate made from the block behind it. `Cut` marks any block as a frame's
start, missed and false peaks included, with one assumption about the
environment: the first frame is marked before the buffer is full.
`frequency_shift_vcc` begins with `d_need_eps = 1`, and without a mark in a full
buffer it and the sampler that feeds it wait for each other. `lms_fir` averages
offsets but hands on one for each. `skip`'s `forecast` asks for
`room * frame_length / data blocks` items and so keeps the last data block back
when at least half of a frame are preambles.

### Resource managers

`ResourceManager` has the steps of a round: `BeginRound` with the subclass's
`work`, `PushPower`, `TakeId`, `Push`. A push of the power may fail, which the
code logs (`power_failed` is history). A push of the update may fail and yet
have arrived (`COMM_FAILURE`, retried): the transmitter may take it twice.
`LookUp` and `AppendReceived` are the two steps of `Consumer_i.push`: when a
round takes the list in between, the measurement is lost. The transmitter takes
an update at any time, and measurements arrive in order and late.

Timing: a round begins when the last update has been taken, which `setup_time`
(3 s in the sweep) is there for; at most `Lag` frames are sent until then and
`InFlight` measurements are under way, fewer together than the 2000 that state
1 collects. Without this bound the learned id may be an old one. The frame id is taken
as decoded. The checks of `push_data` for too few subcarriers and of
`propagate_changes` for the power's range cannot apply in the sweep, which
loads all subcarriers. The sweep begins with what the constructor has pushed: the
modulation of the options (`InitMod`) and amplitude 1 (`InitPower`).

`AdaptiveManager` splits a round where the ORB's threads can act: each reading
of the mode, the policy, the pushes. `update()` copies mode, then constraint;
the shadow copies it copies from are written by clients at any time and are
abstracted into a choice. The gains of a round are computed with the power that
was asked for: if the measured frame was sent with another, the estimate is any
of `Channels`. Weights are integers standing for gamma/g, with the required bit
error rate in them; the margin adaptive constraint is a number of bits, without
its conversion from a rate (line 167). The option `--usrp2` is not modelled: with it
`cur_tx_power` is `(tx_amplitude*scale)**2` (line 121), although the rounds assign a
`tx_amplitude` that is scaled already (139, 229, 319). The increments grow, as both
tables of the code do; floating point is exact. The loops of `BitLoading` are `Turns` of one turn's function. They
are given as many turns as they may need, and a turn after the loop's end changes
nothing: that this is enough is proved (Section 5). Sums of energies and bits are
`Total`, a recursive function. `Fail` ends the timer's thread when `_agg_rate` does not exist
yet or margin adaptation is asked for more bits than there are.

## 3. Runs

| run | question | size |
|---|---|---|
| `link` | agreement, announcement, slots, staleness with all schemes, both setters, loss and delay; the drain loop ends, every frame is demapped, refinement of `AllocationLink` | 2 subcarriers, 2 ids, window 2, 3 frames, 2 items per call of the source, 1 of the buffer |
| `link_coded` | agreement with coding, power restoration, one allocation per call | two coded allocations with equal and unequal loading; 2 items per call at both ends |
| `link_items` (violation) | every item of a `work` call gets its own id's settings | 2 ids per call |
| `blocks` | grouping, all sizes 1..6 and numbers 1..6 of 5 subcarriers, one resize at any moment | |
| `blocks_race` (violation) | output vectors keep their length under a resize | |
| `tx` | symbols carry their frame's bits, loading and power; frames leave | 3 frames of 2 loadings, frame of 3 symbols, chunks to 3 |
| `rx` | bits meet their reference; one rate per frame, of the right window; rates are published | 2 frames of 2 loadings, ids decoded at any time, window 3, chunks to 3 |
| `sync` | tracking begins on a preamble and cuts its block first, blocks adjoin, no alternation without progress | blocks of 4 + 2 samples, 24 samples in the buffer, one of them above zero |
| `front` | estimates rejoin their frames, one frame per start, data blocks with their trigger, no mutual waiting | 6 blocks, frames of 5 with 2 preambles, buffers of 6 blocks, room to 2 |
| `sweep` | the id is learned, points are measured as configured, points end | 3 ids, 2 modulations, 2 powers, 1 measurement in flight, 1 frame of lag, 3 collected |
| `sweep_wrap` (violation) | every point ends, also after the last id | as `sweep` |
| `manager` | best loading for the estimate, the power constraint, convergence | 2 subcarriers of 0 to 2 bits, 2 channels, 2 constraints |

Why the bounds are enough. Two ids with a window of two frames and three
frames make ids wrap and a slot be reused, with its predecessor just out of the
window; two subcarriers distinguish a permuted or partly applied vector. Three
frames in `tx` include every pattern of equal and changing bit counts, which is
what the blocks that work on equal frames distinguish; in `rx` the settings of
the two frames come before or after any block's work on them, and frames of 2 or 4 bits with a window of 3 let the window lie within a frame and across two.
Chunks up to three end calls before, at and after every frame boundary of
three symbols. The resource-block run has more blocks than subcarriers, blocks
larger than the band, and every remainder. In `sync` the buffer of 24 samples
lets a tracking call cut two blocks with a recentring in between (17 samples
are what one needs), a drift of two turns moves the cut, and the second failure
in a row loses the prefix; there is never a second preamble in the buffer, which
a frame's length guarantees in the program. In `front` six blocks with any marks
hold a whole frame with one block behind it, two frames that overlap, marks next
to each other and none at all, and a room of one makes every thread stop at a
mark without room; a seventh block is beyond what TLC does in minutes, and the safety
properties of this run are proved for any number. In `sweep` three ids wrap within one pass over the four points.
In `manager` the constraint 2 allows energy 4, which buys no bit on one channel
and one on the other, and asks for 2 bits; the constraint 5 allows energy 25,
which buys two and three, and asks for more bits than there are. The first subcarrier is a
little cheaper on one channel and much on the other, so that swapping, adding
and removing of bits all occur.

Every property of a passing run has a mutant of the code that breaks it
(`PROJECT.json`, operators commented "Defect").

`CHECK_DEADLOCK FALSE` is set in `rx` and `front` only: when all frames or
blocks are through, the receiver has nothing left to do.

Fairness. GNU Radio's scheduler calls a block again whenever its `forecast` is
met and something can change, so `tx` and `rx` assume `WF` of the disjunction
of all blocks: some block that can proceed does. This is weaker than fairness
per block. The link assumes weak fairness of `general_work`'s steps, of
`work`'s and of the network (a message on the wire arrives or is lost).
`TimeSync` assumes it of `general_work`; samples need not arrive. In `ReceiverFront` every thread is treated fairly, as
the thread-per-block scheduler does; blocks need not arrive. The sweep assumes
that the timer goes off, the channel accepts in the end, and frames are sent and
their measurements arrive. The manager assumes the same of its own thread and of
an `update()` that was begun, and strong fairness of a measurement between two
rounds: `setup_time` is 2 s and a frame takes milliseconds. `Converges` has the
premise that disturbances (clients, channel changes, failed pushes, rounds with
an outdated measurement) stop. Nothing
forces a setter, feedback, or a new frame in the framing models.

## 4. What was found

By the violation runs:

- `allocation_buffer::work` uses the first id for all items of a call.
- A resize by the RPC thread during a report yields an allocation of the wrong
  length.
- The sweep's expected id does not wrap (`rm_ber_measurement.py:250`) while the
  transmitter's does: the sweep waits for ever for id 1024.

Visible in the models, without a run of their own:

- The uncoded transmitter squares the power whose inverse it announces
  ("inverse Power", `allocation_src_impl.cc:174` and 791): `PowerRestored` holds
  with coding only, and TLC refutes it in `MCAllocation` with `Coding = FALSE`.
- `d_amplitude_abs` and the powers come apart after `set_allocation` or a change
  to the CM scheme that follows a margin-adaptive report, against "scale power to
  1 and send scaling factor to time domain" (`allocation_src_impl.cc:431`).
- The search for the preamble leaves out one sample at the beginning of every
  call: `bootstrap_peakdetector` looks at `0..d_vlen-1`, `sc_metric2` begins at
  `d_vlen + 1` (`time_sync_impl.cc:424`), against "new val is peak?" (447).
- "Ensure energy constraint is met" (`rm_singleuser_waterfilling4.py:699`): when
  the constraint admits no bit, the power is 0, `propagate_changes` takes it for
  out of range and pushes the greatest power, 32768, and `push_data` then gives
  up for want of subcarriers. `PowerWithinWhenUsed` is what remains.
- "only complete frames find their way into the old outer receiver"
  (`receive_path.py:1122`): a false start within a frame yields a second frame,
  and both hold blocks of the other. `OneFramePerStart` is what the sampler does
  guarantee.
- The mapper turns at most as often as it has bit loadings queued, so that the
  end of a frame leaves only when the next frame's bit loading has arrived
  (stated in `FramesLeave`).

## 5. Proofs

Checked by TLAPS, for all values of the constants that satisfy the named
assumptions.

- `TypeCorrect` (`AllocationProofs`): types and the position of the calls in
  progress.
- `Inductive` (`AllocationProofs`): `IndInv` is an invariant. The properties
  of the link speak of single frames; none of them is inductive, because
  whether a slot may be overwritten depends on where all other announcements
  are. `IndInv` numbers everything between the two ends: the frames under way
  are the consecutive numbers from `FirstAir`, the wire holds consecutive
  numbers up to the last announced, the queue holds increasing ones below the
  wire's, and a slot holds one of its own residue class that is older than
  everything in the queue. `Held` says that an announcement for a frame under
  way is in one of these places or was dropped; it survives overwriting of a
  slot since a later frame with the same id is at least `IdSpace` further on,
  hence not under way together with the slot's frame (`WindowBound`, from
  `Window <= IdSpace`). That assumption is the program's silent one: at most
  256 frames may be between the two ends.
- `Announced`, `Kept`, `Agreement`, `Stale`: the four safety properties of run
  `link`, from `IndInv`.
- `Grouped` (`AllocationProofs`): for every number of subcarriers, block
  size and block number, after a report that no resize disturbed every
  subcarrier has one entry and it comes from the block its own SNR was averaged
  in. The lemmas `BySizeContiguous` and `ByNumberContiguous` show that both
  groupings tile the band; the invariant carries the prefix built so far through
  the three loops and keeps track of whether a resize has interfered.

  `BlockTypes` and `UsedOnce` are type correctness and that every SNR is averaged
  once, from `BlocksPartition`: blocks whose offsets grow by their widths are
  disjoint and cover the band.
- `OneCall` (`AllocationProofs`): `OneCallOneAllocation`, from `CurrentItems`,
  which says that what a running call has put out equals the allocation it
  would put out next: only the call's own steps or the mutex's holder change it.
- `Restored` (`AllocationProofs`): `PowerRestored` of a coded link, from
  `Agreement`.
- `SweepTypes`, `SweepLearnsId`, `SweepMeasuresItsPoint` (`BerSweepProofs`), for
  any id space above one, any numbers in flight and any limits. None of the
  properties is inductive: that a measurement with the expected id belongs to
  the point depends on everything under way. The invariant says it phase by
  phase. `Radio`: the transmitter has the last update or the one before.
  `Learning`: while ids are collected, the measurements that may be old are the
  first `InFlight + Lag`, hence, with `InFlight + Lag < Collect`, the last one is
  not. `Learned` and `Between`: before a new point is announced, everything under
  way carries the last id. `Announcing`: so nothing under way carries the next
  id, which differs since there is more than one. `Measuring`: once pushed, what
  carries it belongs to the point, and the ids on the way change once. Appends
  that are lost and updates taken twice preserve all of these.
- `SyncTypes`, `Adjoin`, `EntersRight`, `FirstCut` (`TimeSyncProofs`), for all
  block and prefix lengths, averaging, and buffer sizes. `Running` bounds the
  position of the running call by what is in the buffer and ties the running
  peak to its sample. `Positions` relates the decision index to the block that
  was cut or detected last, relative to the samples consumed so far. A
  recentring moves index and window against each other (`Recentring`), a return
  moves both with the input (`ReturnStep`), a drift moves the cut by at most one
  sample (`Drift`). `BootstrapPeak` needs the greatest element of a window, which
  is found by well-founded induction on a set of naturals (`Least`, `Greatest`).
- `Refinement` (`AllocationProofs`): the specification implements
  `AllocationLink`, under the refinement mapping of `AllocationSystem`, if `work`
  is called with one id at a time; without this the items after a call's first
  are demapped with its settings, which run `items` shows. Frames sent are a line
  of three queues: demapped, on the air, in the running call. `LineMoved`,
  `LineServed` and `LineConsumed` say that handing frames from one queue to the
  next leaves the line as it is, so that only `OutputFrame` (it grows, `Send`) and
  `WriteItem` (`Receive`) are not stuttering steps. `LinkInv` adds to `IndInv`
  what the promise needs about frames that are long gone: every announcement,
  wherever it is, carries the loading of the frame of its number in the line
  (`Recorded`), and the line is served in order (`Served`).
- `Corrected`, `FramePerStart` (`ReceiverFrontProofs`), for every frame length,
  position of the preambles, buffer size, number of blocks and set of frame
  starts. The properties compare streams that different threads have consumed to
  different points; the invariant says of each thread what it has put out.
  `Sampled`: a sampler's output is the marks it has consumed whose vector fits,
  in order. `Followed`: an equaliser has taken as many estimates as it has passed
  marks, and each output carries the last one. `Tracked`: the position of the
  phase tracking is that in the current frame. "In order" is ranking by the
  number of smaller elements; the lemmas `Ascends`, `Join`, `Prefix`,
  `MovedOrder` and `LastUpTo` say that it enumerates, that a later set is
  appended, and that a delay moves it, so that the k-th estimate is the k-th
  frame's. `Least` and `Greatest` are by well-founded induction on a set of
  naturals.

- `FrontTypes`, `DataBlocks` (`ReceiverFrontProofs`): `skip`'s loop takes one
  item a turn, and its item counter is the position in the frame of the block
  that comes next (`Passed`), because the trigger resets it at the first block
  of every frame. So what it has passed is the data positions up to there,
  whichever block a call ends with.
- `Numbering`, `FramingTypes`, `BitsCompared`, `Rates` (`RxFramingProofs`), for
  every frame size, bit loading, window length, set of wrong bits, number of
  frames and length of call. Nothing in the streams says where a frame begins,
  and neither property is inductive: bits meet their reference only because two
  paths of blocks have counted the same. The invariant `IndInv` numbers symbols,
  bits, rates and triggers from the first one received. `Scaled`, `Demapped`,
  `Measured` and `Sampled` are the numbers that multiplication, demapper,
  measurement and sampler have come to, computed from what is *behind* them in
  the streams, so that they do not depend on a block's memory. Each stream is
  then a `Segment` of the one numbered stream it belongs to (the symbols, the
  bits of all frames joined, the rates, the triggers), and each memory is a
  function of those numbers: the power held and its counter (`PowerHeld`), the
  bitmap and symbol counter (`BitmapHeld`), the window's history (`WindowHeld`),
  the bits of the frame at the front (`TriggerStream`). `DataStream` is where two
  paths meet: the bits measured and those waiting are those before the symbol
  the demapper is at (`BitsBefore`). Each action is shown to continue its
  streams at the same number (`SegmentConcat`, `SegmentDrop`); the loops by an
  invariant of a turn (`LoopInvariant`: `DemapTurn`, `SlideTurn`,
  `TriggerTurnKeeps`). That the window's sum is right is counting: one bit leaves
  and one enters (`WindowSucc`). That the k-th sample is the k-th frame's is that
  exactly the bits at the frames' ends carry a trigger (`TriggersEnded`,
  `TriggerOf`). Settings are numbered from the frames decoded and symbols from the
  frames received; that a frame decoded later does not disturb what is numbered is
  `DecodeIdInv`.
- `Numbering`, `FramingTypes`, `Framed` (`TxFramingProofs`), for every frame size,
  number of subcarriers, bit loading, number of frames and length of call. The
  symbols sent are right only because the multiplexer has taken as many id bits
  and as many payload bits as its control said, and because the mapper has cut
  its bits at the same places at which that control was made; `SymbolsFramed`
  says nothing of either. The invariant numbers what has been multiplexed
  (`Muxed`) and mapped (`Mapped`), again from what is behind it in the streams.
  The id bits and the payload bits that wait are those from `Inputs`, the number
  of control items of that input among the first `Muxed` (`IdStream`,
  `DataStream`); a call that stops at an empty input leaves both counts in step
  with the control (`MuxInv`, from `SelectedOf`: counting a stretch of the control
  is a difference of counts). `MuxedBits` then says which bits these are: a
  frame's `dsubc` id bits and its payload. `BitsBefore` is where a symbol's bits
  begin, `SymbolBits` that they are its own, and `MapTurn` that a turn of the
  mapper's loop, which may end between any two symbols for want of bits, cuts
  exactly there (`BitmapHeld`). That a frame sent later does not change what is
  numbered is `GrowStreams` and `GrowSymbols`; the loop's invariant counts its
  turns (`LoopStages`), since the mapper may turn only as often as there are bit
  loadings.

- `RateLoading`, `MarginLoading`, `LoadingIsBest`, `ManagerTypes`, `PowerIsWithin`
  (`AdaptiveManagerProofs`), for every number of subcarriers, every table whose
  increments grow, every channel and every loading to start from. Optimality is a
  price per bit. A loading is `Efficient` when no subcarrier's last bit is dearer
  than another's next one; then there is a price between them (`Priced`,
  `EfficientPriced`), at which another loading saves no more on the bits it drops
  and pays no less for those it adds, so that its energy is at least this one's
  plus the price of the difference in bits (`LoadingWorth`). With the right number
  of bits that is optimality (`EfficientBest`), and with no room for the next bit,
  too (`TightBest`). `EFEnds`: a subcarrier that has gained bits never loses one
  again, nor the reverse (`Gained`, `Lost`), because the dearest bit goes and the
  cheapest comes; hence each turn takes a bit away from where it was at first
  (`Kept`), and `Rate` turns are enough. `ETEnds`: removing or adding keeps an
  efficient loading efficient (`RemoveEfficient`, `AddEfficient`), and after a
  removal the bit removed is the cheapest one and does not fit (`RemovedFits`), so
  that a loading which was too dear never grows again; each turn changes the number
  of bits by one, and it stays within 0 and `N * max_nbits`. `BTEnds`: the distance
  to the number asked for shrinks with each turn. A sum over the subcarriers
  changes with one of them by the difference there (`TotalUpdate`), and is monotone
  (`TotalMonotonic`, `TotalWorth`).

  About the manager: `PowerWithinWhenUsed` speaks of the moment before `push_data`
  and is not inductive: the power was computed steps before, and a round without a
  measurement limits and pushes it again. `PowerWithin` says at all times that in
  rate adaptive mode a loading with bits has a power of at least 1, so that
  `propagate_changes` never takes it for out of range and pushes the greatest
  power instead, and of at most the constraint it was computed for. `OneMeasurement` says that
  a round has one measurement.

Recursion. The loops of the framing blocks, of `skip` and of bit loading are the
recursive function of `Loops!Turns`, sums of energies and bits that of `Total`;
the other sums and joined sequences are defined without
recursion or with the library's `FlattenSeq`. What such a function does for every
number of turns is proved without an induction rule: the set of counterexamples
would have a least element (`NoFirst`, from well-founded induction on a set of
naturals).

Only model-checked: the liveness properties (`DrainEnds`, `EveryFrameDemapped`,
`FramesLeave`, `RatePublished`, `SamplesConsumed`, `EveryFrameHandedOn`, `PointEnds`,
`Converges`). Liveness under fairness and `ENABLED` are out of the prover's reach.
Every safety property that a passing run checks is a theorem.

## 6. Not modelled

- Signal processing: filters, transforms, estimators, equaliser arithmetic,
  FBMC, SC-FDMA, MIMO. It has no control that a model checker could explore, and
  it is most of the C++ code.
- What the loading algorithms of `allocation_src` compute; decoding of ids.
- The coding path (puncturing, soft demapping, Viterbi), frame assembly and image
  transfer: counting like the uncoded path's, or data tables.
- The erasure decision: `ofdm_frame_sampler` does not connect its output in that
  branch (`receive_path.py:1133-1137`) and uses blocks GNU Radio 3.7 does not
  have, so that it cannot be built.
- Blocks of older receivers (`reassemble_ofdm_frame`, `extract_block_from_frame`,
  `trigger_surveillance`, `peak_resync`, `time_sync2`).
- The manager's automatic measurement mode, off by default, and the other
  managers, which vary the same rounds.
- The rest of the Python code: documentation generator, user interface, flow
  graph descriptions and earlier versions of transmit and receive paths. It is
  straight-line construction of graphs, without state to check, and by far the
  most of the Python lines: a complete model of what has state would still stand
  for a small share of them.
- Output buffer sizes other than the chunk bound; program termination by
  divisions by zero (frames without bits, coded subcarriers without bits, block
  size 0), which the models' assumptions exclude.

## 7. Plan

Done: allocation link, resource blocks, transmitter and receiver framing, time
synchronisation, receiver front end, the sweep and the water-filling manager;
proofs of all of these, of the link with its refinement, of the water-filling
manager with the optimality of its algorithms.

What would add most from here:

1. The composition of `TimeSync` with `ReceiverFront`, in place of `Cut`.
2. The composition of `TxFraming` with `RxFraming`: the receiver's bits are the
   transmitter's.
3. The coding path composed with the framing models.
