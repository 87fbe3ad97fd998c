# A verification project for the pan/tilt tracking head

The repository holds the software and the hardware of a camera head that tracks
a green object: a C application (`esl_lab_full_app`) for a Raspberry Pi or a
DE10-Nano, FPGA designs that decode the encoders and drive the motors, and a
few studies next to them. This directory holds TLA+ modules for the application,
from camera frame to PWM value, for the gateware of both boards and for the
bench programs, TLC configurations that check them on small instances, and
TLAPS proofs of nearly all their safety properties and of both refinements for
every value of the constants.

All paths below are relative to `src/esl_lab_full_app/` unless they say
otherwise.

## 1. Inventory

| Part | State it keeps | Operations | Interacts with |
|---|---|---|---|
| Green mask producer (`Image_Processor/src/green_mask.c`) | local mask, camera pipeline | set-up, pull, threshold/erode/dilate/filter, put into the ring | mask ring |
| Mask ring (globals of `green_mask.c`) | slots, front, rear, count, mutex, two conditions | put, take (inlined in the threads) | both image threads |
| COM thread (`Image_Processor/src/com_calculator.c`) | local mask, COM | take, centre of mass, enqueue (discarding the oldest on overflow), stop | mask ring, COM queue |
| COM queue (`Image_Processor/include/spsc_queue.h`) | 256 slots, atomic head and tail | `spsc_init`, `spsc_enqueue`, `spsc_dequeue` | COM thread, control thread |
| Image processor (`Image_Processor/src/image_processor.c`) | stop flag, two thread handles | start, stop | both image threads |
| Main thread (`app/src/main.c`) | `current_state`, `start_thread_active`, encoder settings | command loop, `state_*`, `stop_start_thread`, cancel, join | control thread, hardware |
| Control thread (`start_thread_func`) | positions, set points, PWM pair | wait for start, dequeue a COM, set points, PID, PWM, transfer | COM queue, hardware |
| Hardware interface (`app/src/hw_interface.c`) | `TXBuf`, `RXBuf`, mapped registers | reset, homing, transfer, encoder to radians | FPGA |
| 20-sim controllers (`yaw_model`, `pitch_model`) | generated state arrays | initialise, calculate, terminate | control thread |
| FPGA designs (`src/ICO_HW_Design`, `src/DE10_HW_Design`) | counters, PWM and SPI registers | one clock edge at a time | hardware interface |
| Debug stream (`udp_server.c`, `src/debug_video_master.py`) | frame id, table of chunks | handshake, send in chunks, reassemble | image threads |
| Floating-point ALU (`src/Floating_alu_verilog`) | operands, result | add, subtract, multiply, divide over SPI | none |
| Bench programs (`src/encoder_pwm_on_cpu`) | decoder state, set point | edge threads, controller thread, shutdown | none |
| Helpers (`rt_utils`, `time_profiling`) | time records | priorities, pinning, CSV files | all threads |

What is hard here: three threads and main share a ring under a mutex, a
lock-free ring, a flag under another mutex and the FPGA registers under none;
the lock-free ring has a second consumer on overflow; threads are told to stop
in three different ways (a flag, a flag with a wakeup, cancellation); hardware
transfers can fail and nobody looks; registers in the FPGA change while a
transfer or a command is half-way through them; counts, angles and PWM values
are converted between widths and signs; datagrams get lost. `PROJECT.json` lists these places as
hazards, each at its line, with the properties that would catch them.

## 2. Modules

| Module | Models | Extends |
|---|---|---|
| `BoundedFifo` | the abstract queue that both rings promise to be | |
| `GreenMaskQueue` | the mask ring and the two image threads | |
| `ImageProcessor` | start and stop around them; the whole pipeline | `GreenMaskQueue` |
| `ImageProcessorProofs` | proofs about it | `ImageProcessor` |
| `SpscQueue` | the lock-free COM queue with one producer and one consumer | |
| `ComQueue` | that queue as the application uses it, with the discarding producer | `SpscQueue` |
| `ComQueueProofs` | proofs about both | `ComQueue` |
| `JiwyApp` | main, the control thread and the transfers they make | |
| `JiwyAppProofs` | proofs about it | `JiwyApp` |
| `SpiSlave` | the SPI slave of the ICO board and its master | |
| `IcoBoard` | the slave with the PWM generator behind it, up to the motor's pins | `SpiSlave` |
| `MCSpiSlave` | words for its run | `IcoBoard` |
| `IcoBoardProofs` | proofs about the slave, alone and with the PWM generator | `IcoBoard` |
| `PositionControllers` | the two 20-sim controllers, as pure operators | |
| `ControlLoop` | what a round of the control thread computes, with encoder and shaft | `PositionControllers` |
| `MCControlLoop` | centers of mass for its run | `ControlLoop` |
| `ControlLoopProofs` | proofs about it | `ControlLoop` |
| `ImageOps` | what the image threads compute on a frame | |
| `MCImageOps` | frames for its run | `ImageOps` |
| `ImageOpsProofs` | proofs about it | `ImageOps` |
| `DebugStream` | the debug video stream, its client and the network | |
| `DebugStreamProofs` | proofs about it | `DebugStream` |
| `QuadShaft` | a shaft with its two encoder lines, and the decoding table | |
| `CpuEncoder` | the bench programs that decode it on the CPU | `QuadShaft` |
| `SocSystem` | the address map of the DE10 | |
| `De10Board` | the decoder in the FPGA, the register slave and its test program | `QuadShaft`, `SocSystem` |
| `EncoderBench` | a shaft with one of the two decoders | `CpuEncoder`, `De10Board` |
| `EncoderBenchProofs` | proofs about both decoders | `EncoderBench` |

Definitions named `...No...`, `...Nothing`, `...Next` and so on that carry the
comment "Mutant of" are plausible bugs. They are used by no specification; each
replaces the definition it is a mutant of to show that a property can fail.

**GreenMaskQueue and ImageProcessor.** Variables have the names of the C
globals and locals; `pc` is where each thread is. A mask is the number of its
frame, and 0 what the local array holds before any frame was mapped. The
statements under the mutex are separate steps (lock, test, copy, advance,
signal, unlock), so exclusion is a result and not an assumption. Waiting
releases the mutex in the step that tests; a wakeup, spurious or not, leads to
locking and testing again, which is the `while` of the code. `produced` and
`taken` are history. A set-up of GStreamer may fail, a pull may time out,
`gst_buffer_map` may fail (the old mask is queued again), creating either
thread may fail. At stop the consumer unlocks a mutex it does not own, as
`com_calculator.c:79` does; POSIX leaves that undefined, and the model takes
what glibc's default mutex does: it becomes free. The build modelled is the
default one, without `DEBUG_VIDEO` and without profiling.

**SpscQueue.** One step for each atomic load, each atomic store and each copy
of a COM. Each thread sees its own index; the other's index it may see late:
`head_view` and `tail_view` follow the stores one by one in order, which is
what release and acquire promise. A COM is its number in the order of
acceptance. The specification `SpscSpec` uses the queue as its header says.

**ComQueue.** The COM thread's first enqueue, and after a full answer its
dequeue and second enqueue, whose results the code ignores; the control thread
dequeues once the operator has started it. `raced` remembers whether the two
threads were ever inside `spsc_dequeue` together. Stores are seen at once here:
the race needs no weak memory.

**JiwyApp.** `state`, `active` and `lock` are `current_state`,
`start_thread_active` and `start_thread_lock`; `mpc` and `cpc` are where main
and the control thread are. A handler that makes transfers leaves a list of
them in `script`; `read_write_encoder_pwm` is a step per half of `TXBuf`, the
SPI transfer and the store of the answer on the Raspberry Pi, and a register
store on the DE10. A PWM value is its side of the mid point (the motor stands
still exactly there), the control law may compute any pair, and of the encoder
settings only which entries were read is kept. An invalid command runs the
handler of the current state again, as the `switch` does. Cancellation is
deferred: it takes effect in `usleep`, in `printf`, or in `pthread_cond_wait`
after that has taken the mutex.

**SpiSlave.** `Tick` is one edge of the FPGA clock: the synchronisers, the bit
counter, the shift registers and the PWM registers take their new values from
the old ones together, as nonblocking assignments do. The lines of the master
change in steps of their own between any two edges; the master is the SPI
controller in mode 0 below `spiXfer` and external. It may give up a transfer
after any bit. The encoders may show another word after every edge. `last`,
`before` and `seen` are history.

**IcoBoard.** The same `Tick` and `Reset`, and with them one of the two PWM
generators: counter, clamped duty, set point, output and direction are
registers that all move at the edge, so a new command needs four edges to reach
the pin, and direction and output belong to different commands on the way.
`outs` and `stable` are history.

**PositionControllers and ControlLoop.** The generated code keeps its arrays
between calls; the operators take the rates of the last call and return those
of this one, which is what `DiscreteStep` does with them. Signals are integers
in thousandths. The parameters are those of `ModelInitialize_parameters`. A
signal may be NaN, since `pitch_inputs[0]` is read without ever being set, and
the limiter's comparisons may then go any way, since the build is `-Ofast`.
`ControlLoop` follows one axis, either one, with the constants of `config.mk`:
`homing_sequence` stops wherever its time was over, the count of `Encoder.v`
starts in the middle of its range and wraps, the shaft turns between any two
rounds to the side to which it is driven. `polarity` is how the encoder is
wired. A round takes any center of mass of the set, "no object" or none.
Where `JiwyApp` lets a round write any PWM pair, this module says which; where
this module knows only "loop", `JiwyApp` has the threads and the flag.

**ImageOps.** A mask is the set of its white pixels; the loops of threshold,
erosion and dilation are sets, the search of `filter_small_blobs` is a step per
pixel taken from its queue, with the labels, the sizes and the early return
when the labels are used up. HSV is exact: hue, saturation and value are
fractions compared by cross multiplication. A center of mass is the two sums
and the number of pixels, undivided.

**DebugStream.** The mask thread and the COM thread open a port each, wait for
the client's datagram, or go on without a socket when that fails; then a step
per chunk and per COM. The client's `frames` is its dictionary. The network is
a set of datagrams: any of them may be next, stay as a copy, or be lost, and a
handshake to a port not bound is refused. Byte j of frame i is `<<i, j>>`.

**QuadShaft, CpuEncoder, De10Board, EncoderBench.** One shaft, whose position
decides the two lines, connected to the CPU or to the DE10. On the CPU: the
kernel's queue of edges per line, which drops when full; a thread per line with
a step for the stop flag, the event, the lock, and each line it reads; main
with its joins; a signal that may interrupt any thread's wait. `encoder_reader`
has no stop and no controller; both programs are in the run. On the DE10: a
step is a clock edge; the decoder's registers start at 0 whatever the lines
are, which shifts the count by up to one step, and `base` remembers by how
much. The test program reads and writes at the addresses of the map, from
either core; which devices answer there comes from `SocSystem`, the maps of the
header for both cores in blocks of 256 bytes.

## 3. Runs

| Run | Bounds | States | Shows |
|---|---|---|---|
| `image_processor` | ring of 2, 4 frames | 15 842 | types, mutual exclusion, contents in order, no lost wakeup, refinement of `BoundedFifo`, every queued mask is processed |
| `image_processor_stop` | the same | | violation: `stop_image_processor` does not return |
| `spsc_queue` | ring of 4, 9 COMs, late views | 2 160 | types, no race on a slot, contents in order, refinement of `BoundedFifo`, everything is delivered |
| `com_queue` | ring of 4, 8 COMs | 49 476 | without overlapping dequeues: the retry succeeds, the newest are kept, order is kept |
| `com_queue_race` | the same | | violation: the producer moves tail under the consumer |
| `jiwy_app` | both builds, homing loops of 2, 1 failing transfer | 31 245 | types, no control before homing, exclusive hardware before END, motors still until started, start is not lost, the program ends |
| `jiwy_app_end` | both builds, no failing transfer | | violation: motors may run after END |
| `spi_slave` | words of 6 bits, 2 PWM and 2 encoder words, 3 ticks between line changes, `MAX_COUNT` 6 | 389 262 | types, only whole words reach the PWM registers, the answer is one sample of the encoders, a word sent arrives, the pins have exactly its duty and never another direction |
| `control_loop` | both axes and wirings, travel of 3 counts of 16, 4 rounds, 5 centers of mass, none | 3 704 032 | PWM in range even with NaN, set point within the limits, angle that of the shaft, no record outside the array |
| `image_ops` | 7 by 7 pixels, 3 labels, 1 073 objects, 11 colors | 21 065 | opening, blob filter and center of mass are what their definitions say |
| `debug_stream` | 2 frames of 5 bytes in chunks of 2, 2 lost and 2 duplicated datagrams | 419 455 | only whole masks are shown, the table grows by faults alone, what lost nothing is shown |
| `encoder_bench` | 4 positions, 2 queued edges, 4 counts, both cores | 165 656 | both decoders keep in step, only the motor registers are accessed, a stop request ends the program |

Bounds. A ring of 2 masks is full, empty and wrapped twice within 4 frames; the
ring of 4 COMs (3 usable) wraps twice within 9. The homing loops of 1000 equal
writes are cut to `HomingWrites`, 2 being enough for a first, a repeated and a
last one; the proofs do without these bounds. `MaxErrors` bounds failing
transfers; `MaxFrames` and `MaxValues` only end behaviours. `image_processor`
and `jiwy_app` have no deadlock check because a producer without camera frames
left, a failed start and an ended program really stop; `control_loop`,
`image_ops` and `debug_stream` end at their bound of rounds, frames and chunks;
the other runs have the deadlock check. Words of 6 bits wrap the bit counter as
32 do, and differ from their own shifts; their pitch halves stop the motor,
drive it with two thirds backward, and ask for more than the largest duty.
`MinTicks = 3` is the least for which the properties
hold: with 2 the answer can miss its first bit, because the slave needs three
edges from the select line to the loaded register. `SlowLinesAssumption` says so
for the proofs. `config.mk` sets 1 kHz for
SPI and the FPGA runs at 50 MHz, so the real distance is 25 000 edges.

A range of 16 counts is more than twice the travel of 3, as 64 000 is on the
head, so the count, which starts in the middle of its range, does not reach an end
of it between the stops; the count modulo the range is in the model, and
`CountExact` of `ControlLoopProofs` proves this. 4 rounds are enough for
a set point that is taken, held at a limit and left, with the derivative's kick
in between, and fill the 3 records. The centers of mass lie at both edges of the
image and on both sides of the dead zone. Frames of 7 by 7 have blobs that
touch the border, touch each other at a corner, and use up the labels; the
colors lie on both sides of each limit of the threshold. Frames of 5 bytes have
two full chunks and a short one; with two frames there are two tables to mix.
Positions modulo 4 are one turn of the lines: a slip by 1, 2 or 3 steps shows,
and a count of 4 wraps at both ends.

Fairness. A thread that can go on does so in the end (weak fairness of its
steps): the threads run at real-time priority, the image threads on different
cores. A thread that asks for a mutex gets it if the mutex is free again and
again (strong fairness of `Lock`, `MainLock`, `ControlLock`): an unlock wakes a
futex waiter, and the holder goes on to work that takes milliseconds. Nothing
is assumed of the camera, the operator, spurious wakeups or the call of
`stop_image_processor`. In `spsc_queue` both threads keep calling and a store
is seen in the end; the control thread polls every 5 ms. In `spi_slave` the
clock runs (weak fairness of `BoardTick`); nothing is assumed of the master. In
`debug_stream` the server threads and the client go on and a datagram that is
not lost is read; nothing is assumed of the start of the client. In
`encoder_bench` the threads go on and get the lock if it is free again and
again; `StopCompletes` says itself what it needs of the shaft: edges on both
lines for ever, because `watch_line` waits for one without a timeout.

The refinements. `ImplementsFifo` maps the slots from front to rear to the
abstract queue; a mask counts as taken when `front` moves, not at the `memcpy`
before. `SpscImplementsFifo` maps the slots from tail to head likewise.

The three violations are findings, described in `PROJECT.json`:
`stop_image_processor` says "Threads terminated." after joining a producer that
never looks at the flag; `spsc_queue.h` says that only the consumer changes
tail, and `com_calculator.c:74` has the producer do it; `state_end` says
"Stopping system and exiting" and writes the mid point while the control thread
may still be about to write its own pair.

Two more things the models show without a run of their own. Until the first
center of mass is accepted the set point is 0, which on the pitch axis is below
`PITCH_MIN_RAD`, so that the loop starts by driving toward the lower stop although
`main.c:174` promises no motion beyond the limits; `SetPointSafe` is therefore
stated from the first accepted one on. And a stop request of `motor_test` does
not end while a line has no edge.

## 4. Proofs

Each invariant named `...Inv` below is inductive and stands beside the
properties it is for, in the module it is about (`OpsInv` in its proof
module); TLC has checked it on the bounds of that module's run. A proof module has, for each conjunct, a lemma
with one step per action of `Next`; the arithmetic, the sequences and the
tables that the steps need are lemmas of their own.

`ImageProcessorProofs`. The contents of the ring
(`FifoContents`) are not inductive alone: a producer at `copy` must know that
there is room, which it found out at `test` and which only the mutex keeps
true. `RingInv` says this, and that rear lies count slots behind front;
`LockInv` says that a thread inside owns the mutex, or that the other has
exited (that is how the unowned unlock at stop stays harmless); `LifeInv` says
which labels a thread can be at. Proved for
any `GREEN_MASK_QUEUE_SIZE` above 0 and any `MaxFrames`: `ImageInvariant`, and
from it `TypeCorrect`, `MutuallyExclusive`, `MasksInOrder`, `WakeupsNotLost`,
and `QueueRefinesFifo`: every step is one of `BoundedFifo` or a stutter.

`ComQueueProofs`, `SpscQueue`. The core of `SpscInv` is `ViewInv`: the four
indices lie round the ring in the order tail_view, tail, head_view, head, as
one equation of distances. So a stale tail only makes the queue look fuller
and a stale head only emptier than it is; `EnqInv` and `DeqInv` keep what a
thread found until its store. Proved for any size that is a power of two, any
`MaxValues`, late stores or not: `SpscInvariant`, `SpscTypeCorrect`,
`NoTornValue`, `ComsInOrder`, `SpscRefinesFifo`.

`ComQueueProofs`, `ComQueue`. `ComInv` splits at `raced`: what the COM thread alone changes
holds always; until two dequeues overlap, whoever dequeues has the tail of the
queue as its copy (`TailInv`), so that the second enqueue knows that there is
room (`RoomInv`), and each slot's COM is as old as its distance from head says
(`OrderInv`). Proved for any size and number of COMs, with stores seen at once
(the hypothesis `Delayed = FALSE`, which is how this model is meant): `ComInvariant`, `RetryAlwaysSucceeds`,
`NewestAlwaysKept`, `AlwaysDeliveredInOrder`.

`JiwyAppProofs`. In `JiwyInv`, `MainInv` ties handlers to states,
`PhaseInv` keeps the control thread out of its loop before START, `HomedInv`
says that a homing that is over has read both ends, and one under way has them
in its list. `StillInv` adds that every list of transfers ends at the mid point and
that what is in `TXBuf`, and then in the registers, is what main is sending.
Proved for both builds, any `HomingWrites` above 0 and any
`MaxErrors`: `JiwyInvariant`, `TypeCorrect`, `HomedBeforeControl`,
`OneAtTheHardware`, `StillBeforeStart`.

`ControlLoopProofs`. `PwmInRange` needs only the limiter, for any gains, errors and
values that a comparison with NaN lets through; `SetPointSafe` needs the clip;
`PositionFollowsShaft` needs that homing's ends and the count are those of places of
the shaft (`CountsInv`), and that the sign of the wiring cancels. Proved for any
travel below half of the encoder's range and any centers of mass
(`TravelAssumption`): `LoopInvariant`, `ControlTypeCorrect`, `PwmAlwaysInRange`,
`SetPointAlwaysSafe`, `PositionExact`.

`IcoBoardProofs`. `SpiInv` ties the slave to its master: the synchronisers hold
the line as it was up to `since` edges ago (`SyncInv`), so the bit counter is the
number of bits taken (`CountInv`), the register holds those bits (`WordInv`), and
what has been read with what is still to be shifted out is one encoder word
(`AnswerInv`). `DriveInv` and `PinInv` follow a word on to the pins. Proved for any even width of the words, any words and
`MAX_COUNT`, for lines that hold three edges (`SlowLinesAssumption`) and a middle word
that is the middle of the duty (`PwmAssumption`): `SpiInvariant`,
`SpiTypeCorrect`, `PwmWordsWhole`, `AnswerWhole`, `DriveOnlyCommanded`,
`DutyAlwaysExact`.

`DebugStreamProofs`. What is under way or in the client's table is a chunk that
was sent, with its data (`NetInv`, `TableInv`); that a frame with all its
chunks joins to the whole mask is a lemma about `SubSeq` and `FlattenSeq`.
`FaultlessInv` says that without faults the chunks of a frame are under way or in
the table and never in both. Proved for any sizes of frame and chunk, any
number of frames and of faults: `StreamInvariant`, `OnlySentShown`,
`TableEmptyUnlessFault`.

`EncoderBenchProofs`. On the FPGA, `PipelineInv`: the three registers of the lines
show the last positions of the shaft, each a step from the next or the same, and the
count lacks what they have yet to add. On the CPU, `NoticedInv`: every line that
`last` has wrong has an edge in the kernel's queue, or a thread that is about
to read it; `ParityInv`: the position slips by no single line; `SlowInv`: a shaft
that waits for each count is one step ahead at most, and that step is under way
exactly once. Proved for any multiple of 4 as `Turns`, any `ENCODER_MAX` that divides
it and any room in the kernel's queue: `BenchInvariant`, `DecodersInStep`. (`Turns`
only cuts the shaft's position to a finite range, so dividing it costs nothing.)
The address map is a table, so its part has no constant to generalise: the six
groups without the motors' registers and the rest of the two that hold them lie
apart from the four blocks of those registers (`MotorBlocks`), and the words of
the loop lie in these blocks (`MotorWords`), hence `OnlyMotorsReached`.

`ImageOpsProofs`. The threshold in hue, saturation and value is the comparison of
channels in `LooksGreen` (`GreenIs`). For the search, `Blob` of a pixel is the
least part of the mask that holds the pixel and is closed under neighbors
(`BlobFacts`); `SearchInv` says that the queue holds, each once, pixels of the
blob of its first one, and that the neighbors of those taken out are among them,
so that an empty queue means a closed set and hence the whole blob. A neighbor
cannot have an older label, as that blob was closed too. `BlobInv` keeps that
earlier labels are whole blobs with their sizes, which makes the labels as many as
the blobs: that decides between removing and the early return. A queue
without repetition is no longer than the pixels are many. `SumBounds` puts a
sum between the bounds of its terms, and a black border makes it positive.
Proved for frames of any size, any set of frames, any color of the ground and
any limits (`ImageAssumption`): `OpsInvariant`, `QueueAndLabelsFit`,
`OpeningAlwaysExact`, `FilterAlwaysExact`, `ComAlwaysAccepted`.

What a recursive function computes is proved through the least counterexample: the
naturals are well founded (`LeastNat`), so a property that fails for a number fails
for a least one. `PitchType` of `IcoBoardProofs`, `JoinOfPayloads` of
`DebugStreamProofs`, and `GrownIsHull` and `SumExists` of `ImageOpsProofs` are
proved in this way.

Only model-checked: the properties that need fairness (`EveryMaskCalculated`,
`AllDelivered`, `StartTakesEffect`, `EndsOnRequest`, `WordArrives`,
`EveryFrameShown`, `StopCompletes`).

## 5. Not modelled

The rounding of floating-point numbers: the controllers run on thousandths
rounded down and the image operations on exact fractions. The helper files of
the 20-sim code that its models do not call, and what the simulator keeps for
itself (model time, step counter, flags). The opening of the devices before
any thread exists, `release_reset_gpio` and `compute_hv_fov`. The priorities
and core pinning of `rt_utils`, which are behind the fairness. The byte-wise SPI
slave, an older version of the same Verilog module. The clock generation and the
generated integration of both boards. The PID law of `motor_test` (any choice
here) and `pwm_dma_40khz.c`, a sweep of a duty by a single thread. The
floating-point ALU and the unselected hardware, which the application does not
use, and everything that is not code. `PROJECT.json` has the reasons.

## 6. Plan

Two things of the models are left: a transfer of `JiwyApp` is not shown to be
what `SpiSlave` does, and the ALU's adder could be modelled with scaled-down
widths.
