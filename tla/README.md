# A TLA+ model of livox_ros_driver2

The driver connects Livox lidars (through the Livox SDK) to ROS 2. This directory
models its own core logic: how raw packets become frames, how frames cross a
lock-free ring into the publishing thread, how lidars are configured and start
sampling, how the node reports its health, how it judges the health of a lidar,
how raw device states are recorded to files, and how the node itself is made, runs
its threads and is destroyed. Paths below are relative to `src/`, the repository
root; most of the code is in `src/src/`.

## 1. The system

| Component | State it keeps | Operations | What is hard |
|---|---|---|---|
| Framing of raw packets (`comm/pub_handler.cpp`) | raw packet queue, one growing cloud per lidar, static sync flag, host-clock gate, quit flag | SDK data callback, `RawDataProcess`, `CheckTimer`, `RequestExit` | the flag written for one packet decides the cut of another; catching up after a stall; unsigned stamp differences; no notification on quit |
| Whole-frame queue and publication (`lds.cpp`, `lddc.cpp`, `comm/ldq.cpp`, `comm/semaphore.cpp`) | per lidar: ring, `rd_idx`, `wr_idx`, connect state; one semaphore | `StoragePointData`, `DistributePointCloudData`, `QueuePop`, destructor | volatile non-atomic indices, unlocked `GetCount()`, full ring, index wrap, shutdown while blocked |
| Device slots and settings (`comm/cache_index.cpp`, `lds_lidar.cpp`, `call_back/livox_lidar_callback.cpp`) | slot map, per-slot configuration, `set_bits`, connect state | `InitLivoxLidar`, info-change callback, seven answer callbacks | answers race the sending loop; timeouts, refusals, repeated and unlisted lidars, too few slots |
| Configuration file (`parse_cfg_file/`) | the parsed records | `ParseUserConfigs` | narrowing casts |
| Node heartbeat (`functional_safety_heartbeat.cpp`) | state, work counter, sequence number, active faults, stop flag | `SetState`, `RecordWork`, `UpdateFaults`, `PublishNow`, `Run`, `Stop` | two publishers, relaxed atomics read one after the other, lost notification |
| Raw-state recorder (`lidar_state_recorder.cpp`) | bounded row queue, counters, writer thread, four files | `Push`, `Pop`, `Close`, `Write`, `Open`, `Rotate`, `Stop` | `try_lock`, rate limit, close racing a push, failing system calls, kills |
| DTC monitor and reporting (`lidar_dtc_monitor.h`, `lidar_dtc_reporting.h`) | last HMS codes, work state, packet and cloud times, high-water marks of PTP and of stamps | `Observe*`, `Evaluate`, `PublishDiagnosticSnapshot` by the diagnostic timer | stale, lost, repeated and reordered evidence; clock settings |
| Diagnostic query (`lds_lidar.cpp`) | one pending flag | query timer, push and query callbacks | a query that fails or times out |
| IMU queue (`lds.cpp`, `comm/lidar_imu_data_queue.cpp`, `lddc.cpp`) | per lidar a locked unbounded list; one semaphore | `StorageImuData`, `DistributeImuData` | unlocked `GetCount()`, shutdown while blocked |
| Driver life (`livox_ros_driver2.cpp`, `driver_node.cpp`, `lds_lidar.cpp`) | the node, its timers and threads, the `LdsLidar` singleton, the SDK and its callbacks | constructor, `InitLdsLidar`, destructor, `DeInitLdsLidar` | failed initialisation, null data source, what outlives what, a node made again |
| Identity parameters (`lidar_identity.h`) | the configured lidar, its serial, the ROS parameters, a thread-local writer mark | `Configure`, `Observe`, `Update`, the on-set callback | parameter clients racing observations |
| Compression nodes (`compression/`) | none beyond one message | compress, decompress | order of concurrent results |

How they interact. The SDK's data thread calls the framing callback, which queues a
packet. The framing thread decodes packets, cuts frames and, in the same thread,
calls `Lds::StoragePointData`, which pushes each lidar's part into its ring and
signals. The publishing thread (`PointCloudDataPollThread`) waits on the semaphore,
drains the rings of the lidars that are Sampling, and after each publication bumps
the heartbeat's work counter. A lidar becomes Sampling through the configuration
callbacks, which run on SDK threads. The heartbeat's worker publishes periodically,
the diagnostic timer feeds it faults, and the recorder gets a row for each device
state push from SDK callbacks. IMU packets take a shorter way: the SDK thread itself
appends them to a list that `ImuDataPollThread` drains. Info changes also update the
identity parameters, which parameter clients may try to set from the executor. The
constructor makes all this in a fixed order around the start of the SDK; the
destructor stops it in order, but the `LdsLidar` singleton, the slots, the rings and
the framing thread stay for the rest of the process.

What makes each part correct is listed as properties in section 3; what can go
wrong, line by line, is the `hazards` list of `PROJECT.json`.

## 2. Modules

| Module | Models | Kind |
|---|---|---|
| `FrameFifo` | what the frame path promises: a bounded FIFO per lidar that refuses new frames when full | abstract specification |
| `FrameDelivery` | rings, semaphore, framing thread inside `StoragePointData`, publishing thread, destructor, store buffers of the machine | detailed specification |
| `FrameRefinement` | the mapping from `FrameDelivery` to `FrameFifo` | refinement |
| `FrameProofs` | theorems about `FrameDelivery`, and that it implements `FrameFifo` | proofs |
| `Framing` | packet callback, packet queue, framing thread, both ways of cutting frames | specification |
| `DeviceConfig`, `MCDeviceConfig` | slots, settings, retries, Sampling; the configuration files of the runs | specification |
| `ConfigParse` | the per-lidar entries of the configuration file and their casts | specification |
| `Heartbeat` | heartbeat publisher and the four threads that use it | specification |
| `StateRecorder` | row queue, writer thread and `Stop` | specification |
| `RowLog` | what the recorder promises: each submission is accepted, counted as lost or counted as a repetition; the accepted rows make a numbered log of which a prefix is written, with the shutdown row last | abstract specification |
| `RecorderRefinement` | the mapping from `StateRecorder` to `RowLog` | refinement |
| `RecorderFiles` | the writer's system calls, rotation, failures, kills and restarts | specification |
| `PtpEvidence`, `MCPtpEvidence` | `ObserveTimeSync` and the two verdicts on PTP, with a lidar that synchronises and sets its clock | specification |
| `DtcMonitor`, `MCDtcMonitor` | the rest of the monitor, the query, both callbacks, the diagnostic timer, with a lidar whose alarms, work state, stream and clock change | specification |
| `ImuDelivery` | IMU lists, their semaphore, the SDK thread inside `StorageImuData`, `ImuDataPollThread` | component of `NodeLifecycle` |
| `DeviceIdentity` | the `device_info.*` parameters and their write guard | component of `NodeLifecycle` |
| `NodeLifecycle`, `MCNodeLifecycle` | constructor, initialisation, SDK, threads and destructor of nodes made one after the other, composed with the two above | composition |
| `FramingProofs`, `DeviceProofs`, `HeartbeatProofs`, `RecorderProofs`, `PtpProofs`, `DtcProofs`, `LifecycleProofs` | theorems about `Framing`, `DeviceConfig`, `Heartbeat`, `StateRecorder` with `RecorderFiles`, `PtpEvidence`, `DtcMonitor` and `NodeLifecycle` | proofs |

### FrameDelivery

The producer's program counter `ppc` follows `PushLidarData` and `QueuePushAny`
access by access: capacity test, slot stores, `wr_idx++`, the emptiness test, the
unlocked `GetCount()`, `Signal`. The consumer's `cpc` follows
`DistributePointCloudData`, `PollingLidarPointCloudData` and
`PublishPointcloud2`/`PublishCustomPointcloud`. Each index is kept as its owner sees
it; `wrBuf`, `slotBuf` and `rdBuf` say that the last store is still in the owner's
store buffer, so `WrSeen` and `RdSeen` are what the other thread reads. `Memory`
selects the machine: `"SC"` (no buffering), `"TSO"` (x86-64: buffered, drained in
order) or `"ARM"` (drained in any order, and the store of `rd_idx` may pass the loads
of the copy). A mutex operation is a full fence, which is a little stronger than
what ARM guarantees. The pair `DrainSlot`, `DrainWrIdx`, `DrainRdIdx` and the
`*Seen` operators model hardware, not a line of the code.

A frame is the ring index it was accepted under, modulo the width `W` of the index.
Since `W` exceeds the ring size, the frames of one lidar that can be in the system
at once differ, and behaviours can be infinite, which liveness needs. The format of
the node is chosen at the start; `"Pcl"` matters because `PublishPclMsg` in ROS 2
takes nothing from the ring. Point data, message layout and publisher creation are
left out. So is `output_type_`: with another value than `kOutputToRos` the finished
message goes to a bag or nowhere (`lddc.cpp` 352 and 419), after its frame has left the
ring, so `Publish` stands for "the consumer is done with the frame".

### Framing

`OnPacket` is the callback: it sets the static flag, works out the stamp and, in
`PushPacket`, queues the packet. `OnImuPacket` is its branch for IMU packets, which set
the same flag and go on to `ImuDelivery`. `MoveClock` sets the host clock to any of
`Times`: `high_resolution_clock` may be the system clock, which is set forward and back.
The thread takes a packet, appends its point to the
lidar's cloud (`PointCloudProcess`) and runs `CheckTimer`, whose four outcomes are
four actions: a cut by the packet's stamps, the first visit of the host-clock gate,
too early, and a cut of all clouds by the host clock. A frame is kept as its points. A
packet carries one point or none; coordinates and extrinsic parameters are left out. Stamps are unsigned and
differences wrap at `StampValues`.

### DeviceConfig and ConfigParse

`FillDevice` is one turn of the loop in `InitLivoxLidar`. The info-change callback is
`AddDevice` (unknown lidar) or `BeginSettings`, `SendSetting`..., `SendAttitude`,
`SendWorkMode`; config_mutex_ is held while the settings are sent. `inflight`
counts commands; an answer is a success, a timeout or another status, and does what
the callback of that command does. `config` of a slot that no configuration filled
is the zero record: its handle is `Zero` and its keys are all settings, since 0 is
not the -1 that means absent. The SDK reports info changes on one thread, so
`GetFreeIndex` is one step. `ConfigParse` models one record per entry; a present key
goes through its cast.

### Heartbeat

`PublishNow` is taken apart at every shared access: lock, number, load `work_seq_`,
load `state_`, copy the faults under `fault_mutex_`, publish. It is called by the
worker and by the constructor after a failed initialisation. `UpdateFaults` erases
and inserts in two steps with the mutex held. `Stop` sets the flag and notifies
without `wait_mutex_`, so the notification can be lost. A heartbeat is identified by
its number modulo `W`. `workSeq` does not wrap: the model and its proofs are about fewer
than 2^32 published clouds.

### StateRecorder and RecorderFiles

Every critical section of the queue's mutex is two steps, so that the `try_lock` of
a callback can fail while the writer pops. `Push` decides between suppressed, rate
limited, full and accepted. An exception may end the writer at any row, the shutdown row
included. The writer pops, tests `accepting_`, pops once more and
ends with the shutdown row. `RecorderFiles` has one action per system call of `Open`,
`Rotate` and `Write`; each may fail, and `KillAndRestart` may strike between any two,
leaving a partial line when it strikes in the write. Its initial states, steps and
specification are called `FilesInit`, `FilesNext` and `FilesSpec`, so that one module
can hold the theorems about both.

### PtpEvidence and DtcMonitor

Both put the lidar next to the monitor, so that a verdict is compared with what the
lidar really did and not with the evidence it was drawn from. The two parts of the
monitor share only the two PTP verdicts; `DtcMonitor` takes them as arbitrary.

`PtpEvidence` follows `ObserveTimeSync` test by test (`ClockContinuous`, `Bounded`,
`Healthy`, `Revokes`, `Advances`). A report holds the lidar's clock and its last
synchronisation as they were when it was sent. Ticks are longer than the millisecond
of tolerance, so continuity is equality; a setting of the clock is assumed to be
larger than the delay of reports, since the code cannot see a smaller one.

`DtcMonitor` keeps times as ages that stop growing when nothing tells them apart, so
behaviours are infinite and liveness can be stated. A report shows any state the lidar
had at most `MaxDelay` ago, with either field missing. The eight HMS codes are a set of
alarms, one for each case the policy distinguishes; `valid_stamp_` is kept relative to
the lidar's present stamp. A cloud is observed after it has waited in the queues, so the
last clouds of a lidar arrive up to `MaxDelay` after it fell silent. `DiagnosticTimer` is `Evaluate` and
`PublishDiagnosticSnapshot` together, as they are in the timer's callback.

### NodeLifecycle, ImuDelivery and DeviceIdentity

`npc` follows the thread that runs the constructor and the destructor, one action per
piece of code that another thread can tell from the next. A launch is a record of what
the constructor tests: the heartbeat, DTC and identity parameters, the data source,
and of the configuration file whether it can be read, the Livox bit and the number of
lidars. Every early return and exception of the constructor is an action or a disjunct
(`Abandon`, `InvalidSource`, `RefuseIdentity`, `AlreadyInited`, `InitLidarsFails`,
`SdkInitFails`). What belongs to the node goes with it; `initialized`, `requestExit`,
`monitor`, `recorder`, the lists, the semaphores and `callbacks` belong to the
singletons and stay. `LivoxLidarSdkUninit` is modelled as the code relies on it: no
callback begins after it is called, and it returns when none is running.

`ImuDelivery` takes `StorageImuData` apart into the push, the test of the list, the
unlocked `GetCount()` and the signal, and the polling thread into the steps of
`DistributeImuData`. The list is unbounded in the code; the model tells apart
`MaxQueue` samples, and a push on a longer list runs all steps without adding a
sample. `DeviceIdentity` splits `Update` into the writer mark, the atomic set and the
removal of the mark, so that a parameter client can come in between. Its mutex is not
a variable: only the SDK's one info-change thread takes it once the SDK runs.

The point-cloud thread is reduced to its semaphore and loop here. The executor runs no
callback of a node under construction or destruction, and a process has one node at a
time: two at once would share the singleton, which the code does not support.

## 3. Runs

All runs are small; the bounds are constants of the cfg, and each is large enough for
the cases named here.

| Run | Checks | Shows |
|---|---|---|
| `frame_tso` | `TypeOK`, `RingIntact`, `PublishedInOrder`, `ImplementsFifo` | On x86-64 every accepted frame is delivered whole and in order, and the whole path implements `FrameFifo`. Two lidars, rings of 2, index width 4: rings fill, frames are dropped, indices wrap twice as often as rings. |
| `frame_stream` | `StrandedBound`, `EveryFrameIsPublished`, `ExitCompletes` | ARM's reorderings, two lidars and rings of one frame, so that a ring is full or empty after every step: at most one frame of all rings is stranded; while frames keep arriving the consumer gets round to each queued frame of a Sampling lidar, and the destructor returns; formats PointCloud2 and PCL. |
| `framing` | `PointsConserved`, `CatchUpBounded`, `QuitEndsThread` | Two lidars, three point packets stamped either way and any number of IMU packets, device stamps of two values (one of them on the frame interval) in any order, and a host clock set between 0 and 5, two and a half intervals: no point is lost, doubled or moved; catching up is bounded also while the clock is set; the thread ends after `RequestExit`. |
| `device` | `DistinctSlots`, `SamplingIsConfigured`, `LidarsStart` | A file that lists a lidar twice and another without settings, a third lidar that finds no slot, three info changes, one timeout or refusal: no lidar samples half configured, a configured lidar that refuses nothing starts, and every lidar with a slot turns Normal. |
| `device_unlisted` | `OnlyUserConfigIsSent` (violated) | Finding 1. |
| `config_blind_spot` | `BlindSpotKept` (violated) | Finding 2. |
| `heartbeat` | `FailureIsReported`, `SequenceIsGapless`, `NeverGoesBack`, `CopiedIsComplete`, `StopReturns` | Two publishing threads, two fault codes, two clouds, sequence numbers that wrap. |
| `recorder` | `WrittenInOrder`, `StopFlushesAccepted`, `ImplementsLog`, `StopReturns` | Two callbacks, a queue of two rows, three submissions, a writer that is disabled, throws, or ends normally: rows are written in order and flushed, and every submission is accepted, counted as lost, or counted as a repetition of the state recorded last, so no change of state passes for a repetition or disappears. |
| `recorder_files` | `RowsInOrder`, `PartialIsLast`, `FilesBounded`, `OnlyOldestRemoved` | Four files of two rows, nine rows (so that all four fill and the oldest goes), four failures or kills. |
| `ptp_evidence` | `MaskNeedsLiveSync`, `RepeatIsNoEvidence`, `BoundedIsBacked` | Two channels, three synchronisations, a clock that is set forward and back, timeouts and delay of one tick, five ticks: long enough for two advances and for every piece of evidence to expire. |
| `dtc_monitor` | `VerdictWasTrue`, `ClearedWasClear`, `FaultsFollowAlarms`, `InOrderIsUsable` | Three kinds of lidar (alarms change; it fails; its stream and clock change), timeouts and delay of one tick: no verdict rests on evidence that has expired, and faults reach the heartbeat and leave it by queries alone. |
| `lifecycle` | `OnlyLiveObjectsUsed`, `IdleIsServed`, `IdentityIsLatest`, `ImuNeverStranded`, `ImuInOrder`, `DestructorReturns` | Two nodes one after the other, nine ways to start each, so that every pair of success, failure and exception occurs; one lidar with two queued samples numbered modulo 3 (the least that shows a swap), one foreign lidar, usable and unusable serials, a parameter client. |

Deadlock is not checked: each of these systems stops by design (the destructor has
finished, the parser has returned) or at a bound of the model.

### Fairness

- `FrameDelivery`: both threads are scheduled, store buffers drain, the destructor
  goes on once it has begun (weak fairness). `StreamSpec` adds that frames keep
  arriving, because the wait predicate of the semaphore ignores the exit request:
  without a further frame a blocked publisher is never woken, and the join of the
  destructor does not return (`docs/modules/data_pipeline.md` says so too).
  `EveryFrameIsPublished` assumes in addition that the publisher keeps up
  (`BacklogClears`) and `ExitCompletes` that its inner loop, which ignores the exit
  request, is not fed faster than it drains (`InnerLoopEnds`).
- `Framing`: the thread runs, its 500 ms wait times out, a callback that began ends.
- `DeviceConfig`: the callback goes on and the SDK keeps answering commands, if only
  with timeouts (weak fairness of the answers taken together).
- `Heartbeat`: weak fairness for the threads; nobody competes for the mutexes once
  `Stop` runs.
- `StateRecorder`: weak fairness for the threads, and strong for the writer's lock,
  for which callbacks compete with `try_lock`.
- `DtcMonitor`: the timers fire and a streaming lidar's data arrives in every tick; the
  SDK returns every query, with a timeout if need be, and never stops giving a full
  answer now and then (strong fairness). Nothing is assumed of pushes.

- `NodeLifecycle`: the threads are scheduled, constructor and destructor go on, and
  while the SDK is up the lidar keeps sending clouds and IMU samples: the destructor
  joins threads that only data can wake. Nothing obliges a node to be made or
  destroyed. `DestructorReturns` is stated for a node whose SDK is up; after a failed
  initialisation the threads may be blocked for good.

### Limits the properties show

- On ARM, the deployed target, `RingIntact` and `PublishedInOrder` do not hold in the
  model: the ring has no barriers, so `wr_idx` may become visible before the points
  (TLC shows it with `RingIntact` added to `FrameStream.cfg`). Only `StrandedBound` is
  claimed there.
- `StrandedBound` is 1, not 0, on real machines: the unlocked `GetCount()` can read an
  old count before `wr_idx` is visible. The frame waits for the next one. (With
  `Memory = "SC"` the bound is 0: interleaving alone does not strand a frame.)
- `LidarsStart` excludes refused settings and configurations without any
  setting: the code leaves those lidars out of Sampling for good.
- On ARM `EveryFrameIsPublished` says that the consumer reaches the frame's turn, not
  that the copy it publishes is whole.
- `IdleIsServed` names one exception: after a node whose initialisation failed, the
  next node of the process initialises and reports Idle, but `request_exit_` is still
  set and its threads never poll. A file without the Livox bit initialises without an
  SDK and is excluded too.
- `OnlyLiveObjectsUsed` admits one crash: with an invalid `data_src` the destructor
  dereferences the null `lds_`. No other path leads there.
- `NeverGoesBack` holds for fewer than 2^32 clouds: `work_seq_` then wraps to zero, and a
  subscriber would see it shrink. At 10 Hz that takes 13 years.
- `CatchUpBounded` measures against the latest time the host clock has shown: after the
  clock was set forward far, the gate does cut a frame per packet until it has caught up,
  and after it was set back it cuts none until the clock returns.
- `StopFlushesAccepted` is about a writer that ended normally; one that is disabled or
  throws leaves rows behind by design.

## 4. Findings

1. `device_unlisted`: the branch commented "set the lidar according to the
   user-defined config" also runs for a lidar that the file does not list, on its
   second info change, and sends it settings from an all-zero record.
2. `config_blind_spot`: the README allows blind spots from 50 to 200 cm; the parser
   casts to `int8_t`, so 128 to 200 become negative.

## 5. Proofs

Every safety property of the passing runs is proved: each of their invariants, each
action property and the refinements of `FrameFifo` and `RowLog`. A theorem rests on the assumption of
the module that declares its constants, which TLC evaluates in the runs, and on one
inductive invariant.

### The frame path

`FrameProofs` proves, for every number of lidars, ring size, index width that is a
multiple of it and at least twice as large, set of formats and (where stated) memory
model, from `ConstantsAssumption`:

- `TypeCorrect`: `Spec => []TypeOK`, for all three memory models. The part that needs
  an argument is that the semaphore's count never exceeds 1: the only thread that
  signals has read zero before (`SignalSeesZero`), and only the consumer moves the
  count in between, downwards.
- `RingAlwaysIntact` and `FramesPublishedInOrder`: `RingIntact` and
  `PublishedInOrder` are invariants when `Memory # "ARM"`.
- `AtMostOneStranded`: `Spec => []StrandedBound`, for all three memory models.
- `QueueIsFifo`: with `Memory # "ARM"`, `Spec` implies `ImplementsFifo`.

What does not depend on the machine is `IndexInv`: `TypeOK`, `SignalSeesZero` and

- `IndexBuffers`: a buffered index belongs to the push or pop being executed;
- `RingBounded`: at most `Size` frames, also counted from the older `rd_idx` that the
  producer may still read;
- `PopHasFrame`: `QueuePop` runs on a ring that shows a frame.

`RingInv` adds, where stores keep their order,

- `SlotBufOwned`: the slot is drained before or with its index;
- `SlotsHold`: each accepted, untaken frame is in its slot, except the newest while its
  slot is being stored;
- `SlotStored`: a drained slot is ready for its index;
- `PublishedInOrder`.

`RingIntact` alone is not inductive: it says nothing of the frame that is stored but
not yet visible, nor of the room the producer has found. The arithmetic rests on two
lemmas: `SlotInjective` (indices less than a ring size apart use different slots) and
`WrapKeepsSlot` (the slot sequence goes on across the wrap because `Size` divides
`W`).

`StrandedBound` speaks only of a consumer that is blocked, with a producer between two
frames. `WakeupInv` says the same of the whole way there. While the count is zero, take
the frames in polled rings that the present pass of the consumer will not reach any more
(`Left`), without the one whose push has still to test the count (`Pushed`). There is at
most one such frame, none under sequential consistency, and if the store of `wr_idx` is
still buffered after the push it is that store's frame (`FewLeft`). The argument is that
a frame can be left behind only by a push that read a count which the consumer took
afterwards, or that the consumer could not yet see; the next push finds the count at
zero and the ring not empty, and signals. The clause about the buffered store is the
part that is not in the property: without it two pushes could each leave a frame.

For `QueueIsFifo`, `FrameRefinement` maps a ring to the sequence of the indices from
`rd_idx` to `wr_idx`; as a function of its first index and its length this is a
`Window`. The index increment of `QueuePushAny` appends to the window
(`WindowGrows`), that of `QueuePop` removes its head (`WindowShrinks`), and both hold
across the wrap because a sum below `2 * W` goes around once at most (`WrapOnce`).
`RingInv` says what the two steps need to be an `Accept` and a `Take`, and that the
publication finds the frame just taken; every other access of the code leaves the
abstract state alone.

### Framing

`FramingProofs` (`FramingAssumption`; any lidars, interval, stamps and number of
packets, and any clock):

- `NoPointLost`: `PointsConserved`. A step of either thread does one of three things to
  the points (`Moves`): a packet arrives at the end of those under way, the first of
  them is decoded into its lidar's cloud, or clouds are cut off, which moves the border
  between the last frame and the cloud and no point. What the property lacks is that a
  packet under way was sent (`WaitingSent`): otherwise a number could be given twice.
- `NoFrameTooEarly`: `CatchUpBounded`, from `HostClock`: the gate stands exactly
  `hostFrames` intervals after its first visit and never ahead of the latest time the clock
  has shown, however the clock is set.

### The other components

`DeviceProofs` (`DeviceAssumption`; any configuration file, slots, faults and reports):
`SlotsAreDistinct` and `SamplingNeedsSettings`. `DistinctSlots` needs that
`GetFreeIndex` looks among the free slots only. `SamplingIsConfigured` says nothing of
commands under way, so `DeviceInv` adds

- `SettingsTracked`: once a lidar's settings are being sent, each of them is still to be
  sent, has its bit in `set_bits`, or was acknowledged;
- `CallbackOwnsMutex`: `todo` belongs to the slot whose callback holds `config_mutex_`;
- `Untouched`: a lidar without a slot was sent nothing and is not Sampling.

`HeartbeatProofs` (`HeartbeatAssumption`; any codes, number of clouds and width of the
sequence number): `NumbersFollow`, `HeartbeatsMoveForward`, `FaultsOfOneBatch` and
`FailureReaches`. The first two are action properties of the last message (`NumbersFollow`
constrains every publication, so that the same number twice is not a stutter); the
invariant `HeartbeatInv` speaks of the one being made:

- `PublishOwned` and `NumberDrawn`: one caller between the number and the publication,
  and it holds the next number;
- `MessagesOrdered`: what a message has loaded lies between the last message and the
  present, in work and in the order of states;
- `ConstructorOrder`: no cloud is published beside a failed constructor;
- `BatchComplete`: with `fault_mutex_` free the active faults are a whole batch.

`RecorderProofs` (`RecorderAssumption`; any capacity, callbacks and calls):
`RowsWrittenInOrder` and `AcceptedRowsFlushed`. `Consecutive`
numbers the written rows, the row in the writer's hand and the queue as one sequence that
ends at `sequence_`; `ClosedForGood` says that `accepting_` is cleared only on a closed
queue, so that the empty queue the writer sees after it stays empty.

`RecorderIsLog` proves `Spec => ImplementsLog`. The log is what was written, the row in
the writer's hand and the queue, one after the other. A callback past the test of
`accepting_` has a submission pending, and `TryLock` or `Push` answers it: `Push` appends
it, counts it as lost, or counts it as a repetition, and then it is the state recorded
last. A step that answered a submission without counting it would be a step of no action
of `RowLog` and not a stutter. `Pop` moves the border between two of its parts, `Write` the one before, and
`NextSequence` appends the shutdown row to a log that is closed and written. `LogInv`
extends the numbering to a writer that was disabled or threw with a row in its hand
(`LogNumbered`), while callbacks that came before still push.

The same module proves the four properties of the files (`FilesAssumption`; any lines
per file, calls of `Write`, and faults): `RowsOrder`, `PartialLines`, `FileSizes` and the
action property `RotationKeepsRows`. A system call has one of four effects on what the
files hold (`Effects`): none, a line appended to the current file, a file moved to the
next name, or `.3` removed. `FilesInv` adds to the three invariants

- `OpenFile`: while the descriptor is open `file_size_` is right, and a file that may be
  appended to holds whole lines only and has room;
- `TargetGone`: the next rename of `Rotate` finds its target gone, also when an earlier
  attempt failed half-way, because every attempt starts at the unlink of `.3`;
- `RowsPast`: the next row is newer than every row on disk.

That removing `.3` removes exactly its rows also needs `RowsInOrder`: no other file holds
one of them.

`PtpProofs` (`PtpAssumption`; any timeouts, offsets, delay and number of
synchronisations, and clock settings that differ by more than the delay):
`MaskedOnlyWhenAlive`, `RepeatsAddNothing` and `BoundedOnOneStretch`. The properties
compare the monitor's belief with the lidar; between them are the reports under way.
`ReportsTrue` says they were true when sent, `MonitorTrue` that each moment taken for
an advance had a synchronisation behind it no older than the timeout and a delay, and
`OneStretch` that the last sample fits exactly one setting of the lidar's clock within
the delay: this is where the size of the settings is used.

`DtcProofs` (`DtcAssumption`; any timeouts, delay and lidar): `UsableWasUsable` and
`ClearedFaultsWereClear`. `PastTrue` and `BeliefTrue` say, of a report that can still
arrive and of what the monitor holds, that an alarm the lidar has and the report has
not came at most as many ticks ago as the report is old.

`LifecycleProofs` (`LifecycleAssumption`, `ImuAssumption`, `IdentityAssumption`; any
number of nodes, any set of launches, any number of lidars and queued samples):

- `UsersHaveObjects`, from `LifeInv`: who has started the SDK, a timer or a thread is at
  a place in the constructor or destructor from which it will be stopped (`SdkOwned`,
  `TimerOwned`, `ThreadsOwned`, `SourceOwned`).
- `LatestIdentity`, from `IdInv`: parameters and members agree except between the two
  steps of `Update`, and then the writer mark is set.
- `NoSampleStranded` and `SamplesInOrder`, from `ImuInv`: `ListWatched` says that a polled
  list that is not empty has a count, a signal on its way, or a reader that has not
  passed it, until the exit request; `ListOrdered` that the last publication, the list
  and the next sample carry consecutive numbers. `ImuInOrder` constrains the publication
  step itself: a sample published twice would violate it.
- `IdleNodeIsServed`, from `ServedInv`: callbacks are registered in the order of the
  code, the heartbeat says Idle only after the last (`HeartbeatFollows`), and
  `request_exit_` stems from this node's destructor or from a node that failed
  (`PastRemembered`).

Only model-checked:

- the liveness properties (`EveryFrameIsPublished`, `ExitCompletes`, `QuitEndsThread`,
  `LidarsStart`, both `StopReturns`, `FaultsFollowAlarms`, `InOrderIsUsable`,
  `DestructorReturns`), which with fairness and `ENABLED` are outside what the prover
  handles;
- `ConfigParse`, whose run shows a violation.

On ARM `IndexInv` and `WakeupInv` are all that is proved of the ring: there `RingIntact` is
false.

## 6. Not modelled

The compression nodes (stand-alone tools that turn one message into another and share
no state with the driver); two driver nodes at once in a process; message contents,
`output_type_` and bags, the creation of publishers, coordinates, extrinsics, the JSON text of recorder rows and
CPU affinity (data or I/O no property tells apart);
`ResetIndex`, `LvxGetIndex` and `StorageLvxPointData` (no caller); ROS 1 branches of
the preprocessor; the Livox SDK itself, which appears only through its callbacks.

## 7. Plan

Done: the frame path with its abstract specification and its ring proof; framing,
device configuration, heartbeat, recorder, DTC monitor with its queries; the IMU path,
the identity parameters and the life of the node.

Proved: every safety property of the runs, and the refinements of `FrameFifo` and
`RowLog`.

Left, modelling: an abstract specification of the fault latch that `DtcMonitor` and
`Heartbeat` implement together.

Left, proofs: that refinement, and the safety facts the liveness properties rest on (who
holds each lock, and that no thread waits without a step of another to wake it).
