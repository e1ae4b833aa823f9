--------------------------- MODULE FrameDelivery ---------------------------
(***************************************************************************)
(* The whole-frame path of the driver: the framing thread pushes finished  *)
(* point-cloud frames into one lock-free ring per lidar (comm/ldq.cpp),    *)
(* wakes the publishing thread through a counting semaphore whose count it *)
(* reads without the lock (Lds::PushLidarData), and the publishing thread  *)
(* drains the rings of the lidars that are Sampling                        *)
(* (Lddc::DistributePointCloudData) until the node's destructor stops it.  *)
(*                                                                         *)
(* rd_idx and wr_idx are volatile but not atomic, so what the other thread *)
(* sees depends on the machine.  Each index is kept as its owner sees it,  *)
(* and wrBuf, slotBuf and rdBuf say that a store still sits in the owner's *)
(* store buffer.  Memory selects how the buffer drains.  A mutex operation *)
(* is a full fence.                                                        *)
(*                                                                         *)
(* A frame is identified by the ring index it was accepted under, modulo   *)
(* the width W of the index: the frames of one lidar are then told apart   *)
(* as long as W exceeds the ring size, and behaviours can be infinite.     *)
(***************************************************************************)
EXTENDS Integers, FiniteSets

CONSTANTS
  NumLidars,  \* the entries of lidars_[] in use (lidar_count_)
  Size,       \* ring size; InitQueue rounds it up to a power of two
  W,          \* number of values of the uint32_t ring indices (2^32)
  Formats,    \* values of xfer_format: "PointCloud2", "CustomMsg", "Pcl"
  Memory,     \* "SC", "TSO" (x86-64) or "ARM" (the deployed Orin)
  Torn        \* content of a slot whose stores are not all visible

ASSUME ConstantsAssumption ==
  /\ NumLidars \in Nat \ {0}
  /\ Size \in Nat \ {0}
  /\ W \in Nat /\ W % Size = 0 /\ W >= 2 * Size
  /\ Formats \subseteq {"PointCloud2", "CustomMsg", "Pcl"}
  /\ Memory \in {"SC", "TSO", "ARM"}
  /\ Torn \notin Nat

VARIABLES
  format,     \* transfer_format_, a parameter of the node
  \* LidarDataQueue and LidarDevice, one per lidar
  ready,      \* storage_packet # nullptr
  rd, wr,     \* rd_idx as the consumer, wr_idx as the producer sees it
  slot,       \* storage_packet[], as it is in memory
  conn,       \* connect_state = kConnectStateSampling
  \* stores not yet visible to the other thread: a lidar, or None
  wrBuf, slotBuf, rdBuf,
  \* Semaphore pcd_semaphore_
  count,
  \* the framing thread inside StoragePointData
  ppc, plidar,
  \* PointCloudDataPollThread
  cpc, clidar, pkg,
  polled,     \* history: lidars some pass of the consumer found Sampling
  \* ~DriverNode
  dpc, requestExit, exitSignal

producerVars == <<ppc, plidar>>
consumerVars == <<cpc, clidar, pkg, polled>>
ringVars     == <<ready, rd, wr, slot, wrBuf, slotBuf, rdBuf>>
exitVars     == <<dpc, requestExit, exitSignal>>
vars == <<format, ringVars, conn, count, producerVars, consumerVars, exitVars>>

Lidars == 0 .. NumLidars - 1
None   == -1
Idx    == 0 .. W - 1

----------------------------------------------------------------------------
(* Arithmetic of the uint32_t indices. *)

Inc(i) == IF i = W - 1 THEN 0 ELSE i + 1
Dec(i) == IF i = 0 THEN W - 1 ELSE i - 1

\* to - from in uint32_t arithmetic.
QueueUsedSize(from, to) == IF to >= from THEN to - from ELSE to - from + W

\* index & mask, for a power-of-two size.
Slot(i) == i % Size

\* Mutant of QueueIsFull: the last free slot is not kept.
QueueIsFullLate(from, to) == QueueUsedSize(from, to) > Size
QueueIsFull(from, to) == QueueUsedSize(from, to) > Size - 1
QueueIsEmpty(from, to) == from = to

\* What the other thread reads from memory.
WrSeen(l) == IF wrBuf = l THEN Dec(wr[l]) ELSE wr[l]
RdSeen(l) == IF rdBuf = l THEN Dec(rd[l]) ELSE rd[l]

\* The producer may execute its next instruction: under SC only once every
\* earlier store is visible.
ProducerMayGo == Memory = "SC" => wrBuf = None /\ slotBuf = None
ConsumerMayGo == Memory = "SC" => rdBuf = None

----------------------------------------------------------------------------
Init ==
  /\ format \in Formats
  /\ ready = [l \in Lidars |-> FALSE]
  /\ rd = [l \in Lidars |-> 0]
  /\ wr = [l \in Lidars |-> 0]
  /\ slot = [l \in Lidars |-> [s \in 0 .. Size - 1 |-> Torn]]
  /\ conn = [l \in Lidars |-> FALSE]
  /\ wrBuf = None /\ slotBuf = None /\ rdBuf = None
  /\ count = 0
  /\ ppc = "idle" /\ plidar = 0
  /\ cpc = "enter" /\ clidar = 0 /\ pkg = Torn
  /\ polled = {}
  /\ dpc = "up" /\ requestExit = FALSE /\ exitSignal = FALSE

----------------------------------------------------------------------------
(* The framing thread. *)

\* StoragePointData takes the next lidar of the frame (GetIndex locks
\* index_mutex_) and PushLidarData begins: the ring is created on first use.
StoragePointData(l) ==
  /\ ppc = "idle" /\ dpc \notin {"quitting", "down"}
  /\ wrBuf = None /\ slotBuf = None
  /\ ready' = [ready EXCEPT ![l] = TRUE]
  /\ plidar' = l
  /\ ppc' = "full"
  /\ UNCHANGED <<format, rd, wr, slot, wrBuf, slotBuf, rdBuf, conn, count, consumerVars, exitVars>>

\* The capacity test of PushLidarData: a full ring drops the new frame.
TestFull ==
  /\ ppc = "full"
  /\ ppc' = IF QueueIsFull(RdSeen(plidar), wr[plidar]) THEN "count" ELSE "slot"
  /\ UNCHANGED <<format, ringVars, conn, count, plidar, consumerVars, exitVars>>

\* QueuePushAny starts to overwrite the slot: base_time, points_num, points.
StoreSlot ==
  /\ ppc = "slot"
  /\ slot' = [slot EXCEPT ![plidar][Slot(wr[plidar])] = Torn]
  /\ slotBuf' = plidar
  /\ ppc' = "index"
  /\ UNCHANGED <<format, ready, rd, wr, wrBuf, rdBuf, conn, count, plidar, consumerVars, exitVars>>

\* queue->wr_idx++
StoreWrIdx ==
  /\ ppc = "index" /\ ProducerMayGo
  /\ wr' = [wr EXCEPT ![plidar] = Inc(@)]
  /\ wrBuf' = plidar
  /\ ppc' = "empty"
  /\ UNCHANGED <<format, ready, rd, slot, slotBuf, rdBuf, conn, count, plidar, consumerVars, exitVars>>

\* Mutant of TestEmptyAfterPush: the test is inverted.
TestEmptyInverted ==
  /\ ppc = "empty" /\ ProducerMayGo
  /\ ppc' = IF QueueIsEmpty(RdSeen(plidar), wr[plidar]) THEN "count" ELSE "idle"
  /\ UNCHANGED <<format, ringVars, conn, count, plidar, consumerVars, exitVars>>

\* if (!QueueIsEmpty(queue)) after the push.
TestEmptyAfterPush ==
  /\ ppc = "empty" /\ ProducerMayGo
  /\ ppc' = IF QueueIsEmpty(RdSeen(plidar), wr[plidar]) THEN "idle" ELSE "count"
  /\ UNCHANGED <<format, ringVars, conn, count, plidar, consumerVars, exitVars>>

\* Mutant of TestCount: every push signals.
TestCountDropped ==
  /\ ppc = "count" /\ ProducerMayGo
  /\ ppc' = "signal"
  /\ UNCHANGED <<format, ringVars, conn, count, plidar, consumerVars, exitVars>>

\* if (pcd_semaphore_.GetCount() <= 0), read without the semaphore's mutex.
TestCount ==
  /\ ppc = "count" /\ ProducerMayGo
  /\ ppc' = IF count <= 0 THEN "signal" ELSE "idle"
  /\ UNCHANGED <<format, ringVars, conn, count, plidar, consumerVars, exitVars>>

\* Semaphore::Signal; its mutex drains the producer's stores first.
Signal ==
  /\ ppc = "signal"
  /\ wrBuf = None /\ slotBuf = None
  /\ count' = count + 1
  /\ ppc' = "idle"
  /\ UNCHANGED <<format, ringVars, conn, plidar, consumerVars, exitVars>>

----------------------------------------------------------------------------
(* The machine makes buffered stores visible. *)

\* The slot of the frame being pushed is complete in memory.  Its index is
\* wr before StoreWrIdx and Dec(wr) after it.
DrainSlot ==
  LET i == IF ppc = "index" THEN wr[plidar] ELSE Dec(wr[plidar]) IN
  /\ slotBuf # None
  /\ slot' = [slot EXCEPT ![plidar][Slot(i)] = i]
  /\ slotBuf' = None
  /\ UNCHANGED <<format, ready, rd, wr, wrBuf, rdBuf, conn, count, producerVars, consumerVars, exitVars>>

\* Stores reach memory in program order except on ARM.
DrainWrIdx ==
  /\ wrBuf # None
  /\ Memory # "ARM" => slotBuf = None
  /\ wrBuf' = None
  /\ UNCHANGED <<format, ready, rd, wr, slot, slotBuf, rdBuf, conn, count, producerVars, consumerVars, exitVars>>

DrainRdIdx ==
  /\ rdBuf # None
  /\ rdBuf' = None
  /\ UNCHANGED <<format, ready, rd, wr, slot, wrBuf, slotBuf, conn, count, producerVars, consumerVars, exitVars>>

----------------------------------------------------------------------------
(* The publishing thread: PointCloudDataPollThread around                  *)
(* Lddc::DistributePointCloudData.                                         *)

EnterDistribute ==
  /\ cpc = "enter"
  /\ cpc' = IF requestExit THEN "future" ELSE "wait"
  /\ UNCHANGED <<format, ringVars, conn, count, producerVars, clidar, pkg, polled, exitVars>>

\* Mutant of Wait: the loop over the lidars starts at the second one.
WaitSkipsFirst ==
  /\ cpc = "wait" /\ count > 0
  /\ rdBuf = None
  /\ count' = count - 1
  /\ clidar' = 1
  /\ cpc' = "scan"
  /\ UNCHANGED <<format, ringVars, conn, producerVars, pkg, polled, exitVars>>

\* Semaphore::Wait returns: the predicate is count_ > 0 and nothing else.
Wait ==
  /\ cpc = "wait" /\ count > 0
  /\ rdBuf = None
  /\ count' = count - 1
  /\ clidar' = 0
  /\ cpc' = "scan"
  /\ UNCHANGED <<format, ringVars, conn, producerVars, pkg, polled, exitVars>>

\* The loop over lidars_[]: a lidar that is not Sampling, or has no ring
\* yet, is passed over.
ScanLidar ==
  /\ cpc = "scan" /\ clidar < NumLidars
  /\ polled' = IF conn[clidar] THEN polled \union {clidar} ELSE polled
  /\ \/ /\ conn[clidar] /\ ready[clidar]
        /\ cpc' = "poll" /\ UNCHANGED clidar
     \/ /\ ~(conn[clidar] /\ ready[clidar])
        /\ clidar' = clidar + 1 /\ UNCHANGED cpc
  /\ UNCHANGED <<format, ringVars, conn, count, producerVars, pkg, exitVars>>

EndScan ==
  /\ cpc = "scan" /\ clidar = NumLidars
  /\ cpc' = "future"
  /\ UNCHANGED <<format, ringVars, conn, count, producerVars, clidar, pkg, polled, exitVars>>

\* Mutant of PollLidar: the exit request is not tested.
PollLidarIgnoresExit ==
  /\ cpc = "poll" /\ ConsumerMayGo
  /\ \/ /\ QueueIsEmpty(rd[clidar], WrSeen(clidar))
        /\ clidar' = clidar + 1 /\ cpc' = "scan"
     \/ /\ ~QueueIsEmpty(rd[clidar], WrSeen(clidar))
        /\ cpc' = IF format = "Pcl" THEN "pcl" ELSE "pop"
        /\ UNCHANGED clidar
  /\ UNCHANGED <<format, ringVars, conn, count, producerVars, pkg, polled, exitVars>>

\* while (!IsRequestExit() && !QueueIsEmpty()) of PollingLidarPointCloudData.
PollLidar ==
  /\ cpc = "poll" /\ ConsumerMayGo
  /\ \/ /\ requestExit \/ QueueIsEmpty(rd[clidar], WrSeen(clidar))
        /\ clidar' = clidar + 1 /\ cpc' = "scan"
     \/ /\ ~requestExit /\ ~QueueIsEmpty(rd[clidar], WrSeen(clidar))
        /\ cpc' = IF format = "Pcl" THEN "pcl" ELSE "pop"
        /\ UNCHANGED clidar
  /\ UNCHANGED <<format, ringVars, conn, count, producerVars, pkg, polled, exitVars>>

\* In ROS 2 PublishPclMsg returns without taking anything from the ring.
PublishPclMsg ==
  /\ cpc = "pcl"
  /\ cpc' = "poll"
  /\ UNCHANGED <<format, ringVars, conn, count, producerVars, clidar, pkg, polled, exitVars>>

\* while (!QueueIsEmpty(queue)) of PublishPointcloud2 and
\* PublishCustomPointcloud: this inner loop does not look at request_exit_.
TestEmptyBeforePop ==
  /\ cpc = "pop" /\ ConsumerMayGo
  /\ cpc' = IF QueueIsEmpty(rd[clidar], WrSeen(clidar)) THEN "poll" ELSE "copy"
  /\ UNCHANGED <<format, ringVars, conn, count, producerVars, clidar, pkg, polled, exitVars>>

\* Mutant of QueuePop: rd_idx advances before the copy.
QueuePopSwapped ==
  /\ cpc = "copy"
  /\ pkg' = slot[clidar][Slot(Inc(rd[clidar]))]
  /\ rd' = [rd EXCEPT ![clidar] = Inc(@)]
  /\ rdBuf' = clidar
  /\ cpc' = "publish"
  /\ UNCHANGED <<format, ready, wr, slot, wrBuf, slotBuf, conn, count, producerVars, clidar, polled, exitVars>>

\* QueuePop: QueuePrePop copies the slot, QueuePopUpdate advances rd_idx.
QueuePop ==
  /\ cpc = "copy"
  /\ pkg' = slot[clidar][Slot(rd[clidar])]
  /\ rd' = [rd EXCEPT ![clidar] = Inc(@)]
  /\ rdBuf' = clidar
  /\ cpc' = "publish"
  /\ UNCHANGED <<format, ready, wr, slot, wrBuf, slotBuf, conn, count, producerVars, clidar, polled, exitVars>>

\* ARM may let the store of rd_idx pass the loads of the copy.
QueuePopUpdateEarly ==
  /\ cpc = "copy" /\ Memory = "ARM"
  /\ rd' = [rd EXCEPT ![clidar] = Inc(@)]
  /\ rdBuf' = clidar
  /\ cpc' = "late"
  /\ UNCHANGED <<format, ready, wr, slot, wrBuf, slotBuf, conn, count, producerVars, clidar, pkg, polled, exitVars>>

QueuePrePopLate ==
  /\ cpc = "late"
  /\ pkg' = slot[clidar][Slot(Dec(rd[clidar]))]
  /\ cpc' = "publish"
  /\ UNCHANGED <<format, ringVars, conn, count, producerVars, clidar, polled, exitVars>>

\* Build the message and publish it; publish() locks, which is a fence.  Unless
\* output_type_ is kOutputToRos the finished message is written to a bag (ROS 1)
\* or let go instead: the frame has left the ring in either case.
Publish ==
  /\ cpc = "publish" /\ rdBuf = None
  /\ pkg' = Torn
  /\ cpc' = "pop"
  /\ UNCHANGED <<format, ringVars, conn, count, producerVars, clidar, polled, exitVars>>

\* future_.wait_for(0) decides whether the thread goes round again.
TestFuture ==
  /\ cpc = "future"
  /\ cpc' = IF exitSignal THEN "done" ELSE "enter"
  /\ UNCHANGED <<format, ringVars, conn, count, producerVars, clidar, pkg, polled, exitVars>>

----------------------------------------------------------------------------
(* The environment of the two threads. *)

\* The last outstanding setting of the lidar is acknowledged
\* (livox_lidar_callback.cpp); the state never goes back.
StartSampling(l) ==
  /\ ~conn[l]
  /\ conn' = [conn EXCEPT ![l] = TRUE]
  /\ UNCHANGED <<format, ringVars, count, producerVars, consumerVars, exitVars>>

\* ~DriverNode: RequestExit, the future, the join; when the process exits,
\* ~PubHandler stops and joins the framing thread.
RequestExit ==
  /\ dpc = "up" /\ dpc' = "exiting"
  /\ requestExit' = TRUE
  /\ UNCHANGED <<format, ringVars, conn, count, producerVars, consumerVars, exitSignal>>

SetExitSignal ==
  /\ dpc = "exiting" /\ dpc' = "joining"
  /\ exitSignal' = TRUE
  /\ UNCHANGED <<format, ringVars, conn, count, producerVars, consumerVars, requestExit>>

JoinPublisher ==
  /\ dpc = "joining" /\ cpc = "done" /\ dpc' = "joined"
  /\ UNCHANGED <<format, ringVars, conn, count, producerVars, consumerVars, requestExit, exitSignal>>

\* PubHandler::Uninit: is_quit_ is set, then the framing thread is joined.
QuitFraming ==
  /\ dpc = "joined" /\ dpc' = "quitting"
  /\ UNCHANGED <<format, ringVars, conn, count, producerVars, consumerVars, requestExit, exitSignal>>

JoinFraming ==
  /\ dpc = "quitting" /\ ppc = "idle" /\ dpc' = "down"
  /\ UNCHANGED <<format, ringVars, conn, count, producerVars, consumerVars, requestExit, exitSignal>>

----------------------------------------------------------------------------
ProducerStep ==
  \/ TestFull \/ StoreSlot \/ StoreWrIdx \/ TestEmptyAfterPush \/ TestCount \/ Signal

DrainStep == DrainSlot \/ DrainWrIdx \/ DrainRdIdx

ConsumerStep ==
  \/ EnterDistribute \/ Wait \/ ScanLidar \/ EndScan \/ PollLidar \/ PublishPclMsg
  \/ TestEmptyBeforePop \/ QueuePop \/ QueuePopUpdateEarly \/ QueuePrePopLate
  \/ Publish \/ TestFuture

ExitStep == RequestExit \/ SetExitSignal \/ JoinPublisher \/ QuitFraming \/ JoinFraming

Next ==
  \/ \E l \in Lidars : StoragePointData(l) \/ StartSampling(l)
  \/ ProducerStep
  \/ DrainStep
  \/ ConsumerStep
  \/ ExitStep

Spec == Init /\ [][Next]_vars

\* Threads are scheduled and store buffers drain; once begun, the destructor
\* goes on.  Nothing obliges a frame to arrive or the node to be destroyed.
Fairness ==
  /\ WF_vars(ProducerStep) /\ WF_vars(ConsumerStep)
  /\ WF_vars(DrainSlot) /\ WF_vars(DrainWrIdx) /\ WF_vars(DrainRdIdx)
  /\ WF_vars(SetExitSignal \/ JoinPublisher \/ QuitFraming \/ JoinFraming)

FairSpec == Spec /\ Fairness

\* The lidar keeps sending, so the framing thread keeps finishing frames.
StreamSpec == FairSpec /\ WF_vars(\E l \in Lidars : StoragePointData(l))

----------------------------------------------------------------------------
(* Properties. *)

\* Type invariant; count_ never exceeds one because the only thread that
\* signals does so after reading zero, and only the consumer moves in between.
TypeOK ==
  /\ format \in Formats
  /\ ready \in [Lidars -> BOOLEAN]
  /\ rd \in [Lidars -> Idx]
  /\ wr \in [Lidars -> Idx]
  /\ slot \in [Lidars -> [0 .. Size - 1 -> Idx \union {Torn}]]
  /\ conn \in [Lidars -> BOOLEAN]
  /\ wrBuf \in Lidars \union {None}
  /\ slotBuf \in Lidars \union {None}
  /\ rdBuf \in Lidars \union {None}
  /\ count \in {0, 1}
  /\ ppc \in {"idle", "full", "slot", "index", "empty", "count", "signal"}
  /\ plidar \in Lidars
  /\ cpc \in {"enter", "wait", "scan", "poll", "pcl", "pop", "copy", "late",
              "publish", "future", "done"}
  /\ clidar \in 0 .. NumLidars
  /\ cpc \in {"poll", "pcl", "pop", "copy", "late", "publish"} => clidar \in Lidars
  /\ pkg \in Idx \union {Torn}
  /\ polled \subseteq Lidars
  /\ dpc \in {"up", "exiting", "joining", "joined", "quitting", "down"}
  /\ requestExit \in BOOLEAN
  /\ exitSignal \in BOOLEAN

\* Every frame the publishing thread can see in a ring is complete and in its
\* place: QueuePushAny never overwrites a frame that QueuePop has not taken,
\* across the wrap of the indices, and wr_idx never shows a frame before its
\* points are there.
RingIntact ==
  \A l \in Lidars : \A i \in Idx :
    QueueUsedSize(rd[l], i) < QueueUsedSize(rd[l], WrSeen(l)) => slot[l][Slot(i)] = i

\* The frame handed to publish() is the oldest accepted frame not published
\* before: none is lost, repeated, reordered or torn between PushLidarData
\* and PublishPointcloud2.
PublishedInOrder == cpc = "publish" => pkg = Dec(rd[clidar])

\* A frame of lidar l, by its index, accepted and not taken yet.
InRing(l, i) == QueueUsedSize(rd[l], i) < QueueUsedSize(rd[l], wr[l])

\* When the publishing thread is blocked in Wait() with nothing to wake it and
\* the framing thread is between frames, the frames left in rings it has
\* polled are none under sequential consistency and at most one on real
\* machines, where the unlocked GetCount() can overtake the store of wr_idx.
Stranded == {f \in polled \X Idx : InRing(f[1], f[2])}
StrandedBound ==
  cpc = "wait" /\ count = 0 /\ ppc = "idle" /\ wrBuf = None
    => Cardinality(Stranded) <= (IF Memory = "SC" THEN 0 ELSE 1)

\* Liveness assumption: the publishing thread is not outrun forever.
BacklogClears == []<>(cpc \in {"wait", "future", "done"})
InnerLoopEnds == []<>(cpc \notin {"pop", "copy", "late", "publish"})

\* While frames keep arriving and the publisher keeps up, every frame queued
\* for a Sampling lidar is taken from its ring and published, unless the node
\* is shut down or its format is the one ROS 2 cannot publish.  (That it is
\* published intact is PublishedInOrder, which ARM does not promise.)
EveryFrameIsPublished ==
  BacklogClears =>
    \A l \in Lidars : \A i \in Idx :
      (format # "Pcl" /\ conn[l] /\ InRing(l, i))
        ~> (requestExit \/ (cpc = "publish" /\ clidar = l /\ i = Dec(rd[l])))

\* While frames keep arriving, the destructor's join of the publishing thread
\* returns: the next Signal takes it out of Wait(), whose predicate ignores
\* the exit request.
ExitCompletes == InnerLoopEnds => (requestExit ~> dpc = "down")

----------------------------------------------------------------------------
(* The inductive strengthening of the safety properties.  IndexInv and     *)
(* WakeupInv hold on every machine, RingInv, which adds what the slots     *)
(* hold, where stores stay in program order.                               *)

\* The producer signals only after it has read a zero count.
SignalSeesZero == ppc = "signal" => count = 0

\* A buffered index belongs to the push, or to the pop, being executed, and
\* under sequential consistency the push waits for it.
IndexBuffers ==
  /\ wrBuf # None => wrBuf = plidar /\ ppc \in {"empty", "count", "signal", "idle"}
  /\ wrBuf # None /\ Memory = "SC" => ppc = "empty"
  /\ rdBuf # None => rdBuf = clidar /\ cpc \in {"late", "publish"}

\* The ring never holds more than Size frames, counted from the oldest index
\* either thread may still believe in.
RingBounded ==
  \A l \in Lidars :
    /\ QueueUsedSize(rd[l], wr[l]) <= Size
    /\ wrBuf = l => rd[l] # wr[l]
    /\ rdBuf = l => QueueUsedSize(rd[l], wr[l]) <= Size - 1
    /\ plidar = l /\ ppc \in {"slot", "index"} =>
         QueueUsedSize(RdSeen(l), wr[l]) <= Size - 1

\* QueuePop runs on a ring that still shows a frame.
PopHasFrame == cpc = "copy" => rd[clidar] # WrSeen(clidar)

IndexInv == TypeOK /\ SignalSeesZero /\ IndexBuffers /\ RingBounded /\ PopHasFrame

\* A ring holds nothing before it is created, and no lidar leaves Sampling.
RingReady ==
  /\ \A l \in Lidars : ~ready[l] => rd[l] = wr[l]
  /\ ppc # "idle" => ready[plidar]
  /\ \A l \in polled : conn[l]

\* The present pass of the consumer has still to empty the ring of lidar l.
Covered(l) == clidar <= l /\ cpc \in {"scan", "poll", "pcl", "pop", "copy", "late", "publish"}
Left == {f \in Stranded : ~Covered(f[1])}

\* The last frame pushed, and whether its push has yet to test count_.
Newest == <<plidar, Dec(wr[plidar])>>
Pushed == IF ppc \in {"empty", "count", "signal"} THEN {Newest} ELSE {}

\* Of the frames the pass leaves and no push is about to signal for there is
\* at most one; if the store of wr_idx is still buffered after the push, it
\* is the frame of that store.
FewLeft ==
  /\ \A f, g \in Left \ Pushed : f = g
  /\ Memory = "SC" => Left \subseteq Pushed
  /\ wrBuf # None /\ ppc = "idle" => Left \subseteq {Newest}

\* So it is while nothing wakes the consumer, until it sees the exit request.
WakeupInv == count = 0 /\ (requestExit => cpc = "wait") => FewLeft

\* A buffered slot belongs to the push being executed and drains before its
\* index; the consumer does not copy late.
SlotBufOwned ==
  /\ slotBuf # None =>
       /\ slotBuf = plidar
       /\ \/ ppc = "index"
          \/ ppc \in {"empty", "count", "signal", "idle"} /\ wrBuf = plidar
  /\ cpc # "late"

\* Every accepted frame not yet taken is in its slot, except the newest one
\* while its slot is still being stored.
SlotsHold ==
  \A l \in Lidars : \A i \in Idx :
    /\ InRing(l, i)
    /\ ~(slotBuf = l /\ ppc # "index" /\ i = Dec(wr[l]))
    => slot[l][Slot(i)] = i

\* Once its stores have drained, the slot of the frame being pushed is ready
\* for wr_idx to show it.
SlotStored ==
  ppc = "index" /\ slotBuf = None => slot[plidar][Slot(wr[plidar])] = wr[plidar]

RingInv == IndexInv /\ SlotBufOwned /\ SlotsHold /\ SlotStored /\ PublishedInOrder
============================================================================
