------------------------------ MODULE Framing ------------------------------
(***************************************************************************)
(* comm/pub_handler.cpp: the SDK's data callback queues raw packets, the   *)
(* framing thread decodes them into one growing cloud per lidar and cuts   *)
(* the clouds into frames.  With synchronised stamps a lidar's own packet  *)
(* stamps cut its cloud; without, the host clock cuts the clouds of all    *)
(* lidars.  One static flag, written by the callback for every packet of   *)
(* every lidar, IMU packets too, selects between the two when the framing  *)
(* thread gets there.  The host clock is high_resolution_clock, which may  *)
(* be the system clock: it can be set, forward and back.                   *)
(*                                                                         *)
(* A tick is one millisecond.  A packet holds one point, or none that can  *)
(* be decoded; its stamp is the device's if synchronised, else the host's. *)
(***************************************************************************)
EXTENDS Integers, SequencesExt

CONSTANTS
  Lidars,
  Interval,     \* publish_interval_ms_
  Stamps,       \* device stamps, in any order: clocks are set and set back
  StampValues,  \* number of values of a uint64_t stamp (2^64)
  Times,        \* readings of the host clock
  MaxPackets    \* bound: point packets

ASSUME FramingAssumption ==
  /\ Interval \in Nat /\ Interval > 1
  /\ StampValues \in Nat /\ Stamps \subseteq 0 .. StampValues - 1
  /\ Times \subseteq 0 .. StampValues - 1 /\ MaxPackets \in Nat

\* publish_interval_tolerance_: one millisecond less than the interval.
Tolerance == Interval - 1

VARIABLES
  now,          \* high_resolution_clock
  isSync,       \* is_timestamp_sync_
  cb,           \* the packet inside OnLivoxLidarPointCloudCallback, if any
  raw,          \* raw_packet_queue_
  fpc, held,    \* the framing thread, and the packet it took
  clouds,       \* points_clouds_ of each lidar's handler
  first, lastPub,   \* the host-clock gate
  quit,         \* is_quit_
  out,          \* history: the frames handed to StoragePointData, per lidar
  sent,         \* history: the points of the packets, per lidar
  hostFrames, hostStart, \* history: cuts by the host clock, and when it began
  latest        \* history: the latest time the host clock has shown

callbackVars == <<isSync, cb, sent>>
threadVars   == <<fpc, held, clouds, first, lastPub, out, hostFrames, hostStart>>
clockVars    == <<now, latest>>
vars == <<clockVars, callbackVars, raw, threadVars, quit>>

Point(n, t) == [id |-> n, stamp |-> t]

Init ==
  /\ now = 0 /\ latest = 0 /\ isSync = FALSE /\ cb = <<>> /\ raw = <<>>
  /\ fpc = "top" /\ held = <<>>
  /\ clouds = [l \in Lidars |-> <<>>]
  /\ first = TRUE /\ lastPub = 0 /\ quit = FALSE
  /\ out = [l \in Lidars |-> <<>>]
  /\ sent = [l \in Lidars |-> <<>>]
  /\ hostFrames = 0 /\ hostStart = 0

\* Time passes, or the clock is set.
MoveClock(t) ==
  /\ now' = t /\ latest' = IF t > latest THEN t ELSE latest
  /\ UNCHANGED <<callbackVars, raw, threadVars, quit>>

----------------------------------------------------------------------------
(* OnLivoxLidarPointCloudCallback. *)

Packets == FoldFunction(LAMBDA s, n : Len(s) + n, 0, sent)

\* The flag is set first; the packet takes its stamp from the device only if
\* it is synchronised (GetEthPacketTimestamp).
OnPacket(l, sync, stamp, decodable) ==
  LET t == IF sync THEN stamp ELSE now IN
  /\ cb = <<>> /\ ~quit /\ Packets < MaxPackets
  /\ isSync' = sync
  /\ cb' = <<[lidar |-> l, decodable |-> decodable, point |-> Point(Len(sent[l]) + 1, t)]>>
  /\ sent' = [sent EXCEPT ![l] = Append(@, decodable)]
  /\ UNCHANGED <<clockVars, raw, threadVars, quit>>

\* An IMU packet writes the flag like any other; the sample then goes straight
\* to imu_callback_ (ImuDelivery) and nothing is queued here.
OnImuPacket(sync) ==
  /\ cb = <<>> /\ ~quit
  /\ isSync' = sync
  /\ UNCHANGED <<clockVars, cb, sent, raw, threadVars, quit>>

PushPacket ==
  /\ cb # <<>>
  /\ raw' = raw \o cb /\ cb' = <<>>
  /\ UNCHANGED <<clockVars, isSync, sent, threadVars, quit>>

----------------------------------------------------------------------------
(* RawDataProcess. *)

TestQuit ==
  /\ fpc = "top"
  /\ fpc' = IF quit THEN "done" ELSE "take"
  /\ UNCHANGED <<clockVars, callbackVars, raw, held, clouds, first, lastPub, out, hostFrames, hostStart, quit>>

TakePacket ==
  /\ fpc = "take" /\ raw # <<>>
  /\ held' = <<Head(raw)>> /\ raw' = Tail(raw)
  /\ fpc' = "process"
  /\ UNCHANGED <<clockVars, callbackVars, clouds, first, lastPub, out, hostFrames, hostStart, quit>>

\* Mutant of WaitTimesOut: wait() without the 500 ms.
WaitTimesOutNever == FALSE

\* packet_condition_.wait_for(500 ms) ends with the queue still empty.
WaitTimesOut ==
  /\ fpc = "take" /\ raw = <<>>
  /\ fpc' = "top"
  /\ UNCHANGED <<clockVars, callbackVars, raw, held, clouds, first, lastPub, out, hostFrames, hostStart, quit>>

\* PointCloudProcess: an unknown data type adds nothing.
PointCloudProcess ==
  LET p == Head(held) IN
  /\ fpc = "process"
  /\ clouds' = IF p.decodable THEN [clouds EXCEPT ![p.lidar] = Append(@, p.point)] ELSE clouds
  /\ fpc' = "timer"
  /\ UNCHANGED <<clockVars, callbackVars, raw, held, first, lastPub, out, hostFrames, hostStart, quit>>

\* GetLidarBaseTime and GetRecentTimeStamp: zero for an empty cloud.
BaseTime(l)   == IF clouds[l] = <<>> THEN 0 ELSE Head(clouds[l]).stamp
RecentTime(l) == IF clouds[l] = <<>> THEN 0 ELSE Last(clouds[l]).stamp

\* The gates of the synchronised branch; the difference is unsigned.
SyncGatesOpen(l) ==
  /\ RecentTime(l) # 0 /\ RecentTime(l) % Interval = 0
  /\ (RecentTime(l) - BaseTime(l)) % StampValues >= Tolerance

\* Mutant of CheckTimerSync: the cloud is copied and not swapped out.
CheckTimerSyncCopies ==
  LET l == Head(held).lidar IN
  /\ fpc = "timer" /\ isSync
  /\ out' = IF SyncGatesOpen(l) THEN [out EXCEPT ![l] = Append(@, clouds[l])] ELSE out
  /\ fpc' = "top" /\ held' = <<>>
  /\ UNCHANGED <<clockVars, callbackVars, raw, clouds, first, lastPub, hostFrames, hostStart, quit>>

\* CheckTimer, synchronised: cut the cloud of the packet's lidar.
CheckTimerSync ==
  LET l == Head(held).lidar IN
  /\ fpc = "timer" /\ isSync
  /\ \/ /\ SyncGatesOpen(l)
        /\ out' = [out EXCEPT ![l] = Append(@, clouds[l])]
        /\ clouds' = [clouds EXCEPT ![l] = <<>>]
     \/ ~SyncGatesOpen(l) /\ UNCHANGED <<out, clouds>>
  /\ fpc' = "top" /\ held' = <<>>
  /\ UNCHANGED <<clockVars, callbackVars, raw, first, lastPub, hostFrames, hostStart, quit>>

\* CheckTimer, not synchronised: the first call only starts the clock.
CheckTimerFirst ==
  /\ fpc = "timer" /\ ~isSync /\ first
  /\ first' = FALSE /\ lastPub' = now /\ hostStart' = now
  /\ fpc' = "top" /\ held' = <<>>
  /\ UNCHANGED <<clockVars, callbackVars, raw, clouds, out, hostFrames, quit>>

\* Mutant of GateOpen: the difference is unsigned, as in the synchronised branch.
GateOpenUnsigned == now < lastPub \/ now - lastPub >= Interval

GateOpen == now - lastPub >= Interval

CheckTimerEarly ==
  /\ fpc = "timer" /\ ~isSync /\ ~first
  /\ ~GateOpen
  /\ fpc' = "top" /\ held' = <<>>
  /\ UNCHANGED <<clockVars, callbackVars, raw, clouds, first, lastPub, out, hostFrames, hostStart, quit>>

\* The frame of one lidar, none if its cloud is empty.
HostFrames(l) == IF clouds[l] = <<>> THEN <<>> ELSE <<clouds[l]>>

\* last_pub_time_ += publish_interval_
NextPub == lastPub + Interval

CheckTimerHost ==
  /\ fpc = "timer" /\ ~isSync /\ ~first
  /\ GateOpen
  /\ lastPub' = NextPub
  /\ out' = [l \in Lidars |-> out[l] \o HostFrames(l)]
  /\ clouds' = [l \in Lidars |-> <<>>]
  /\ hostFrames' = hostFrames + 1
  /\ fpc' = "top" /\ held' = <<>>
  /\ UNCHANGED <<clockVars, callbackVars, raw, first, hostStart, quit>>

\* Uninit: the observer is removed, is_quit_ is set and the thread joined.
RequestExit ==
  /\ ~quit /\ cb = <<>>
  /\ quit' = TRUE
  /\ UNCHANGED <<clockVars, callbackVars, raw, threadVars>>

----------------------------------------------------------------------------
ThreadStep ==
  \/ TestQuit \/ TakePacket \/ WaitTimesOut \/ PointCloudProcess
  \/ CheckTimerSync \/ CheckTimerFirst \/ CheckTimerEarly \/ CheckTimerHost

Next ==
  \/ \E t \in Times : MoveClock(t)
  \/ \E l \in Lidars, s \in Stamps, d \in BOOLEAN : OnPacket(l, TRUE, s, d)
  \/ \E l \in Lidars, d \in BOOLEAN : OnPacket(l, FALSE, 0, d)
  \/ \E sync \in BOOLEAN : OnImuPacket(sync)
  \/ PushPacket \/ ThreadStep \/ RequestExit

Spec == Init /\ [][Next]_vars

\* The thread is scheduled and its wait times out.
FairSpec == Spec /\ WF_vars(ThreadStep) /\ WF_vars(PushPacket)

----------------------------------------------------------------------------
(* Properties. *)

\* The frames of lidar l handed over, and its growing cloud as the last.
Frames(l) == Append(out[l], clouds[l])
FramedIds(l) == UNION {{Frames(l)[i][a].id : a \in 1 .. Len(Frames(l)[i])} : i \in 1 .. Len(Frames(l))}

\* The packets between the callback and the clouds, and the points in them.
Waiting == (IF fpc = "process" THEN held ELSE <<>>) \o raw \o cb
From(l) == {k \in 1 .. Len(Waiting) : Waiting[k].lidar = l}
WaitingIds(l) == {Waiting[k].point.id : k \in {j \in From(l) : Waiting[j].decodable}}

FramesInOrder(l) ==
  \A i, j \in 1 .. Len(Frames(l)) : \A a \in 1 .. Len(Frames(l)[i]), b \in 1 .. Len(Frames(l)[j]) :
    i < j \/ (i = j /\ a < b) => Frames(l)[i][a].id < Frames(l)[j][b].id

WaitingInOrder(l) ==
  /\ \A k, m \in From(l) : k < m => Waiting[k].point.id < Waiting[m].point.id
  /\ \A k \in From(l) : \A n \in FramedIds(l) : n < Waiting[k].point.id

\* No point is lost, repeated or moved between the callback and the frames:
\* the frames, the growing cloud, the packet being processed and the queue
\* hold every decodable point of a lidar once, in order of arrival, however
\* the two ways of cutting alternate.
PointsConserved ==
  \A l \in Lidars :
    /\ FramesInOrder(l) /\ WaitingInOrder(l)
    /\ FramedIds(l) \union WaitingIds(l) = {n \in 1 .. Len(sent[l]) : sent[l][n]}

\* The host clock may cut several frames in a row after a stall or after it
\* was set forward, but never more than the intervals between its first reading
\* by the gate and the latest time it has shown, however it is set.
CatchUpBounded == hostFrames * Interval <= latest - hostStart

\* Uninit's join returns although nothing notifies the framing thread.
QuitEndsThread == quit ~> fpc = "done"
============================================================================
