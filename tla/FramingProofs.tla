--------------------------- MODULE FramingProofs ---------------------------
(***************************************************************************)
(* Proofs about Framing, for any number of lidars, any publish interval,   *)
(* any device stamps and any number of packets.                            *)
(***************************************************************************)
EXTENDS Framing, SequenceTheorems, TLAPS

----------------------------------------------------------------------------
(* The inductive invariants. *)

Points == [id : Nat, stamp : Nat]
RawPackets == [lidar : Lidars, decodable : BOOLEAN, point : Points]

FramingTypes ==
  /\ out \in [Lidars -> Seq(Seq(Points))] /\ clouds \in [Lidars -> Seq(Points)]
  /\ sent \in [Lidars -> Seq(BOOLEAN)] /\ now \in Nat
  /\ raw \in Seq(RawPackets) /\ held \in Seq(RawPackets) /\ cb \in Seq(RawPackets)
  /\ fpc \in {"process", "timer"} => Len(held) = 1

\* A waiting packet has the number of a packet that was sent.
WaitingSent == \A k \in 1 .. Len(Waiting) : Waiting[k].point.id \in 1 .. Len(sent[Waiting[k].lidar])

PointsInv == FramingTypes /\ WaitingSent /\ PointsConserved

\* The gate advances one interval per cut and never passes the latest time the
\* clock has shown.
HostClock ==
  /\ now \in Nat /\ latest \in Nat /\ now <= latest /\ lastPub \in Nat /\ hostFrames \in Nat /\ hostStart \in Nat
  /\ first \in BOOLEAN
  /\ first => hostFrames = 0 /\ hostStart = 0
  /\ ~first => lastPub = hostStart + hostFrames * Interval /\ lastPub <= latest

----------------------------------------------------------------------------
(* Points. *)

\* The packets under way and the frames are sequences.
LEMMA WaitingIsSeq ==
  ASSUME FramingTypes
  PROVE  Waiting \in Seq(RawPackets) /\ Len(Waiting) \in Nat
<1>1. (IF fpc = "process" THEN held ELSE <<>>) \in Seq(RawPackets)
  BY EmptySeq DEF FramingTypes
<1>2. Waiting \in Seq(RawPackets)
  BY <1>1, ConcatProperties DEF Waiting, FramingTypes
<1> QED BY <1>2, LenProperties

LEMMA FramesAreSeqs ==
  ASSUME FramingTypes, NEW l \in Lidars
  PROVE  /\ Frames(l) \in Seq(Seq(Points))
         /\ Len(out[l]) \in Nat /\ Len(Frames(l)) = Len(out[l]) + 1
         /\ \A i \in 1 .. Len(out[l]) : Frames(l)[i] = out[l][i]
         /\ Frames(l)[Len(out[l]) + 1] = clouds[l]
         /\ \A i \in 1 .. Len(Frames(l)) : Frames(l)[i] \in Seq(Points) /\ Len(Frames(l)[i]) \in Nat
<1>1. out[l] \in Seq(Seq(Points)) /\ clouds[l] \in Seq(Points)
  BY DEF FramingTypes
<1>2. /\ Frames(l) \in Seq(Seq(Points)) /\ Len(Frames(l)) = Len(out[l]) + 1
      /\ \A i \in 1 .. Len(out[l]) : Frames(l)[i] = out[l][i]
      /\ Frames(l)[Len(out[l]) + 1] = clouds[l]
  BY <1>1, AppendProperties DEF Frames
<1>3. Len(out[l]) \in Nat
  BY <1>1, LenProperties
<1>4. ASSUME NEW i \in 1 .. Len(Frames(l)) PROVE Frames(l)[i] \in Seq(Points) /\ Len(Frames(l)[i]) \in Nat
  <2>1. Frames(l)[i] \in Seq(Points)
    BY <1>2, ElementOfSeq
  <2> QED BY <2>1, LenProperties
<1> QED BY <1>2, <1>3, <1>4

\* What a step does to the points: a packet arrives, the packet in hand is
\* decoded, or clouds are cut off and empty ones begun.
SameFrames(l) == Frames(l)' = Frames(l)

Cut ==
  /\ Waiting' = Waiting /\ sent' = sent
  /\ \A l \in Lidars : SameFrames(l) \/ Frames(l)' = Append(Frames(l), <<>>)

Arrived ==
  /\ \E p \in RawPackets :
       /\ p.point.id = Len(sent[p.lidar]) + 1
       /\ Waiting' = Append(Waiting, p)
       /\ sent' = [sent EXCEPT ![p.lidar] = Append(@, p.decodable)]
  /\ \A l \in Lidars : SameFrames(l)

Decoded ==
  /\ Waiting # <<>> /\ Waiting' = Tail(Waiting) /\ sent' = sent
  /\ \A l \in Lidars :
       IF Head(Waiting).decodable /\ l = Head(Waiting).lidar
         THEN Frames(l)' = Append(out[l], Append(clouds[l], Head(Waiting).point))
         ELSE SameFrames(l)

\* A step that keeps the packets under way and the frames.
LEMMA NothingMoves ==
  ASSUME UNCHANGED <<raw, cb, sent, clouds, out>>, fpc # "process", fpc' # "process"
  PROVE  Cut
BY DEF Cut, SameFrames, Frames, Waiting

\* Each step has one of these effects.
LEMMA Moves ==
  ASSUME FramingAssumption, FramingTypes, [Next]_vars
  PROVE  FramingTypes' /\ (Cut \/ Arrived \/ Decoded)
<1> DEFINE Goal == FramingTypes' /\ (Cut \/ Arrived \/ Decoded)
<1> USE DEF clockVars, callbackVars, threadVars
<1>1. ASSUME NEW t \in Times, MoveClock(t) PROVE Goal
  <2>1. now' \in Nat /\ UNCHANGED <<callbackVars, raw, threadVars>>
    BY <1>1 DEF MoveClock, FramingAssumption
  <2>2. Cut
    BY <2>1 DEF Cut, SameFrames, Frames, Waiting
  <2> QED BY <2>1, <2>2 DEF FramingTypes
<1>2. ASSUME NEW l \in Lidars, NEW sync \in BOOLEAN, NEW s \in Nat, NEW d \in BOOLEAN, OnPacket(l, sync, s, d)
      PROVE  Goal
  <2> DEFINE p == [lidar |-> l, decodable |-> d, point |-> Point(Len(sent[l]) + 1, IF sync THEN s ELSE now)]
  <2>1. Len(sent[l]) \in Nat /\ now \in Nat
    BY LenProperties DEF FramingTypes
  <2>2. p \in RawPackets /\ p.point.id = Len(sent[p.lidar]) + 1 /\ p.lidar = l /\ p.decodable = d
    BY <2>1 DEF RawPackets, Points, Point
  <2>3. cb = <<>> /\ cb' = <<p>> /\ sent' = [sent EXCEPT ![l] = Append(@, d)] /\ UNCHANGED <<now, raw, threadVars>>
    BY <1>2 DEF OnPacket
  <2> HIDE DEF p
  <2>4. FramingTypes'
    <3>1. sent' \in [Lidars -> Seq(BOOLEAN)]
      BY <2>3 DEF FramingTypes
    <3>2. cb' \in Seq(RawPackets)
      BY <2>2, <2>3
    <3> QED BY <2>3, <3>1, <3>2 DEF FramingTypes
  <2>5. Waiting' = Append(Waiting, p)
    <3> DEFINE before == (IF fpc = "process" THEN held ELSE <<>>) \o raw
    <3>1. before \in Seq(RawPackets)
      BY EmptySeq, ConcatProperties DEF FramingTypes
    <3>2. Waiting = before \o <<>> /\ Waiting' = before \o <<p>>
      BY <2>3 DEF Waiting
    <3> HIDE DEF before
    <3> QED BY <2>2, <3>1, <3>2, ConcatEmptySeq, AppendIsConcat
  <2>6. \A m \in Lidars : SameFrames(m)
    BY <2>3 DEF SameFrames, Frames
  <2>7. Arrived
    BY <2>2, <2>3, <2>5, <2>6 DEF Arrived
  <2> QED BY <2>4, <2>7
<1>3. CASE PushPacket
  <2>1. raw' = raw \o cb /\ cb' = <<>> /\ UNCHANGED <<now, sent, threadVars>>
    BY <1>3 DEF PushPacket
  <2>2. FramingTypes'
    <3>1. raw' \in Seq(RawPackets) /\ cb' \in Seq(RawPackets)
      BY <2>1, EmptySeq, ConcatProperties DEF FramingTypes
    <3> QED BY <2>1, <3>1 DEF FramingTypes
  <2>3. Waiting' = Waiting
    <3> DEFINE h == IF fpc = "process" THEN held ELSE <<>>
    <3>1. h \in Seq(RawPackets) /\ raw \in Seq(RawPackets) /\ cb \in Seq(RawPackets)
      BY EmptySeq DEF FramingTypes
    <3>2. Waiting = (h \o raw) \o cb /\ Waiting' = (h \o (raw \o cb)) \o <<>>
      BY <2>1 DEF Waiting
    <3> HIDE DEF h
    <3>3. h \o (raw \o cb) = (h \o raw) \o cb /\ h \o (raw \o cb) \in Seq(RawPackets)
      BY <3>1, ConcatAssociative, ConcatProperties
    <3> QED BY <3>2, <3>3, ConcatEmptySeq
  <2>4. Cut
    BY <2>1, <2>3 DEF Cut, SameFrames, Frames
  <2> QED BY <2>2, <2>4
<1>4. CASE TestQuit \/ WaitTimesOut
  <2>1. UNCHANGED <<now, callbackVars, raw, held, clouds, out>> /\ fpc \notin {"process", "timer"} /\ fpc' \notin {"process", "timer"}
    BY <1>4 DEF TestQuit, WaitTimesOut
  <2>2. FramingTypes'
    BY <2>1 DEF FramingTypes
  <2> QED BY <2>1, <2>2, NothingMoves
<1>5. CASE TakePacket
  <2>1. /\ raw # <<>> /\ held' = <<Head(raw)>> /\ raw' = Tail(raw) /\ fpc = "take" /\ fpc' = "process"
        /\ UNCHANGED <<now, callbackVars, clouds, out>>
    BY <1>5 DEF TakePacket
  <2>2. raw \in Seq(RawPackets) /\ Head(raw) \in RawPackets /\ Tail(raw) \in Seq(RawPackets)
    BY <2>1, HeadTailProperties DEF FramingTypes
  <2>3. FramingTypes'
    BY <2>1, <2>2 DEF FramingTypes
  <2>4. <<Head(raw)>> \o Tail(raw) = <<>> \o raw
    <3>1. <<Head(raw)>> \in Seq(RawPackets) /\ Len(<<Head(raw)>>) = 1 /\ <<Head(raw)>>[1] = raw[1]
      BY <2>1, <2>2
    <3> DEFINE c == <<Head(raw)>> \o Tail(raw)
    <3>2. /\ c \in Seq(RawPackets) /\ Len(c) = 1 + Len(Tail(raw))
          /\ \A i \in 1 .. 1 + Len(Tail(raw)) : c[i] = IF i <= 1 THEN <<Head(raw)>>[i] ELSE Tail(raw)[i - 1]
      BY <2>2, <3>1, ConcatProperties
    <3>3. /\ Len(Tail(raw)) = Len(raw) - 1 /\ Len(raw) \in Nat
          /\ \A i \in 1 .. Len(Tail(raw)) : Tail(raw)[i] = raw[i + 1]
      BY <2>1, <2>2, HeadTailProperties, LenProperties
    <3> HIDE DEF c
    <3>4. Len(c) = Len(raw) /\ \A i \in 1 .. Len(c) : c[i] = raw[i]
      BY <3>1, <3>2, <3>3
    <3>5. c = raw
      BY <2>2, <3>2, <3>4, SeqEqual
    <3> QED BY <2>2, <3>5, ConcatEmptySeq DEF c
  <2>5. Cut
    BY <2>1, <2>4 DEF Cut, SameFrames, Frames, Waiting
  <2> QED BY <2>3, <2>5
<1>6. CASE PointCloudProcess
  <2> DEFINE p == Head(held)
  <2>1. /\ fpc = "process" /\ fpc' = "timer" /\ UNCHANGED <<now, callbackVars, raw, held, out>>
        /\ clouds' = IF p.decodable THEN [clouds EXCEPT ![p.lidar] = Append(@, p.point)] ELSE clouds
    BY <1>6 DEF PointCloudProcess
  <2>2. held \in Seq(RawPackets) /\ Len(held) = 1 /\ held # <<>>
    <3>1. held \in Seq(RawPackets) /\ Len(held) = 1
      BY <2>1 DEF FramingTypes
    <3>2. held = <<>> => Len(held) = 0
      OBVIOUS
    <3> QED BY <3>1, <3>2
  <2>3. p \in RawPackets /\ held = <<p>>
    <3>1. held[1] \in RawPackets /\ p = held[1]
      BY <2>2, ElementOfSeq
    <3>2. <<held[1]>> \in Seq(RawPackets) /\ Len(<<held[1]>>) = 1 /\ <<held[1]>>[1] = held[1]
      BY <3>1
    <3>3. held = <<held[1]>>
      BY <2>2, <3>2, SeqEqual
    <3> QED BY <3>1, <3>3
  <2> HIDE DEF p
  <2>4. p.lidar \in Lidars /\ p.decodable \in BOOLEAN /\ p.point \in Points
    BY <2>3 DEF RawPackets
  <2>5. clouds' \in [Lidars -> Seq(Points)]
    BY <2>1, <2>4 DEF FramingTypes
  <2>6. FramingTypes'
    BY <2>1, <2>2, <2>5 DEF FramingTypes
  <2>7. Waiting = <<p>> \o (raw \o cb) /\ Waiting' = raw \o cb /\ raw \o cb \in Seq(RawPackets)
    <3>1. Waiting = (<<p>> \o raw) \o cb /\ Waiting' = (<<>> \o raw) \o cb
      BY <2>1, <2>3 DEF Waiting
    <3>2. <<p>> \in Seq(RawPackets) /\ raw \in Seq(RawPackets) /\ cb \in Seq(RawPackets)
      BY <2>3 DEF FramingTypes
    <3> QED BY <3>1, <3>2, ConcatAssociative, ConcatEmptySeq, ConcatProperties
  <2>8. Waiting # <<>> /\ Head(Waiting) = p /\ Tail(Waiting) = raw \o cb
    <3> DEFINE q == raw \o cb
               w == <<p>> \o q
    <3>1. q \in Seq(RawPackets) /\ Waiting = w
      BY <2>7
    <3> HIDE DEF q
    <3>2. <<p>> \in Seq(RawPackets) /\ Len(<<p>>) = 1 /\ <<p>>[1] = p /\ Len(q) \in Nat
      BY <2>3, <3>1
    <3>3. /\ w \in Seq(RawPackets) /\ Len(w) = 1 + Len(q)
          /\ \A i \in 1 .. 1 + Len(q) : w[i] = IF i <= 1 THEN <<p>>[i] ELSE q[i - 1]
      BY <3>1, <3>2, ConcatProperties
    <3> HIDE DEF w
    <3>4. w # <<>> /\ Head(w) = w[1] /\ w[1] = p
      BY <3>2, <3>3
    <3>5. /\ Tail(w) \in Seq(RawPackets) /\ Len(Tail(w)) = Len(w) - 1
          /\ \A i \in 1 .. Len(Tail(w)) : Tail(w)[i] = w[i + 1]
      BY <3>3, <3>4, HeadTailProperties
    <3>6. Len(Tail(w)) = Len(q) /\ \A i \in 1 .. Len(Tail(w)) : Tail(w)[i] = q[i]
      BY <3>2, <3>3, <3>5
    <3>7. Tail(w) = q
      BY <3>1, <3>5, <3>6, SeqEqual
    <3> QED BY <3>1, <3>4, <3>7 DEF q
  <2>9. Decoded
    <3>1. ASSUME NEW l \in Lidars, p.decodable /\ l = p.lidar
          PROVE  Frames(l)' = Append(out[l], Append(clouds[l], p.point))
      BY <2>1, <3>1 DEF Frames, FramingTypes
    <3>2. ASSUME NEW l \in Lidars, ~(p.decodable /\ l = p.lidar)
          PROVE  SameFrames(l)
      BY <2>1, <2>4, <3>2 DEF Frames, SameFrames, FramingTypes
    <3> QED BY <2>1, <2>7, <2>8, <3>1, <3>2 DEF Decoded
  <2> QED BY <2>6, <2>9
<1>7. CASE CheckTimerSync
  <2> DEFINE l == Head(held).lidar
  <2>1. /\ fpc = "timer" /\ fpc' = "top" /\ held' = <<>> /\ UNCHANGED <<now, callbackVars, raw>>
        /\ \/ out' = [out EXCEPT ![l] = Append(@, clouds[l])] /\ clouds' = [clouds EXCEPT ![l] = <<>>]
           \/ UNCHANGED <<out, clouds>>
    BY <1>7 DEF CheckTimerSync
  <2>2. CASE UNCHANGED <<out, clouds>>
    <3>1. FramingTypes'
      BY <2>1, <2>2, EmptySeq DEF FramingTypes
    <3> QED BY <2>1, <2>2, <3>1, NothingMoves
  <2>3. CASE out' = [out EXCEPT ![l] = Append(@, clouds[l])] /\ clouds' = [clouds EXCEPT ![l] = <<>>]
    <3>1. l \in Lidars
      <4>1. held \in Seq(RawPackets) /\ Len(held) = 1
        BY <2>1 DEF FramingTypes
      <4>2. Head(held) \in RawPackets
        BY <4>1, HeadTailProperties, EmptySeq
      <4> QED BY <4>2 DEF RawPackets
    <3> HIDE DEF l
    <3>2. FramingTypes'
      BY <2>1, <2>3, <3>1, EmptySeq DEF FramingTypes
    <3>3. ASSUME NEW m \in Lidars PROVE SameFrames(m) \/ Frames(m)' = Append(Frames(m), <<>>)
      BY <2>3, <3>1 DEF SameFrames, Frames, FramingTypes
    <3>4. Waiting' = Waiting
      BY <2>1 DEF Waiting
    <3> QED BY <2>1, <3>2, <3>3, <3>4 DEF Cut
  <2> QED BY <2>1, <2>2, <2>3
<1>8. CASE CheckTimerFirst \/ CheckTimerEarly
  <2>1. /\ fpc = "timer" /\ fpc' = "top" /\ held' = <<>>
        /\ UNCHANGED <<now, callbackVars, raw, clouds, out>>
    BY <1>8 DEF CheckTimerFirst, CheckTimerEarly
  <2>2. FramingTypes'
    BY <2>1, EmptySeq DEF FramingTypes
  <2> QED BY <2>1, <2>2, NothingMoves
<1>9. CASE CheckTimerHost
  <2>1. /\ fpc = "timer" /\ fpc' = "top" /\ held' = <<>> /\ UNCHANGED <<now, callbackVars, raw>>
        /\ out' = [l \in Lidars |-> out[l] \o HostFrames(l)]
        /\ clouds' = [l \in Lidars |-> <<>>]
    BY <1>9 DEF CheckTimerHost
  <2>2. ASSUME NEW l \in Lidars
        PROVE  /\ out[l] \o HostFrames(l) \in Seq(Seq(Points))
               /\ SameFrames(l) \/ Frames(l)' = Append(Frames(l), <<>>)
    <3>1. out[l] \in Seq(Seq(Points)) /\ clouds[l] \in Seq(Points)
      BY DEF FramingTypes
    <3>2. Frames(l)' = Append(out[l] \o HostFrames(l), <<>>)
      BY <2>1 DEF Frames
    <3>3. CASE clouds[l] = <<>>
      <4>1. out[l] \o HostFrames(l) = out[l]
        BY <3>1, <3>3, ConcatEmptySeq DEF HostFrames
      <4> QED BY <3>1, <3>2, <3>3, <4>1 DEF SameFrames, Frames
    <3>4. CASE clouds[l] # <<>>
      <4>1. out[l] \o HostFrames(l) = Append(out[l], clouds[l])
        BY <3>1, <3>4, AppendIsConcat DEF HostFrames
      <4>2. Append(out[l], clouds[l]) \in Seq(Seq(Points))
        BY <3>1, AppendProperties
      <4> QED BY <3>2, <4>1, <4>2 DEF Frames
    <3> QED BY <3>3, <3>4
  <2>3. FramingTypes'
    <3>1. out' \in [Lidars -> Seq(Seq(Points))]
      BY <2>1, <2>2
    <3> QED BY <2>1, <3>1, EmptySeq DEF FramingTypes
  <2>4. Waiting' = Waiting
    BY <2>1 DEF Waiting
  <2> QED BY <2>1, <2>2, <2>3, <2>4 DEF Cut
<1>10. CASE RequestExit \/ UNCHANGED vars
  <2>1. UNCHANGED <<now, callbackVars, raw, threadVars>>
    BY <1>10 DEF RequestExit, vars
  <2>2. Cut
    BY <2>1 DEF Cut, SameFrames, Frames, Waiting
  <2> QED BY <2>1, <2>2 DEF FramingTypes
<1>11. ASSUME NEW sync \in BOOLEAN, OnImuPacket(sync) PROVE Goal
  <2>1. UNCHANGED <<now, cb, sent, raw, threadVars>>
    BY <1>11 DEF OnImuPacket
  <2>2. Cut
    BY <2>1 DEF Cut, SameFrames, Frames, Waiting
  <2> QED BY <2>1, <2>2 DEF FramingTypes
<1>12. Stamps \subseteq Nat
  BY DEF FramingAssumption
<1> QED BY <1>1, <1>2, <1>3, <1>4, <1>5, <1>6, <1>7, <1>8, <1>9, <1>10, <1>11, <1>12 DEF Next, ThreadStep

\* A number is framed when some point of a frame or of the cloud has it.
LEMMA FramedMeans ==
  ASSUME NEW l, NEW n
  PROVE  n \in FramedIds(l) <=>
           \E i \in 1 .. Len(Frames(l)) : \E a \in 1 .. Len(Frames(l)[i]) : n = Frames(l)[i][a].id
BY DEF FramedIds

\* Frames that stay the same keep their points and the order of them.
LEMMA SameFramesSamePoints ==
  ASSUME NEW l, Frames(l)' = Frames(l), FramesInOrder(l)
  PROVE  FramesInOrder(l)' /\ FramedIds(l)' = FramedIds(l)
<1>1. FramesInOrder(l)'
  BY DEF FramesInOrder
<1>2. FramedIds(l)' = FramedIds(l)
  BY DEF FramedIds
<1> QED BY <1>1, <1>2

\* A cut begins an empty cloud and moves no point.
LEMMA CutConserves ==
  ASSUME PointsInv, FramingTypes', Cut
  PROVE  WaitingSent' /\ PointsConserved'
<1> USE DEF PointsInv
<1>1. Waiting' = Waiting /\ sent' = sent
  BY DEF Cut
<1>2. ASSUME NEW l \in Lidars
      PROVE  /\ \A i \in 1 .. Len(Frames(l)') : \A a \in 1 .. Len(Frames(l)'[i]) :
                  i \in 1 .. Len(Frames(l)) /\ Frames(l)'[i] = Frames(l)[i]
             /\ \A i \in 1 .. Len(Frames(l)) : i \in 1 .. Len(Frames(l)') /\ Frames(l)'[i] = Frames(l)[i]
  <2>1. CASE SameFrames(l)
    BY <2>1 DEF SameFrames
  <2>2. CASE Frames(l)' = Append(Frames(l), <<>>)
    <3> DEFINE f == Frames(l)
    <3>1. f \in Seq(Seq(Points)) /\ <<>> \in Seq(Points) /\ Len(<<>>) = 0
      BY FramesAreSeqs, EmptySeq
    <3> HIDE DEF f
    <3>2. /\ Len(f) \in Nat /\ Len(Append(f, <<>>)) = Len(f) + 1
          /\ \A i \in 1 .. Len(f) : Append(f, <<>>)[i] = f[i]
          /\ Append(f, <<>>)[Len(f) + 1] = <<>>
      BY <3>1, AppendProperties, LenProperties
    <3>3. /\ \A i \in 1 .. Len(Append(f, <<>>)) : \A a \in 1 .. Len(Append(f, <<>>)[i]) :
               i \in 1 .. Len(f) /\ Append(f, <<>>)[i] = f[i]
          /\ \A i \in 1 .. Len(f) : i \in 1 .. Len(Append(f, <<>>))
      BY <3>1, <3>2
    <3> QED BY <2>2, <3>2, <3>3 DEF f
  <2> QED BY <2>1, <2>2 DEF Cut
<1>3. WaitingSent'
  BY <1>1 DEF WaitingSent
<1>4. ASSUME NEW l \in Lidars
      PROVE  /\ FramesInOrder(l)' /\ WaitingInOrder(l)'
             /\ FramedIds(l)' = FramedIds(l) /\ WaitingIds(l)' = WaitingIds(l)
  <2>1. FramesInOrder(l)'
    BY <1>2 DEF PointsConserved, FramesInOrder
  <2>2. ASSUME NEW n PROVE n \in FramedIds(l)' <=> n \in FramedIds(l)
    <3>1. ASSUME n \in FramedIds(l)' PROVE n \in FramedIds(l)
      <4>1. \E i \in 1 .. Len(Frames(l)') : \E a \in 1 .. Len(Frames(l)'[i]) : n = Frames(l)'[i][a].id
        BY <3>1 DEF FramedIds
      <4>2. \E i \in 1 .. Len(Frames(l)) : \E a \in 1 .. Len(Frames(l)[i]) : n = Frames(l)[i][a].id
        BY <1>2, <4>1
      <4> QED BY <4>2 DEF FramedIds
    <3>2. ASSUME n \in FramedIds(l) PROVE n \in FramedIds(l)'
      <4>1. \E i \in 1 .. Len(Frames(l)) : \E a \in 1 .. Len(Frames(l)[i]) : n = Frames(l)[i][a].id
        BY <3>2 DEF FramedIds
      <4>2. \E i \in 1 .. Len(Frames(l)') : \E a \in 1 .. Len(Frames(l)'[i]) : n = Frames(l)'[i][a].id
        BY <1>2, <4>1
      <4> QED BY <4>2 DEF FramedIds
    <3> QED BY <3>1, <3>2
  <2>3. FramedIds(l)' = FramedIds(l)
    BY <2>2
  <2>4. From(l)' = From(l) /\ WaitingIds(l)' = WaitingIds(l)
    BY <1>1 DEF From, WaitingIds
  <2>5. WaitingInOrder(l)'
    BY <1>1, <2>3, <2>4 DEF PointsConserved, WaitingInOrder
  <2> QED BY <2>1, <2>3, <2>4, <2>5
<1> QED BY <1>1, <1>3, <1>4 DEF PointsConserved

\* An arriving packet has a new number, greater than all.
LEMMA ArrivalConserves ==
  ASSUME PointsInv, FramingTypes', Arrived
  PROVE  WaitingSent' /\ PointsConserved'
<1> USE DEF PointsInv
<1>1. PICK p \in RawPackets :
        /\ p.point.id = Len(sent[p.lidar]) + 1
        /\ Waiting' = Append(Waiting, p)
        /\ sent' = [sent EXCEPT ![p.lidar] = Append(@, p.decodable)]
  BY DEF Arrived
<1>2. p.lidar \in Lidars /\ p.decodable \in BOOLEAN
  BY DEF RawPackets
<1> DEFINE u == Len(Waiting)
<1>3. /\ u \in Nat /\ Len(Waiting') = u + 1
      /\ \A k \in 1 .. u : Waiting'[k] = Waiting[k]
      /\ Waiting'[u + 1] = p
      /\ \A k \in 1 .. u : Waiting[k] \in RawPackets
  BY <1>1, WaitingIsSeq, AppendProperties, ElementOfSeq
<1>4. \A k \in 1 .. u : Waiting[k].lidar \in Lidars /\ Waiting[k].point.id \in Nat
  BY <1>3 DEF RawPackets, Points
<1>5. ASSUME NEW l \in Lidars
      PROVE  /\ Len(sent[l]) \in Nat
             /\ l # p.lidar => sent'[l] = sent[l]
             /\ l = p.lidar => /\ Len(sent'[l]) = Len(sent[l]) + 1
                               /\ \A n \in 1 .. Len(sent[l]) : sent'[l][n] = sent[l][n]
                               /\ sent'[l][Len(sent[l]) + 1] = p.decodable
  <2>1. sent[l] \in Seq(BOOLEAN) /\ Len(sent[l]) \in Nat
    BY LenProperties DEF FramingTypes
  <2>2. CASE l # p.lidar
    BY <1>1, <2>1, <2>2 DEF FramingTypes
  <2>3. CASE l = p.lidar
    <3>1. sent'[l] = Append(sent[l], p.decodable)
      BY <1>1, <2>3 DEF FramingTypes
    <3> QED BY <1>2, <2>1, <2>3, <3>1, AppendProperties
  <2> QED BY <2>2, <2>3
<1> HIDE DEF u
<1>6. WaitingSent'
  <2> SUFFICES ASSUME NEW k \in 1 .. Len(Waiting')
               PROVE  Waiting'[k].point.id \in 1 .. Len(sent'[Waiting'[k].lidar])
    BY DEF WaitingSent
  <2>1. CASE k = u + 1
    BY <1>1, <1>2, <1>3, <1>5, <2>1
  <2>2. CASE k \in 1 .. u
    <3>1. Waiting[k].point.id \in 1 .. Len(sent[Waiting[k].lidar])
      BY <2>2 DEF WaitingSent, u
    <3>2. Waiting'[k] = Waiting[k] /\ Waiting[k].lidar \in Lidars
      BY <1>3, <1>4, <2>2
    <3>3. /\ Len(sent[Waiting[k].lidar]) \in Nat /\ Len(sent'[Waiting[k].lidar]) \in Nat
          /\ Len(sent[Waiting[k].lidar]) <= Len(sent'[Waiting[k].lidar])
      BY <1>5, <3>2
    <3> QED BY <3>1, <3>2, <3>3
  <2> QED BY <1>3, <2>1, <2>2
<1>7. ASSUME NEW l \in Lidars
      PROVE  /\ FramesInOrder(l)' /\ WaitingInOrder(l)'
             /\ FramedIds(l)' \union WaitingIds(l)' = {n \in 1 .. Len(sent'[l]) : sent'[l][n]}
  <2>1. Frames(l)' = Frames(l)
    BY DEF Arrived, SameFrames
  <2>2. FramesInOrder(l)' /\ FramedIds(l)' = FramedIds(l)
    BY <2>1, SameFramesSamePoints DEF PointsConserved
  <2>3. \A n \in FramedIds(l) : n \in 1 .. Len(sent[l]) /\ sent[l][n]
    BY DEF PointsConserved
  <2>4. \A n : n \in FramedIds(l) \/ n \in WaitingIds(l) <=> n \in 1 .. Len(sent[l]) /\ sent[l][n]
    BY DEF PointsConserved
  <2>5. \A k : k \in From(l)' <=> k \in From(l) \/ (k = u + 1 /\ p.lidar = l)
    BY <1>3 DEF From, u
  <2>6. \A k \in From(l) : k \in 1 .. u /\ Waiting'[k] = Waiting[k] /\ Waiting[k].point.id \in 1 .. Len(sent[l])
    BY <1>3 DEF From, WaitingSent, u
  <2>7. WaitingInOrder(l)'
    <3>1. ASSUME NEW k \in From(l)', NEW m \in From(l)', k < m
          PROVE  Waiting'[k].point.id < Waiting'[m].point.id
      <4>1. k \in From(l)
        BY <1>3, <2>5, <2>6, <3>1
      <4>2. CASE m \in From(l)
        BY <2>6, <3>1, <4>1, <4>2 DEF PointsConserved, WaitingInOrder
      <4>3. CASE m = u + 1 /\ p.lidar = l
        BY <1>1, <1>3, <1>5, <2>6, <4>1, <4>3
      <4> QED BY <2>5, <4>2, <4>3
    <3>2. ASSUME NEW k \in From(l)', NEW n \in FramedIds(l)
          PROVE  n < Waiting'[k].point.id
      <4>1. CASE k \in From(l)
        BY <2>6, <4>1 DEF PointsConserved, WaitingInOrder
      <4>2. CASE k = u + 1 /\ p.lidar = l
        BY <1>1, <1>3, <1>5, <2>3, <4>2
      <4> QED BY <2>5, <4>1, <4>2
    <3> QED BY <2>2, <3>1, <3>2 DEF WaitingInOrder
  <2>8. \A n : n \in WaitingIds(l)' <=> n \in WaitingIds(l) \/ (n = p.point.id /\ p.lidar = l /\ p.decodable)
    BY <1>3, <2>5, <2>6 DEF WaitingIds
  <2>9. ASSUME NEW n
        PROVE  n \in FramedIds(l) \/ n \in WaitingIds(l)' <=> n \in 1 .. Len(sent'[l]) /\ sent'[l][n]
    <3>1. CASE l # p.lidar
      BY <1>5, <2>4, <2>8, <3>1
    <3>2. CASE l = p.lidar
      <4>1. n \in 1 .. Len(sent'[l]) <=> n \in 1 .. Len(sent[l]) \/ n = Len(sent[l]) + 1
        BY <1>5, <3>2
      <4> QED BY <1>1, <1>5, <2>4, <2>8, <3>2, <4>1
    <3> QED BY <3>1, <3>2
  <2>10. FramedIds(l)' \union WaitingIds(l)' = {n \in 1 .. Len(sent'[l]) : sent'[l][n]}
    BY <2>2, <2>9
  <2> QED BY <2>2, <2>7, <2>10
<1> QED BY <1>6, <1>7 DEF PointsConserved

\* The oldest packet under way leaves, and its point, if any, becomes the
\* last of the cloud of its lidar.
LEMMA DecodingConserves ==
  ASSUME PointsInv, FramingTypes', Decoded
  PROVE  WaitingSent' /\ PointsConserved'
<1> USE DEF PointsInv
<1> DEFINE p == Head(Waiting)
           u == Len(Waiting)
<1>1. /\ Waiting \in Seq(RawPackets) /\ Waiting # <<>> /\ Waiting' = Tail(Waiting) /\ sent' = sent
  BY WaitingIsSeq DEF Decoded
<1>2. /\ u \in Nat /\ u >= 1 /\ p = Waiting[1] /\ Len(Waiting') = u - 1
      /\ \A k \in 1 .. u - 1 : Waiting'[k] = Waiting[k + 1]
  BY <1>1, HeadTailProperties, EmptySeq, LenProperties
<1>3. p \in RawPackets /\ p.lidar \in Lidars /\ p.decodable \in BOOLEAN /\ p.point \in Points
  <2>1. p \in RawPackets
    BY <1>1, HeadTailProperties
  <2> QED BY <2>1 DEF RawPackets
<1>4. \A k : k \in 1 .. u - 1 => k + 1 \in 1 .. u
  BY <1>2
<1>5. WaitingSent'
  BY <1>1, <1>2, <1>4 DEF WaitingSent
<1> HIDE DEF p, u
<1>6. ASSUME NEW l \in Lidars
      PROVE  /\ FramesInOrder(l)' /\ WaitingInOrder(l)'
             /\ FramedIds(l)' \union WaitingIds(l)' = {n \in 1 .. Len(sent'[l]) : sent'[l][n]}
  <2>1. \A n : n \in FramedIds(l) \/ n \in WaitingIds(l) <=> n \in 1 .. Len(sent[l]) /\ sent[l][n]
    BY DEF PointsConserved
  <2>2. \A k : k \in From(l) => k \in 1 .. u
    BY DEF From, u
  <2>3. \A k \in From(l)' : k \in 1 .. u - 1 /\ k + 1 \in From(l) /\ Waiting'[k] = Waiting[k + 1]
    BY <1>2, <1>4 DEF From, u
  <2>4. \A k \in From(l) : k # 1 => k - 1 \in From(l)' /\ Waiting[k] = Waiting'[k - 1]
    <3> SUFFICES ASSUME NEW k \in From(l), k # 1
                 PROVE  k - 1 \in From(l)' /\ Waiting[k] = Waiting'[k - 1]
      OBVIOUS
    <3>1. k - 1 \in 1 .. u - 1 /\ (k - 1) + 1 = k
      BY <1>2, <2>2
    <3>2. Waiting'[k - 1] = Waiting[k]
      BY <1>2, <3>1
    <3> QED BY <1>2, <3>1, <3>2 DEF From
  <2>5. 1 \in From(l) <=> p.lidar = l
    BY <1>2 DEF From, u
  <2>6. \A n : n \in WaitingIds(l) <=> n \in WaitingIds(l)' \/ (n = p.point.id /\ p.lidar = l /\ p.decodable)
    <3>1. ASSUME NEW n, n \in WaitingIds(l)' PROVE n \in WaitingIds(l)
      BY <2>3, <3>1 DEF WaitingIds
    <3>2. ASSUME NEW n, n \in WaitingIds(l) PROVE n \in WaitingIds(l)' \/ (n = p.point.id /\ p.lidar = l /\ p.decodable)
      BY <1>2, <2>4, <2>5, <3>2 DEF WaitingIds
    <3>3. p.lidar = l /\ p.decodable => p.point.id \in WaitingIds(l)
      BY <1>2, <2>5 DEF WaitingIds
    <3> QED BY <3>1, <3>2, <3>3
  <2>7. \A k, m \in From(l)' : k < m => Waiting'[k].point.id < Waiting'[m].point.id
    BY <2>3 DEF PointsConserved, WaitingInOrder
  <2>8. CASE ~(p.decodable /\ l = p.lidar)
    <3>1. Frames(l)' = Frames(l)
      BY <2>8 DEF Decoded, SameFrames, p
    <3>2. FramesInOrder(l)' /\ FramedIds(l)' = FramedIds(l)
      BY <3>1, SameFramesSamePoints DEF PointsConserved
    <3>3. WaitingInOrder(l)'
      BY <2>3, <2>7, <3>2 DEF PointsConserved, WaitingInOrder
    <3>4. \A n : n \in FramedIds(l)' \/ n \in WaitingIds(l)' <=> n \in 1 .. Len(sent'[l]) /\ sent'[l][n]
      BY <1>1, <2>1, <2>6, <2>8, <3>2
    <3> QED BY <3>2, <3>3, <3>4
  <2>9. CASE p.decodable /\ l = p.lidar
    <3> DEFINE o == Len(out[l]) + 1
               c == Len(clouds[l])
    <3>1. /\ o \in Nat /\ Len(Frames(l)) = o /\ Frames(l)[o] = clouds[l]
          /\ \A i \in 1 .. o : Len(Frames(l)[i]) \in Nat
      BY FramesAreSeqs
    <3>2. /\ c \in Nat /\ Len(Append(clouds[l], p.point)) = c + 1
          /\ \A a \in 1 .. c : Append(clouds[l], p.point)[a] = clouds[l][a]
          /\ Append(clouds[l], p.point)[c + 1] = p.point
          /\ Append(clouds[l], p.point) \in Seq(Points)
      BY <1>3, AppendProperties, LenProperties DEF FramingTypes
    <3>3. /\ Len(Frames(l)') = o /\ Frames(l)'[o] = Append(clouds[l], p.point)
          /\ \A i \in 1 .. o : i # o => Frames(l)'[i] = Frames(l)[i]
      <4>1. out[l] \in Seq(Seq(Points)) /\ Frames(l)' = Append(out[l], Append(clouds[l], p.point))
        BY <2>9 DEF Decoded, FramingTypes, p
      <4>2. /\ Len(Frames(l)') = o /\ Frames(l)'[o] = Append(clouds[l], p.point)
            /\ \A i \in 1 .. Len(out[l]) : Frames(l)'[i] = out[l][i]
        BY <3>2, <4>1, AppendProperties
      <4>3. \A i \in 1 .. Len(out[l]) : Frames(l)[i] = out[l][i]
        BY FramesAreSeqs
      <4>4. \A i \in 1 .. o : i # o => i \in 1 .. Len(out[l])
        BY <4>1, LenProperties
      <4> QED BY <4>2, <4>3, <4>4
    <3> HIDE DEF o, c
    <3> DEFINE Old(i, a) == i \in 1 .. o /\ a \in 1 .. Len(Frames(l)[i]) /\ Frames(l)'[i][a] = Frames(l)[i][a]
    <3>4. ASSUME NEW i \in 1 .. Len(Frames(l)'), NEW a \in 1 .. Len(Frames(l)'[i])
          PROVE  Old(i, a) \/ (i = o /\ a = c + 1 /\ Frames(l)'[i][a] = p.point)
      <4>1. CASE i # o
        BY <3>3, <4>1
      <4>2. CASE i = o
        BY <3>1, <3>2, <3>3, <4>2 DEF c
      <4> QED BY <4>1, <4>2
    <3>5. ASSUME NEW i \in 1 .. o, NEW a \in 1 .. Len(Frames(l)[i])
          PROVE  i \in 1 .. Len(Frames(l)') /\ a \in 1 .. Len(Frames(l)'[i]) /\ Frames(l)'[i][a] = Frames(l)[i][a]
      <4>1. CASE i # o
        BY <3>3, <4>1
      <4>2. CASE i = o
        BY <3>1, <3>2, <3>3, <4>2 DEF c
      <4> QED BY <4>1, <4>2
    <3>6. \A n : n \in FramedIds(l)' <=> n \in FramedIds(l) \/ n = p.point.id
      <4>1. ASSUME NEW n, n \in FramedIds(l)' PROVE n \in FramedIds(l) \/ n = p.point.id
        <5>1. PICK i \in 1 .. Len(Frames(l)') : \E a \in 1 .. Len(Frames(l)'[i]) : n = Frames(l)'[i][a].id
          BY <4>1 DEF FramedIds
        <5>2. PICK a \in 1 .. Len(Frames(l)'[i]) : n = Frames(l)'[i][a].id
          BY <5>1
        <5> QED BY <3>1, <3>4, <5>2, FramedMeans
      <4>2. ASSUME NEW n, n \in FramedIds(l) PROVE n \in FramedIds(l)'
        <5>1. \E i \in 1 .. o : \E a \in 1 .. Len(Frames(l)[i]) : n = Frames(l)[i][a].id
          BY <3>1, <4>2, FramedMeans
        <5>2. \E i \in 1 .. Len(Frames(l)') : \E a \in 1 .. Len(Frames(l)'[i]) : n = Frames(l)'[i][a].id
          BY <3>5, <5>1
        <5> QED BY <5>2 DEF FramedIds
      <4>3. p.point.id \in FramedIds(l)'
        <5>1. o \in 1 .. Len(Frames(l)') /\ c + 1 \in 1 .. Len(Frames(l)'[o]) /\ Frames(l)'[o][c + 1] = p.point
          BY <3>1, <3>2, <3>3 DEF o
        <5> QED BY <5>1 DEF FramedIds
      <4> QED BY <4>1, <4>2, <4>3
    <3>7. \A i \in 1 .. o : \A a \in 1 .. Len(Frames(l)[i]) : Frames(l)[i][a].id < p.point.id
      <4>1. \A n \in FramedIds(l) : n < p.point.id
        BY <1>2, <2>5, <2>9 DEF PointsConserved, WaitingInOrder
      <4> QED BY <3>1, <4>1, FramedMeans
    <3>8. FramesInOrder(l)'
      <4> SUFFICES ASSUME NEW i \in 1 .. Len(Frames(l)'), NEW j \in 1 .. Len(Frames(l)'),
                          NEW a \in 1 .. Len(Frames(l)'[i]), NEW b \in 1 .. Len(Frames(l)'[j]),
                          i < j \/ (i = j /\ a < b)
                   PROVE  Frames(l)'[i][a].id < Frames(l)'[j][b].id
        BY DEF FramesInOrder
      <4>1. Old(i, a)
        <5>1. ~(i = o /\ a = c + 1)
          <6>1. j \in 1 .. o /\ (j = o => b \in 1 .. c + 1)
            BY <3>2, <3>3
          <6> QED BY <3>1, <3>2, <6>1
        <5> QED BY <3>4, <5>1
      <4>2. CASE Old(j, b)
        <5>1. Frames(l)[i][a].id < Frames(l)[j][b].id
          BY <3>1, <4>1, <4>2 DEF PointsConserved, FramesInOrder
        <5> QED BY <4>1, <4>2, <5>1
      <4>3. CASE Frames(l)'[j][b] = p.point
        BY <3>7, <4>1, <4>3
      <4> QED BY <3>4, <4>2, <4>3
    <3>9. WaitingInOrder(l)'
      <4>1. ASSUME NEW k \in From(l)', NEW n \in FramedIds(l)'
            PROVE  n < Waiting'[k].point.id
        <5>1. k + 1 \in From(l) /\ Waiting'[k] = Waiting[k + 1] /\ 1 < k + 1
          BY <1>2, <2>3
        <5>2. CASE n \in FramedIds(l)
          BY <5>1, <5>2 DEF PointsConserved, WaitingInOrder
        <5>3. CASE n = p.point.id
          BY <1>2, <2>5, <2>9, <5>1, <5>3 DEF PointsConserved, WaitingInOrder
        <5> QED BY <3>6, <5>2, <5>3
      <4> QED BY <2>7, <4>1 DEF WaitingInOrder
    <3>10. \A n : n \in FramedIds(l)' \/ n \in WaitingIds(l)' <=> n \in 1 .. Len(sent'[l]) /\ sent'[l][n]
      BY <1>1, <2>1, <2>6, <2>9, <3>6
    <3> QED BY <3>8, <3>9, <3>10
  <2> QED BY <2>8, <2>9
<1> QED BY <1>5, <1>6 DEF PointsConserved

\* The points start nowhere.
LEMMA PointsInit == FramingAssumption /\ Init => PointsInv
<1> SUFFICES ASSUME Init PROVE PointsInv
  OBVIOUS
<1>1. FramingTypes
  BY EmptySeq DEF Init, FramingTypes
<1>2. Waiting = <<>> /\ Len(<<>>) = 0
  BY DEF Init, Waiting
<1>3. ASSUME NEW l \in Lidars
      PROVE  FramesInOrder(l) /\ WaitingInOrder(l) /\ FramedIds(l) \union WaitingIds(l) = {n \in 1 .. Len(sent[l]) : sent[l][n]}
  <2>1. Frames(l) = <<<<>>>> /\ Len(<<<<>>>>) = 1 /\ <<<<>>>>[1] = <<>> /\ sent[l] = <<>>
    BY DEF Init, Frames
  <2>2. FramedIds(l) = {} /\ FramesInOrder(l)
    BY <1>2, <2>1 DEF FramedIds, FramesInOrder
  <2>3. From(l) = {} /\ WaitingIds(l) = {}
    BY <1>2 DEF From, WaitingIds
  <2>4. {n \in 1 .. Len(sent[l]) : sent[l][n]} = {}
    BY <1>2, <2>1
  <2> QED BY <2>2, <2>3, <2>4 DEF WaitingInOrder
<1> QED BY <1>1, <1>2, <1>3 DEF PointsInv, WaitingSent, PointsConserved

\* PointsInv is inductive.
LEMMA PointsStep == FramingAssumption /\ PointsInv /\ [Next]_vars => PointsInv'
<1> SUFFICES ASSUME FramingAssumption, PointsInv, [Next]_vars PROVE PointsInv'
  OBVIOUS
<1>1. FramingTypes' /\ (Cut \/ Arrived \/ Decoded)
  BY Moves DEF PointsInv
<1>2. WaitingSent' /\ PointsConserved'
  BY <1>1, CutConserves, ArrivalConserves, DecodingConserves
<1> QED BY <1>1, <1>2 DEF PointsInv

\* The frames handed to StoragePointData, the growing clouds, the packet in
\* hand and raw_packet_queue_ hold every decodable point once and in order.
THEOREM NoPointLost == Spec => []PointsConserved
<1>1. PointsInv => PointsConserved
  BY DEF PointsInv
<1> QED BY PointsInit, PointsStep, FramingAssumption, <1>1, PTL DEF Spec

----------------------------------------------------------------------------
(* The host clock. *)

LEMMA HostClockInit == Init => HostClock
BY DEF Init, HostClock

\* Only a cut moves the gate, by one interval and only when that has passed.
LEMMA HostClockStep == HostClock /\ [Next]_vars => HostClock'
<1> SUFFICES ASSUME HostClock, [Next]_vars PROVE HostClock'
  OBVIOUS
<1> USE DEF HostClock, clockVars
<1>0. Interval \in Nat /\ Times \subseteq Nat
  BY FramingAssumption
<1>1. ASSUME NEW t \in Times, MoveClock(t) PROVE HostClock'
  <2>1. t \in Nat /\ now' = t /\ latest' \in {t, latest} /\ t <= latest' /\ latest <= latest'
        /\ UNCHANGED <<first, lastPub, hostFrames, hostStart>>
    BY <1>0, <1>1 DEF MoveClock, threadVars
  <2> QED BY <1>0, <2>1
<1>2. CASE CheckTimerFirst
  <2>1. /\ first /\ ~first' /\ first' \in BOOLEAN /\ lastPub' = now /\ hostStart' = now
        /\ UNCHANGED <<now, latest, hostFrames>>
    BY <1>2, Zenon DEF CheckTimerFirst
  <2>2. 0 * Interval = 0
    BY <1>0
  <2> QED BY <2>1, <2>2
<1>3. CASE CheckTimerHost
  <2>1. /\ ~first /\ now - lastPub >= Interval /\ lastPub' = lastPub + Interval /\ hostFrames' = hostFrames + 1
        /\ UNCHANGED <<now, latest, first, hostStart>>
    BY <1>3 DEF CheckTimerHost, GateOpen, NextPub
  <2>2. (hostFrames + 1) * Interval = hostFrames * Interval + Interval
    BY <1>0
  <2>3. hostFrames * Interval \in Nat
    BY <1>0
  <2> QED BY <1>0, <2>1, <2>2, <2>3
<1>4. CASE UNCHANGED <<now, latest, first, lastPub, hostFrames, hostStart>>
  BY <1>4
<1>5. \/ \E t \in Times : MoveClock(t)
      \/ CheckTimerFirst \/ CheckTimerHost
      \/ UNCHANGED <<now, latest, first, lastPub, hostFrames, hostStart>>
  BY DEF Next, OnPacket, OnImuPacket, PushPacket, ThreadStep, TestQuit, TakePacket, WaitTimesOut, PointCloudProcess,
       CheckTimerSync, CheckTimerEarly, RequestExit, threadVars, vars
<1> QED BY <1>1, <1>2, <1>3, <1>4, <1>5

\* However long the thread was stalled, the frames cut by the host clock are
\* never more than the intervals between the first reading of the clock and the
\* latest time it has shown, although it may be set forward and back.
THEOREM NoFrameTooEarly == Spec => []CatchUpBounded
<1>1. HostClock => CatchUpBounded
  <2> SUFFICES ASSUME HostClock PROVE hostFrames * Interval <= latest - hostStart
    BY DEF CatchUpBounded
  <2>1. Interval \in Nat /\ 0 * Interval = 0
    BY FramingAssumption
  <2>2. CASE first
    BY <2>1, <2>2 DEF HostClock
  <2>3. CASE ~first
    <3>1. hostFrames * Interval \in Nat
      BY <2>1 DEF HostClock
    <3> QED BY <2>3, <3>1 DEF HostClock
  <2> QED BY <2>2, <2>3
<1> QED BY HostClockInit, HostClockStep, <1>1, PTL DEF Spec
============================================================================
