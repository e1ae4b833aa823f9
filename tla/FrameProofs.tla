---------------------------- MODULE FrameProofs ----------------------------
(***************************************************************************)
(* Proofs about FrameDelivery, for any number of lidars, ring size and     *)
(* index width: its invariants, and that it implements FrameFifo.          *)
(***************************************************************************)
EXTENDS FrameRefinement, SequenceTheorems, FiniteSetTheorems, TLAPS

----------------------------------------------------------------------------
(* Arithmetic of the ring. *)

\* The bounds on the constants, without the divisibility of W.
LEMMA Bounds ==
  /\ NumLidars \in Nat \ {0}
  /\ Size \in Nat \ {0}
  /\ W \in Nat /\ W >= 2 * Size /\ W > Size
BY ConstantsAssumption

\* Incrementing, decrementing and measuring stay inside the index range.
LEMMA IdxClosed ==
  /\ \A i \in Idx : Inc(i) \in Idx /\ Dec(i) \in Idx
  /\ \A i \in Idx : Dec(Inc(i)) = i /\ Inc(Dec(i)) = i /\ Inc(i) # i
  /\ \A i, j \in Idx : QueueUsedSize(i, j) \in Idx
BY ConstantsAssumption DEF Idx, Inc, Dec, QueueUsedSize

\* mask maps an index to a slot of the ring.
LEMMA SlotRange == \A i \in Idx : Slot(i) \in 0 .. Size - 1
BY ConstantsAssumption DEF Idx, Slot

\* A multiple of the ring size that is not zero is at least the ring size.
LEMMA MultipleBound ==
  ASSUME NEW k \in Int, k # 0
  PROVE  k * Size >= Size \/ k * Size <= -Size
<1>1. CASE k >= 1
  <2>1. (k - 1) * Size >= 0
    BY <1>1, ConstantsAssumption
  <2>2. k * Size = (k - 1) * Size + Size
    BY ConstantsAssumption
  <2> QED BY <2>1, <2>2, ConstantsAssumption
<1>2. CASE k <= -1
  <2>1. (-1 - k) * Size >= 0
    BY <1>2, ConstantsAssumption
  <2>2. k * Size = -((-1 - k) * Size) - Size
    BY ConstantsAssumption
  <2> QED BY <2>1, <2>2, ConstantsAssumption
<1> QED BY <1>1, <1>2

\* Two numbers with the same remainder are equal or a ring size apart.
LEMMA SameRemainder ==
  ASSUME NEW a \in Nat, NEW b \in Nat, a % Size = b % Size
  PROVE  a = b \/ a - b >= Size \/ b - a >= Size
<1> DEFINE k == (a \div Size) - (b \div Size)
<1>1. /\ a = Size * (a \div Size) + (a % Size)
      /\ b = Size * (b \div Size) + (b % Size)
      /\ a \div Size \in Int /\ b \div Size \in Int
  BY ConstantsAssumption
<1>2. k \in Int
  BY <1>1
<1>3. a - b = k * Size
  BY <1>1, ConstantsAssumption
<1> HIDE DEF k
<1>4. CASE k = 0
  BY <1>3, <1>4, ConstantsAssumption
<1>5. CASE k # 0
  BY <1>2, <1>3, <1>5, MultipleBound, ConstantsAssumption
<1> QED BY <1>4, <1>5

\* The wrap of the index from W - 1 to 0 keeps the slot sequence going,
\* because the ring size divides the number of index values.
LEMMA WrapKeepsSlot ==
  ASSUME NEW j \in Nat
  PROVE  (j + W) % Size = j % Size
<1> DEFINE r == (j + W) % Size
           k == (j \div Size) + (W \div Size) - ((j + W) \div Size)
<1>1. /\ j = Size * (j \div Size) + (j % Size)
      /\ W = Size * (W \div Size)
      /\ j + W = Size * ((j + W) \div Size) + ((j + W) % Size)
      /\ j \div Size \in Int /\ W \div Size \in Int /\ (j + W) \div Size \in Int
      /\ j % Size \in 0 .. Size - 1
      /\ r \in 0 .. Size - 1
  BY ConstantsAssumption
<1>2. k \in Int
  BY <1>1
<1>3. r - (j % Size) = k * Size
  BY <1>1, ConstantsAssumption
<1> HIDE DEF k, r
<1>4. CASE k = 0
  BY <1>1, <1>3, <1>4, ConstantsAssumption DEF r
<1>5. CASE k # 0
  BY <1>1, <1>2, <1>3, <1>5, MultipleBound, ConstantsAssumption
<1> QED BY <1>4, <1>5

\* Indices less than a ring size apart use different slots.
LEMMA SlotInjective ==
  ASSUME NEW i \in Idx, NEW j \in Idx,
         QueueUsedSize(i, j) > 0, QueueUsedSize(i, j) < Size
  PROVE  Slot(i) # Slot(j)
<1> SUFFICES ASSUME i % Size = j % Size PROVE FALSE
  BY DEF Slot
<1>1. i \in Nat /\ j \in Nat /\ j + W \in Nat
  BY ConstantsAssumption DEF Idx
<1>2. CASE j >= i
  <2>1. i = j \/ i - j >= Size \/ j - i >= Size
    BY <1>1, SameRemainder
  <2> QED BY <1>1, <1>2, <2>1, ConstantsAssumption DEF QueueUsedSize
<1>3. CASE j < i
  <2>1. i % Size = (j + W) % Size
    BY <1>1, WrapKeepsSlot
  <2>2. i = j + W \/ i - (j + W) >= Size \/ (j + W) - i >= Size
    BY <1>1, <2>1, SameRemainder
  <2> QED BY <1>1, <1>3, <2>2, ConstantsAssumption DEF Idx, QueueUsedSize
<1> QED BY <1>1, <1>2, <1>3
----------------------------------------------------------------------------
(* Type correctness. *)

TypeInv == TypeOK /\ SignalSeesZero

\* An empty store buffer belongs to no lidar.
LEMMA NoneIsNoLidar == None \notin Lidars
BY ConstantsAssumption DEF None, Lidars

\* The state the constructors leave has its types.
LEMMA TypeInit == Init => TypeInv
<1> SUFFICES ASSUME Init PROVE TypeInv
  OBVIOUS
<1>1. 0 \in Idx /\ 0 \in Lidars /\ 0 \in 0 .. NumLidars
  BY Bounds DEF Idx, Lidars
<1> QED
  BY <1>1 DEF Init, TypeInv, TypeOK, SignalSeesZero

\* Every step of the two threads, of the store buffers and of the destructor
\* keeps the types.
LEMMA TypeStep == TypeInv /\ [Next]_vars => TypeInv'
<1> SUFFICES ASSUME TypeOK, SignalSeesZero, [Next]_vars
             PROVE  TypeInv'
  BY DEF TypeInv
<1> USE DEF TypeInv, TypeOK, SignalSeesZero, ringVars, producerVars, consumerVars, exitVars
<1>1. ASSUME NEW l \in Lidars, StoragePointData(l) PROVE TypeInv'
  BY <1>1 DEF StoragePointData
<1>2. ASSUME NEW l \in Lidars, StartSampling(l) PROVE TypeInv'
  BY <1>2 DEF StartSampling
<1>3. CASE TestFull
  BY <1>3 DEF TestFull
<1>4. CASE StoreSlot
  <2>1. Slot(wr[plidar]) \in 0 .. Size - 1
    BY SlotRange
  <2> QED BY <1>4, <2>1 DEF StoreSlot
<1>5. CASE StoreWrIdx
  <2>1. Inc(wr[plidar]) \in Idx
    BY IdxClosed
  <2> QED BY <1>5, <2>1 DEF StoreWrIdx
<1>6. CASE TestEmptyAfterPush
  BY <1>6 DEF TestEmptyAfterPush
<1>7. CASE TestCount
  BY <1>7 DEF TestCount
<1>8. CASE Signal
  BY <1>8 DEF Signal
<1>9. CASE DrainSlot
  <2> DEFINE i == IF ppc = "index" THEN wr[plidar] ELSE Dec(wr[plidar])
  <2>1. i \in Idx
    BY IdxClosed
  <2>2. Slot(i) \in 0 .. Size - 1
    BY <2>1, SlotRange
  <2>3. slot' = [slot EXCEPT ![plidar][Slot(i)] = i]
    BY <1>9 DEF DrainSlot
  <2> HIDE DEF i
  <2>4. slot' \in [Lidars -> [0 .. Size - 1 -> Idx \union {Torn}]]
    BY <2>1, <2>2, <2>3
  <2> QED BY <1>9, <2>4 DEF DrainSlot
<1>10. CASE DrainWrIdx
  BY <1>10 DEF DrainWrIdx
<1>11. CASE DrainRdIdx
  BY <1>11 DEF DrainRdIdx
<1>12. CASE EnterDistribute
  BY <1>12 DEF EnterDistribute
<1>13. CASE Wait
  <2>1. count' \in {0, 1} /\ 0 \in 0 .. NumLidars
    BY <1>13, Bounds DEF Wait
  <2>2. ~(ppc' = "signal")
    BY <1>13 DEF Wait
  <2> QED BY <1>13, <2>1, <2>2 DEF Wait
<1>14. CASE ScanLidar
  <2>1. clidar \in Lidars /\ clidar + 1 \in 0 .. NumLidars
    BY <1>14, Bounds DEF ScanLidar, Lidars
  <2> QED BY <1>14, <2>1 DEF ScanLidar
<1>15. CASE EndScan
  BY <1>15 DEF EndScan, Lidars
<1>16. CASE PollLidar
  <2>1. clidar \in Lidars /\ clidar + 1 \in 0 .. NumLidars
    BY <1>16, Bounds DEF PollLidar, Lidars
  <2> QED BY <1>16, <2>1 DEF PollLidar
<1>17. CASE PublishPclMsg
  BY <1>17 DEF PublishPclMsg
<1>18. CASE TestEmptyBeforePop
  BY <1>18 DEF TestEmptyBeforePop
<1>19. CASE QueuePop
  <2>1. clidar \in Lidars /\ Inc(rd[clidar]) \in Idx /\ Slot(rd[clidar]) \in 0 .. Size - 1
    BY <1>19, IdxClosed, SlotRange DEF QueuePop
  <2>2. slot[clidar][Slot(rd[clidar])] \in Idx \union {Torn}
    BY <2>1
  <2>3. pkg' \in Idx \union {Torn}
    BY <1>19, <2>2 DEF QueuePop
  <2>4. rd' \in [Lidars -> Idx]
    BY <1>19, <2>1 DEF QueuePop
  <2> QED BY <1>19, <2>1, <2>3, <2>4 DEF QueuePop
<1>20. CASE QueuePopUpdateEarly
  <2>1. clidar \in Lidars /\ Inc(rd[clidar]) \in Idx /\ Slot(rd[clidar]) \in 0 .. Size - 1
    BY <1>20, IdxClosed, SlotRange DEF QueuePopUpdateEarly
  <2> QED BY <1>20, <2>1 DEF QueuePopUpdateEarly
<1>21. CASE QueuePrePopLate
  <2>1. clidar \in Lidars /\ Slot(Dec(rd[clidar])) \in 0 .. Size - 1
    BY <1>21, IdxClosed, SlotRange DEF QueuePrePopLate
  <2>2. slot[clidar][Slot(Dec(rd[clidar]))] \in Idx \union {Torn}
    BY <2>1
  <2>3. pkg' \in Idx \union {Torn}
    BY <1>21, <2>2 DEF QueuePrePopLate
  <2>4. cpc' = "publish" /\ UNCHANGED <<format, ringVars, conn, count, producerVars, clidar, polled, exitVars>>
    BY <1>21 DEF QueuePrePopLate
  <2> QED BY <2>1, <2>3, <2>4
<1>22. CASE Publish
  BY <1>22 DEF Publish
<1>23. CASE TestFuture
  BY <1>23 DEF TestFuture
<1>24. CASE RequestExit
  BY <1>24 DEF RequestExit
<1>25. CASE SetExitSignal
  BY <1>25 DEF SetExitSignal
<1>26. CASE JoinPublisher
  BY <1>26 DEF JoinPublisher
<1>27. CASE QuitFraming
  BY <1>27 DEF QuitFraming
<1>28. CASE JoinFraming
  BY <1>28 DEF JoinFraming
<1>29. CASE UNCHANGED vars
  BY <1>29 DEF vars
<1> QED
  BY <1>1, <1>2, <1>3, <1>4, <1>5, <1>6, <1>7, <1>8, <1>9, <1>10, <1>11, <1>12, <1>13, <1>14, <1>15, <1>16, <1>17, <1>18, <1>19, <1>20, <1>21, <1>22, <1>23, <1>24, <1>25, <1>26, <1>27, <1>28, <1>29
  DEF Next, ProducerStep, DrainStep, ConsumerStep, ExitStep

\* The indices, slots, buffers and program counters of the frame path always
\* have their types, and the semaphore of PushLidarData never counts past one.
THEOREM TypeCorrect == Spec => []TypeOK
<1>1. TypeInv => TypeOK
  BY DEF TypeInv
<1> QED BY TypeInit, TypeStep, <1>1, PTL DEF Spec

----------------------------------------------------------------------------
(* The ring. *)

\* Distances between indices, and how a step of either index changes them.
LEMMA Distance ==
  ASSUME NEW i \in Idx, NEW j \in Idx
  PROVE  /\ QueueUsedSize(i, j) \in Nat /\ QueueUsedSize(i, j) < W
         /\ QueueUsedSize(i, j) = 0 <=> i = j
         /\ i # j => QueueUsedSize(Inc(i), j) = QueueUsedSize(i, j) - 1
         /\ i # j => QueueUsedSize(i, Dec(j)) = QueueUsedSize(i, j) - 1
         /\ QueueUsedSize(i, j) < W - 1 =>
              /\ QueueUsedSize(i, Inc(j)) = QueueUsedSize(i, j) + 1
              /\ QueueUsedSize(Dec(i), j) = QueueUsedSize(i, j) + 1
BY Bounds DEF Idx, Inc, Dec, QueueUsedSize

\* Measured from the same start, an index that is nearer lies that much
\* before the other; equal distances mean equal indices.
LEMMA DistanceSplit ==
  ASSUME NEW i \in Idx, NEW j \in Idx, NEW k \in Idx
  PROVE  /\ QueueUsedSize(i, k) <= QueueUsedSize(i, j) =>
              QueueUsedSize(k, j) = QueueUsedSize(i, j) - QueueUsedSize(i, k)
         /\ QueueUsedSize(i, k) = QueueUsedSize(i, j) => k = j
BY Bounds DEF Idx, QueueUsedSize

\* No index has moved.
LEMMA IndexInit == Init => IndexInv
<1> SUFFICES ASSUME Init PROVE IndexInv
  OBVIOUS
<1>1. TypeOK /\ SignalSeesZero
  BY TypeInit DEF TypeInv
<1>2. QueueUsedSize(0, 0) = 0
  BY DEF QueueUsedSize
<1>3. \A l \in Lidars : rd[l] = 0 /\ wr[l] = 0 /\ RdSeen(l) = 0
  BY NoneIsNoLidar DEF Init, RdSeen
<1>4. IndexBuffers /\ PopHasFrame
  BY DEF Init, IndexBuffers, PopHasFrame
<1>5. RingBounded
  BY <1>2, <1>3, NoneIsNoLidar, Bounds DEF RingBounded, Init
<1> QED BY <1>1, <1>4, <1>5 DEF IndexInv

\* However stores are reordered, the producer fills the ring to its size at
\* most and the consumer takes no more than it can see.
LEMMA IndexStep == IndexInv /\ [Next]_vars => IndexInv'
<1> SUFFICES ASSUME IndexInv, [Next]_vars
             PROVE  (IndexBuffers /\ RingBounded /\ PopHasFrame)'
  BY TypeStep DEF IndexInv, TypeInv
<1> DEFINE Goal == IndexBuffers /\ RingBounded /\ PopHasFrame
<1> USE DEF IndexInv, TypeOK, IndexBuffers, RingBounded, PopHasFrame,
            RdSeen, WrSeen, ringVars, producerVars, consumerVars, exitVars
<1> USE NoneIsNoLidar
<1>1. ASSUME NEW l \in Lidars, StoragePointData(l) PROVE Goal'
  BY <1>1 DEF StoragePointData
<1>2. CASE TestFull
  <2>1. RdSeen(plidar) \in Idx
    BY IdxClosed
  <2>2. ppc' = "slot" => QueueUsedSize(RdSeen(plidar), wr[plidar]) <= Size - 1
    BY <1>2, <2>1, Distance, Bounds DEF TestFull, QueueIsFull
  <2> QED BY <1>2, <2>2 DEF TestFull
<1>3. CASE StoreSlot
  BY <1>3 DEF StoreSlot
<1>4. CASE StoreWrIdx
  <2> DEFINE p == plidar
             u == QueueUsedSize(rd[p], wr[p])
  <2>1. /\ wrBuf = None /\ u \in Nat /\ u <= Size - 1
        /\ wr[p] \in Idx /\ rd[p] \in Idx
    <3>1. wrBuf = None /\ wr[p] \in Idx /\ rd[p] \in Idx /\ QueueUsedSize(RdSeen(p), wr[p]) <= Size - 1
      BY <1>4 DEF StoreWrIdx
    <3>2. u \in Nat /\ u <= Size - 1
      BY <1>4, <3>1, Distance DEF StoreWrIdx
    <3> QED BY <3>1, <3>2
  <2>2. wr' = [wr EXCEPT ![p] = Inc(wr[p])]
    BY <1>4 DEF StoreWrIdx
  <2>3. /\ QueueUsedSize(rd[p], Inc(wr[p])) = u + 1
        /\ rdBuf = p => u + 1 <= Size - 1
    <3>1. u < W - 1
      BY <2>1, Bounds
    <3>2. QueueUsedSize(rd[p], Inc(wr[p])) = u + 1 /\ QueueUsedSize(Dec(rd[p]), wr[p]) = u + 1
      BY <2>1, <3>1, Distance
    <3> QED BY <1>4, <3>2 DEF StoreWrIdx
  <2>4. rd[p] # Inc(wr[p]) /\ Dec(Inc(wr[p])) = wr[p] /\ Inc(wr[p]) \in Idx
    BY <2>1, <2>3, Distance, IdxClosed
  <2>5. RingBounded'
    BY <1>4, <2>1, <2>2, <2>3, <2>4, Bounds DEF StoreWrIdx
  <2>6. (IndexBuffers /\ PopHasFrame)'
    BY <1>4, <2>1, <2>2, <2>4 DEF StoreWrIdx
  <2> QED BY <2>5, <2>6
<1>5. CASE TestEmptyAfterPush \/ TestCount \/ Signal
  BY <1>5 DEF TestEmptyAfterPush, TestCount, Signal, ProducerMayGo
<1>6. CASE DrainSlot
  BY <1>6 DEF DrainSlot
<1>7. CASE DrainWrIdx
  BY <1>7 DEF DrainWrIdx
<1>8. CASE DrainRdIdx
  BY <1>8 DEF DrainRdIdx
<1>9. CASE TestEmptyBeforePop
  BY <1>9 DEF TestEmptyBeforePop, QueueIsEmpty
<1>10. CASE QueuePop \/ QueuePopUpdateEarly
  <2> DEFINE c == clidar
             u == QueueUsedSize(rd[c], wr[c])
  <2>1. /\ c \in Lidars /\ rd[c] \in Idx /\ wr[c] \in Idx /\ rdBuf = None
        /\ rd[c] # WrSeen(c)
        /\ rd' = [rd EXCEPT ![c] = Inc(rd[c])] /\ rdBuf' = c
        /\ cpc' \in {"late", "publish"} /\ clidar' = c
        /\ UNCHANGED <<wr, wrBuf, ppc, plidar>>
    BY <1>10 DEF QueuePop, QueuePopUpdateEarly
  <2>2. rd[c] # wr[c] /\ u \in Nat /\ u > 0
    BY <2>1, Distance
  <2>3. /\ QueueUsedSize(Inc(rd[c]), wr[c]) = u - 1
        /\ Dec(Inc(rd[c])) = rd[c] /\ Inc(rd[c]) \in Idx
    BY <2>1, <2>2, Distance, IdxClosed
  <2>4. wrBuf = c => Inc(rd[c]) # wr[c]
    BY <2>1, IdxClosed
  <2>5. RingBounded'
    <3>1. \A l \in Lidars \ {c} : rd'[l] = rd[l] /\ RdSeen(l)' = RdSeen(l)
      BY <2>1
    <3>2. rd'[c] = Inc(rd[c]) /\ RdSeen(c)' = RdSeen(c)
      BY <2>1, <2>3
    <3>3. u <= Size
      BY <2>1
    <3> QED BY <2>1, <2>2, <2>3, <2>4, <3>1, <3>2, <3>3, Bounds
  <2>6. (IndexBuffers /\ PopHasFrame)'
    BY <2>1
  <2> QED BY <2>5, <2>6
<1>11. CASE QueuePrePopLate \/ Publish
  BY <1>11 DEF QueuePrePopLate, Publish
<1>12. CASE EnterDistribute \/ Wait \/ ScanLidar \/ EndScan \/ PollLidar \/ PublishPclMsg \/ TestFuture
  BY <1>12 DEF EnterDistribute, Wait, ScanLidar, EndScan, PollLidar, PublishPclMsg, TestFuture
<1>13. CASE (\E l \in Lidars : StartSampling(l)) \/ ExitStep
  BY <1>13 DEF StartSampling, ExitStep, RequestExit, SetExitSignal, JoinPublisher, QuitFraming, JoinFraming
<1>14. CASE UNCHANGED vars
  BY <1>14 DEF vars
<1> QED
  BY <1>1, <1>2, <1>3, <1>4, <1>5, <1>6, <1>7, <1>8, <1>9, <1>10, <1>11, <1>12, <1>13, <1>14
  DEF Next, ProducerStep, DrainStep, ConsumerStep

\* Empty rings satisfy the ring invariant.
LEMMA RingInit == Init => RingInv
<1> SUFFICES ASSUME Init PROVE RingInv
  OBVIOUS
<1>2. QueueUsedSize(0, 0) = 0
  BY DEF QueueUsedSize
<1>3. \A l \in Lidars : rd[l] = 0 /\ wr[l] = 0
  BY DEF Init
<1>4. SlotBufOwned /\ SlotStored /\ PublishedInOrder
  BY DEF Init, SlotBufOwned, PublishedInOrder, SlotStored
<1>6. SlotsHold
  <2>1. 0 \in Idx
    BY Bounds DEF Idx
  <2>2. \A i \in Idx : ~(QueueUsedSize(0, i) < 0)
    BY <2>1, Distance
  <2> QED BY <1>2, <1>3, <2>2 DEF SlotsHold, InRing
<1> QED BY IndexInit, <1>4, <1>6 DEF RingInv

\* Every step keeps the ring invariant when stores become visible in program
\* order: one step of the proof per action of the two threads.
LEMMA RingStep == Memory # "ARM" /\ RingInv /\ [Next]_vars => RingInv'
<1> SUFFICES ASSUME Memory # "ARM", RingInv, [Next]_vars
             PROVE  (SlotBufOwned /\ SlotsHold /\ SlotStored /\ PublishedInOrder)'
  BY IndexStep DEF RingInv
<1> DEFINE Goal == SlotBufOwned /\ SlotsHold /\ SlotStored /\ PublishedInOrder
<1> USE DEF RingInv, IndexInv, TypeOK, IndexBuffers, RingBounded, PopHasFrame, SlotBufOwned, SlotsHold, InRing, SlotStored, PublishedInOrder,
            RdSeen, WrSeen, ringVars, producerVars, consumerVars, exitVars
<1> USE NoneIsNoLidar
<1>1. ASSUME NEW l \in Lidars, StoragePointData(l) PROVE Goal'
  BY <1>1 DEF StoragePointData
<1>2. ASSUME NEW l \in Lidars, StartSampling(l) PROVE Goal'
  BY <1>2 DEF StartSampling
<1>3. CASE TestFull
  BY <1>3 DEF TestFull
<1>4. CASE StoreSlot
  <2> DEFINE p == plidar
  <2>1. slotBuf = None /\ wrBuf = None
    BY <1>4 DEF StoreSlot
  <2>2. QueueUsedSize(rd[p], wr[p]) <= Size - 1
    BY <1>4 DEF StoreSlot
  <2>3. ASSUME NEW i \in Idx, QueueUsedSize(rd[p], i) < QueueUsedSize(rd[p], wr[p])
        PROVE  Slot(i) # Slot(wr[p])
    <3>1. /\ QueueUsedSize(rd[p], i) \in Nat /\ QueueUsedSize(rd[p], wr[p]) \in Nat
          /\ QueueUsedSize(i, wr[p]) = QueueUsedSize(rd[p], wr[p]) - QueueUsedSize(rd[p], i)
      BY <2>3, Distance, DistanceSplit
    <3> QED BY <2>2, <2>3, <3>1, SlotInjective, Bounds
  <2>4. SlotsHold'
    BY <1>4, <2>1, <2>3 DEF StoreSlot
  <2>5. (SlotBufOwned /\ SlotStored /\ PublishedInOrder)'
    BY <1>4, <2>1 DEF StoreSlot
  <2> QED BY <2>4, <2>5
<1>5. CASE StoreWrIdx
  <2> DEFINE p == plidar
             u == QueueUsedSize(rd[p], wr[p])
  <2>1. /\ wrBuf = None /\ u \in Nat /\ u <= Size - 1
        /\ wr[p] \in Idx /\ rd[p] \in Idx
    BY <1>5, Distance DEF StoreWrIdx
  <2>2. wr' = [wr EXCEPT ![p] = Inc(wr[p])]
    BY <1>5 DEF StoreWrIdx
  <2>3. QueueUsedSize(rd[p], Inc(wr[p])) = u + 1
    <3>1. u < W - 1
      BY <2>1, Bounds
    <3> QED BY <2>1, <3>1, Distance
  <2>4. Dec(Inc(wr[p])) = wr[p] /\ Inc(wr[p]) \in Idx
    BY <2>1, IdxClosed
  <2>6. ASSUME NEW i \in Idx, QueueUsedSize(rd[p], i) < u + 1, slotBuf # p \/ i # wr[p]
        PROVE  slot[p][Slot(i)] = i
    <3>1. QueueUsedSize(rd[p], i) \in Nat
      BY <2>1, Distance
    <3>2. CASE QueueUsedSize(rd[p], i) < u
      BY <1>5, <2>1, <3>2 DEF StoreWrIdx
    <3>3. CASE QueueUsedSize(rd[p], i) = u
      <4>1. i = wr[p]
        BY <2>1, <3>3, DistanceSplit
      <4> QED BY <1>5, <2>1, <2>6, <4>1 DEF StoreWrIdx
    <3> QED BY <2>1, <2>6, <3>1, <3>2, <3>3
  <2>7. SlotsHold'
    BY <1>5, <2>2, <2>3, <2>4, <2>6 DEF StoreWrIdx
  <2>8. (SlotBufOwned /\ SlotStored /\ PublishedInOrder)'
    BY <1>5, <2>1, <2>2, <2>4 DEF StoreWrIdx
  <2> QED BY <2>7, <2>8
<1>6. CASE TestEmptyAfterPush
  BY <1>6 DEF TestEmptyAfterPush
<1>7. CASE TestCount
  BY <1>7 DEF TestCount
<1>8. CASE Signal
  BY <1>8 DEF Signal
<1>9. CASE DrainSlot
  <2> DEFINE p == plidar
             i == IF ppc = "index" THEN wr[p] ELSE Dec(wr[p])
  <2>1. /\ slotBuf = p /\ slotBuf' = None /\ i \in Idx
        /\ slot' = [slot EXCEPT ![p][Slot(i)] = i]
    BY <1>9, IdxClosed DEF DrainSlot
  <2>2. ASSUME NEW k \in Idx, k # i, QueueUsedSize(rd[p], k) < QueueUsedSize(rd[p], wr[p])
        PROVE  Slot(k) # Slot(i)
    <3>1. /\ QueueUsedSize(rd[p], k) \in Nat /\ QueueUsedSize(rd[p], wr[p]) \in Nat
          /\ QueueUsedSize(rd[p], i) \in Nat
      BY <2>1, Distance
    <3>2. QueueUsedSize(rd[p], i) <= Size - 1 /\ QueueUsedSize(rd[p], k) <= QueueUsedSize(rd[p], i)
      <4>1. CASE ppc = "index"
        BY <2>2, <3>1, <4>1
      <4>2. CASE ppc # "index"
        <5>1. rd[p] # wr[p]
          BY <2>1, <4>2
        <5>2. QueueUsedSize(rd[p], i) = QueueUsedSize(rd[p], wr[p]) - 1
          BY <4>2, <5>1, Distance
        <5> QED BY <2>2, <3>1, <5>2, Bounds
      <4> QED BY <4>1, <4>2
    <3>3. QueueUsedSize(rd[p], k) # QueueUsedSize(rd[p], i)
      BY <2>1, <2>2, DistanceSplit
    <3>4. QueueUsedSize(k, i) = QueueUsedSize(rd[p], i) - QueueUsedSize(rd[p], k)
      BY <2>1, <3>2, DistanceSplit
    <3> HIDE DEF i
    <3> QED BY <2>1, <2>2, <3>1, <3>2, <3>3, <3>4, SlotInjective, Bounds
  <2>3. Slot(i) \in 0 .. Size - 1
    BY <2>1, SlotRange
  <2>4. SlotStored'
    <3>1. UNCHANGED <<wr, ppc, plidar>>
      BY <1>9 DEF DrainSlot
    <3>2. CASE ppc = "index"
      <4>1. i = wr[p]
        BY <3>2
      <4>2. slot'[p][Slot(wr[p])] = wr[p]
        BY <2>1, <2>3, <4>1
      <4> QED BY <3>1, <4>2
    <3>3. CASE ppc # "index"
      BY <3>1, <3>3
    <3> QED BY <3>2, <3>3
  <2>5. SlotsHold'
    <3>1. \A k \in Idx : Slot(k) \in 0 .. Size - 1
      BY SlotRange
    <3>2. UNCHANGED <<rd, wr, ppc>>
      BY <1>9 DEF DrainSlot
    <3>3. ASSUME NEW k \in Idx, k # i, QueueUsedSize(rd[p], k) < QueueUsedSize(rd[p], wr[p])
          PROVE  slot'[p][Slot(k)] = k
      <4>1. slot[p][Slot(k)] = k
        BY <2>1, <3>3
      <4> HIDE DEF i
      <4> QED BY <2>1, <2>2, <2>3, <3>1, <3>3, <4>1
    <3>4. slot'[p][Slot(i)] = i
      BY <2>1, <2>3
    <3>5. \A l \in Lidars \ {p} : slot'[l] = slot[l] /\ slotBuf # l
      BY <2>1
    <3> HIDE DEF i
    <3> QED BY <2>1, <3>2, <3>3, <3>4, <3>5
  <2>6. (SlotBufOwned /\ PublishedInOrder)'
    BY <1>9 DEF DrainSlot
  <2> QED BY <2>4, <2>5, <2>6
<1>10. CASE DrainWrIdx
  BY <1>10 DEF DrainWrIdx
<1>11. CASE DrainRdIdx
  BY <1>11 DEF DrainRdIdx
<1>12. CASE EnterDistribute
  BY <1>12 DEF EnterDistribute
<1>13. CASE Wait
  BY <1>13 DEF Wait
<1>14. CASE ScanLidar
  BY <1>14 DEF ScanLidar
<1>15. CASE EndScan
  BY <1>15 DEF EndScan
<1>16. CASE PollLidar
  BY <1>16 DEF PollLidar
<1>17. CASE PublishPclMsg
  BY <1>17 DEF PublishPclMsg
<1>18. CASE TestEmptyBeforePop
  BY <1>18 DEF TestEmptyBeforePop, QueueIsEmpty
<1>19. CASE QueuePop
  <2> DEFINE c == clidar
             u == QueueUsedSize(rd[c], wr[c])
  <2>1. /\ c \in Lidars /\ rd[c] \in Idx /\ wr[c] \in Idx /\ rdBuf = None
        /\ rd[c] # WrSeen(c)
        /\ rd' = [rd EXCEPT ![c] = Inc(rd[c])] /\ rdBuf' = c
    BY <1>19 DEF QueuePop
  <2>2. rd[c] # wr[c] /\ u \in Nat /\ u > 0
    BY <2>1, Distance
  <2>3. /\ QueueUsedSize(Inc(rd[c]), wr[c]) = u - 1
        /\ Dec(Inc(rd[c])) = rd[c] /\ Inc(rd[c]) \in Idx
    BY <2>1, <2>2, Distance, IdxClosed
  <2>5. slot[c][Slot(rd[c])] = rd[c]
    <3>1. QueueUsedSize(rd[c], rd[c]) = 0
      BY <2>1, Distance
    <3>2. ~(slotBuf = c /\ ppc # "index" /\ rd[c] = Dec(wr[c]))
      BY <2>1
    <3> QED BY <2>1, <2>2, <3>1, <3>2
  <2>7. ASSUME NEW i \in Idx, QueueUsedSize(Inc(rd[c]), i) < u - 1
        PROVE  QueueUsedSize(rd[c], i) < u
    <3>1. i # rd[c]
      <4>1. QueueUsedSize(Inc(rd[c]), rd[c]) = W - 1
        BY <2>1, Bounds DEF QueueUsedSize, Inc, Idx
      <4>2. u \in Nat /\ u < W
        BY <2>1, Distance
      <4>3. SUFFICES ASSUME i = rd[c] PROVE FALSE
        OBVIOUS
      <4>4. W - 1 < u - 1
        BY <2>7, <4>1, <4>3
      <4> QED BY <4>2, <4>4, Bounds
    <3>2. QueueUsedSize(Inc(rd[c]), i) = QueueUsedSize(rd[c], i) - 1 /\ QueueUsedSize(rd[c], i) \in Nat
      BY <2>1, <3>1, Distance
    <3> QED BY <2>2, <2>7, <3>2
  <2>8. SlotsHold'
    BY <1>19, <2>1, <2>3, <2>7 DEF QueuePop
  <2>9. (SlotBufOwned /\ SlotStored /\ PublishedInOrder)'
    BY <1>19, <2>1, <2>3, <2>5 DEF QueuePop
  <2> QED BY <2>8, <2>9
<1>20. CASE QueuePopUpdateEarly
  BY <1>20 DEF QueuePopUpdateEarly
<1>21. CASE QueuePrePopLate
  BY <1>21 DEF QueuePrePopLate
<1>22. CASE Publish
  BY <1>22 DEF Publish
<1>23. CASE TestFuture
  BY <1>23 DEF TestFuture
<1>24. CASE RequestExit
  BY <1>24 DEF RequestExit
<1>25. CASE SetExitSignal
  BY <1>25 DEF SetExitSignal
<1>26. CASE JoinPublisher
  BY <1>26 DEF JoinPublisher
<1>27. CASE QuitFraming
  BY <1>27 DEF QuitFraming
<1>28. CASE JoinFraming
  BY <1>28 DEF JoinFraming
<1>29. CASE UNCHANGED vars
  BY <1>29 DEF vars
<1> QED
  BY <1>1, <1>2, <1>3, <1>4, <1>5, <1>6, <1>7, <1>8, <1>9, <1>10, <1>11, <1>12, <1>13, <1>14, <1>15, <1>16, <1>17, <1>18, <1>19, <1>20, <1>21, <1>22, <1>23, <1>24, <1>25, <1>26, <1>27, <1>28, <1>29
  DEF Next, ProducerStep, DrainStep, ConsumerStep, ExitStep

\* RingInv says what RingIntact says of the frames the publisher can see.
LEMMA RingInvIntact == RingInv => RingIntact
<1> SUFFICES ASSUME RingInv, NEW l \in Lidars, NEW i \in Idx,
                    QueueUsedSize(rd[l], i) < QueueUsedSize(rd[l], WrSeen(l))
             PROVE  slot[l][Slot(i)] = i
  BY DEF RingIntact
<1> USE DEF RingInv, IndexInv, TypeOK
<1>1. rd[l] \in Idx /\ wr[l] \in Idx /\ QueueUsedSize(rd[l], i) \in Nat
      /\ QueueUsedSize(rd[l], wr[l]) \in Nat
  BY Distance
<1>2. CASE wrBuf = l
  <2>1. rd[l] # wr[l] /\ WrSeen(l) = Dec(wr[l])
    BY <1>2 DEF RingBounded, WrSeen
  <2>2. QueueUsedSize(rd[l], WrSeen(l)) = QueueUsedSize(rd[l], wr[l]) - 1
    BY <1>1, <2>1, Distance
  <2>3. i # Dec(wr[l]) /\ QueueUsedSize(rd[l], i) < QueueUsedSize(rd[l], wr[l])
    BY <1>1, <2>1, <2>2
  <2> QED BY <2>3 DEF SlotsHold, InRing
<1>3. CASE wrBuf # l
  <2>1. slotBuf = l => ppc = "index"
    BY <1>3, NoneIsNoLidar DEF SlotBufOwned
  <2> QED BY <1>3, <2>1 DEF SlotsHold, InRing, WrSeen
<1> QED BY <1>2, <1>3

\* On machines that keep stores in program order, the publishing thread only
\* ever finds whole frames, in their slots, for every ring size, index width
\* and number of lidars: QueuePushAny never overwrites an untaken frame.
THEOREM RingAlwaysIntact == Memory # "ARM" => (Spec => []RingIntact)
<1> SUFFICES ASSUME Memory # "ARM" PROVE Spec => []RingIntact
  OBVIOUS
<1>1. RingInv /\ [Next]_vars => RingInv'
  BY RingStep
<1> QED BY RingInit, <1>1, RingInvIntact, PTL DEF Spec

\* On such machines every publish() receives the oldest unpublished frame of
\* its lidar, whole: the frames of a lidar leave in the order PushLidarData
\* accepted them, none lost and none repeated.
THEOREM FramesPublishedInOrder == Memory # "ARM" => (Spec => []PublishedInOrder)
<1> SUFFICES ASSUME Memory # "ARM" PROVE Spec => []PublishedInOrder
  OBVIOUS
<1>1. RingInv /\ [Next]_vars => RingInv'
  BY RingStep
<1>2. RingInv => PublishedInOrder
  BY DEF RingInv
<1> QED BY RingInit, <1>1, <1>2, PTL DEF Spec

----------------------------------------------------------------------------
(* The wakeup. *)

\* A ring is created before its first push and the consumer takes only what
\* was pushed.
LEMMA ReadyStep == IndexInv /\ RingReady /\ [Next]_vars => RingReady'
<1> SUFFICES ASSUME IndexInv, RingReady, [Next]_vars PROVE RingReady'
  OBVIOUS
<1> USE DEF IndexInv, TypeOK, RingReady, ringVars, producerVars, consumerVars, exitVars
<1>1. ASSUME NEW l \in Lidars, StoragePointData(l) PROVE RingReady'
  BY <1>1 DEF StoragePointData
<1>2. ASSUME NEW l \in Lidars, StartSampling(l) PROVE RingReady'
  BY <1>2 DEF StartSampling
<1>3. CASE TestFull \/ StoreSlot \/ TestEmptyAfterPush \/ TestCount \/ Signal
  BY <1>3 DEF TestFull, StoreSlot, TestEmptyAfterPush, TestCount, Signal
<1>4. CASE StoreWrIdx
  BY <1>4 DEF StoreWrIdx
<1>5. CASE DrainStep
  BY <1>5 DEF DrainStep, DrainSlot, DrainWrIdx, DrainRdIdx
<1>6. CASE QueuePop \/ QueuePopUpdateEarly
  <2>1. clidar \in Lidars /\ rd' = [rd EXCEPT ![clidar] = Inc(@)] /\ rd[clidar] # WrSeen(clidar)
        /\ UNCHANGED <<ready, wr, ppc, plidar, polled, conn>>
    BY <1>6 DEF QueuePop, QueuePopUpdateEarly, PopHasFrame
  <2>2. rd[clidar] # wr[clidar]
    BY <2>1 DEF RingBounded, WrSeen
  <2> QED BY <2>1, <2>2
<1>7. CASE ScanLidar
  BY <1>7 DEF ScanLidar
<1>8. CASE \/ EnterDistribute \/ Wait \/ EndScan \/ PollLidar \/ PublishPclMsg
           \/ TestEmptyBeforePop \/ QueuePrePopLate \/ Publish \/ TestFuture
  BY <1>8 DEF EnterDistribute, Wait, EndScan, PollLidar, PublishPclMsg, TestEmptyBeforePop,
       QueuePrePopLate, Publish, TestFuture
<1>9. CASE ExitStep
  BY <1>9 DEF ExitStep, RequestExit, SetExitSignal, JoinPublisher, QuitFraming, JoinFraming
<1>10. CASE UNCHANGED vars
  BY <1>10 DEF vars
<1> QED
  BY <1>1, <1>2, <1>3, <1>4, <1>5, <1>6, <1>7, <1>8, <1>9, <1>10 DEF Next, ProducerStep, ConsumerStep

\* A pass that goes on covers the lidars it covered before.
LEMMA StillCovered ==
  ASSUME TypeOK, UNCHANGED <<rd, wr, polled>>, \A l \in Lidars : Covered(l) => Covered(l)'
  PROVE  Left' \subseteq Left
BY DEF TypeOK, Left, Stranded, InRing

\* A step that leaves no more frames and is not one of the producer's.
LEMMA NoMoreLeft ==
  ASSUME FewLeft, Left' \subseteq Left, UNCHANGED <<wr, wrBuf, ppc, plidar>>
  PROVE  FewLeft'
BY DEF FewLeft, Pushed, Newest

\* A step of the consumer outside the ring of a lidar that it has to empty.
LEMMA OutsideRings ==
  ASSUME TypeOK, FewLeft, UNCHANGED <<rd, wr, wrBuf, ppc, plidar, polled>>,
         \A l \in Lidars : Covered(l) => Covered(l)'
  PROVE  FewLeft'
BY StillCovered, NoMoreLeft

\* WakeupInv is inductive with the invariants of the indices: a frame the
\* pass leaves is the one being pushed, or its push will signal.
LEMMA WakeupStep ==
  IndexInv /\ IndexInv' /\ RingReady /\ WakeupInv /\ [Next]_vars => WakeupInv'
<1> SUFFICES ASSUME IndexInv, IndexInv', RingReady, WakeupInv, [Next]_vars,
                    count' = 0, requestExit' => cpc' = "wait"
             PROVE  FewLeft'
  BY DEF WakeupInv
<1> USE DEF ringVars, producerVars, consumerVars, exitVars
<1>1. /\ TypeOK /\ rd \in [Lidars -> Idx] /\ wr \in [Lidars -> Idx] /\ plidar \in Lidars /\ polled \subseteq Lidars
      /\ clidar \in 0 .. NumLidars
  BY DEF IndexInv, TypeOK
<1>2. ASSUME NEW l \in Lidars
      PROVE  /\ rd[l] = wr[l] => \A i \in Idx : ~InRing(l, i)
             /\ wrBuf = l => rd[l] # wr[l]
  <2>1. wrBuf = l => rd[l] # wr[l]
    BY DEF IndexInv, RingBounded
  <2>2. rd[l] = wr[l] => \A i \in Idx : ~InRing(l, i)
    BY <1>1, Distance DEF InRing
  <2> QED BY <2>1, <2>2
<1>3. ASSUME NEW l \in Lidars, StoragePointData(l) PROVE FewLeft'
  <2>1. /\ ppc = "idle" /\ wrBuf = None /\ wrBuf' = None /\ ppc' = "full"
        /\ UNCHANGED <<rd, wr, polled, cpc, clidar, count, requestExit>>
    BY <1>3 DEF StoragePointData
  <2>2. Left' \subseteq Left
    BY <1>1, <2>1, StillCovered DEF Covered
  <2>3. Pushed = {} /\ Pushed' = {}
    BY <2>1 DEF Pushed
  <2> QED BY <2>1, <2>2, <2>3 DEF WakeupInv, FewLeft
<1>4. CASE (\E l \in Lidars : StartSampling(l)) \/ DrainSlot \/ DrainRdIdx \/ StoreSlot \/ ExitStep \/ UNCHANGED vars
  <2>1. /\ UNCHANGED <<rd, wr, wrBuf, plidar, polled, cpc, clidar, count>> /\ (requestExit => requestExit')
        /\ ppc' = ppc \/ (ppc = "slot" /\ ppc' = "index")
    BY <1>4 DEF StartSampling, DrainSlot, DrainRdIdx, StoreSlot, ExitStep, RequestExit, SetExitSignal, JoinPublisher,
         QuitFraming, JoinFraming, vars
  <2>2. FewLeft
    BY <2>1 DEF WakeupInv
  <2>3. Left' \subseteq Left
    BY <1>1, <2>1, StillCovered DEF Covered
  <2> QED BY <2>1, <2>2, <2>3 DEF FewLeft, Pushed, Newest
<1>5. CASE TestFull
  <2>1. /\ ppc = "full" /\ ppc' \in {"count", "slot"}
        /\ UNCHANGED <<rd, wr, wrBuf, plidar, polled, cpc, clidar, count, requestExit>>
    BY <1>5 DEF TestFull
  <2>2. Left' \subseteq Left
    BY <1>1, <2>1, StillCovered DEF Covered
  <2>3. Pushed = {}
    BY <2>1 DEF Pushed
  <2> QED BY <2>1, <2>2, <2>3 DEF WakeupInv, FewLeft
<1>6. CASE StoreWrIdx
  <2> DEFINE x == wr[plidar]
  <2>1. /\ ppc = "index" /\ ppc' = "empty" /\ wr' = [wr EXCEPT ![plidar] = Inc(x)]
        /\ UNCHANGED <<rd, plidar, polled, cpc, clidar, count, requestExit>>
    BY <1>6 DEF StoreWrIdx
  <2>2. x \in Idx /\ Newest' = <<plidar, x>> /\ Pushed = {} /\ Pushed' = {Newest'}
    BY <1>1, <2>1, IdxClosed DEF Newest, Pushed
  <2>3. ASSUME NEW i \in Idx, InRing(plidar, i)', i # x
        PROVE  InRing(plidar, i)
    <3> DEFINE r == rd[plidar]
    <3>1. r \in Idx /\ QueueUsedSize(r, i) \in Nat /\ QueueUsedSize(r, x) \in Nat /\ QueueUsedSize(r, x) < W
      BY <1>1, <2>2, Distance
    <3>2. QueueUsedSize(r, i) < QueueUsedSize(r, Inc(x))
      BY <1>1, <2>1, <2>3 DEF InRing
    <3>3. CASE QueueUsedSize(r, x) < W - 1
      <4>1. QueueUsedSize(r, Inc(x)) = QueueUsedSize(r, x) + 1
        BY <2>2, <3>1, <3>3, Distance
      <4>2. QueueUsedSize(r, i) # QueueUsedSize(r, x)
        BY <2>2, <2>3, <3>1, DistanceSplit
      <4> QED BY <3>1, <3>2, <4>1, <4>2 DEF InRing
    <3>4. CASE QueueUsedSize(r, x) = W - 1
      <4>1. QueueUsedSize(r, i) < W /\ QueueUsedSize(r, i) # QueueUsedSize(r, x)
        BY <2>2, <2>3, <3>1, Distance, DistanceSplit
      <4> QED BY <3>1, <3>4, <4>1, Bounds DEF InRing
    <3> QED BY <3>1, <3>3, <3>4, Bounds
  <2>4. ASSUME NEW f \in Left', f # Newest' PROVE f \in Left
    <3>1. f \in polled \X Idx /\ InRing(f[1], f[2])' /\ ~Covered(f[1])
      BY <2>1, <2>4 DEF Left, Stranded, Covered
    <3>2. CASE f[1] = plidar
      <4>1. f[2] \in Idx /\ f[2] # x
        BY <2>2, <2>4, <3>1, <3>2
      <4>2. InRing(plidar, f[2])'
        BY <2>1, <3>1, <3>2 DEF InRing
      <4>3. InRing(plidar, f[2])
        BY <2>3, <4>1, <4>2
      <4> QED BY <3>1, <3>2, <4>3 DEF Left, Stranded, InRing
    <3>3. CASE f[1] # plidar
      <4>1. InRing(f[1], f[2])
        BY <1>1, <2>1, <3>1, <3>3 DEF InRing
      <4> QED BY <3>1, <4>1 DEF Left, Stranded
    <3> QED BY <3>2, <3>3
  <2> QED BY <2>1, <2>2, <2>4 DEF WakeupInv, FewLeft
<1>7. CASE TestEmptyAfterPush
  <2>1. /\ ppc = "empty" /\ ppc' = IF QueueIsEmpty(RdSeen(plidar), wr[plidar]) THEN "idle" ELSE "count"
        /\ UNCHANGED <<rd, wr, wrBuf, rdBuf, plidar, polled, cpc, clidar, count, requestExit>>
    BY <1>7 DEF TestEmptyAfterPush
  <2>2. Left' \subseteq Left /\ Newest' = Newest
    BY <1>1, <2>1, StillCovered DEF Covered, Newest
  <2>3. CASE ppc' = "count"
    BY <2>1, <2>2, <2>3 DEF WakeupInv, FewLeft, Pushed
  <2>4. CASE RdSeen(plidar) = wr[plidar] /\ ppc' = "idle"
    <3>1. rd[plidar] = wr[plidar]
      <4>1. SUFFICES ASSUME rdBuf = plidar PROVE FALSE
        BY <2>4 DEF RdSeen
      <4>2. Dec(rd[plidar]) = wr[plidar] /\ rd[plidar] \in Idx /\ wr[plidar] \in Idx
        BY <1>1, <2>4, <4>1 DEF RdSeen
      <4>3. rd[plidar] = Inc(wr[plidar])
        BY <4>2, IdxClosed
      <4>4. QueueUsedSize(rd[plidar], wr[plidar]) = W - 1
        BY <4>2, <4>3, Bounds DEF QueueUsedSize, Inc, Idx
      <4>5. QueueUsedSize(rd[plidar], wr[plidar]) <= Size - 1
        BY <1>1, <4>1 DEF IndexInv, RingBounded
      <4> QED BY <4>4, <4>5, Bounds
    <3>2. wrBuf = None
      BY <1>1, <1>2, <3>1 DEF IndexInv, IndexBuffers
    <3>3. Newest \notin Left
      <4>1. Dec(wr[plidar]) \in Idx
        BY <1>1, IdxClosed
      <4> QED BY <1>1, <1>2, <3>1, <4>1 DEF Newest, Left, Stranded
    <3>4. Pushed = {Newest} /\ Pushed' = {}
      BY <2>1, <2>4 DEF Pushed
    <3> QED BY <2>1, <2>2, <3>2, <3>3, <3>4 DEF WakeupInv, FewLeft
  <2> QED BY <2>1, <2>3, <2>4 DEF QueueIsEmpty
<1>8. CASE TestCount
  <2>1. /\ ppc = "count" /\ ppc' = "signal"
        /\ UNCHANGED <<rd, wr, wrBuf, plidar, polled, cpc, clidar, count, requestExit>>
    BY <1>8 DEF TestCount
  <2>2. Left' \subseteq Left /\ Newest' = Newest
    BY <1>1, <2>1, StillCovered DEF Covered, Newest
  <2> QED BY <2>1, <2>2 DEF WakeupInv, FewLeft, Pushed
<1>9. CASE Signal
  BY <1>9 DEF Signal, IndexInv, TypeOK
<1>10. CASE DrainWrIdx
  <2>1. wrBuf' = None /\ UNCHANGED <<rd, wr, ppc, plidar, polled, cpc, clidar, count, requestExit>>
    BY <1>10 DEF DrainWrIdx
  <2>2. Left' \subseteq Left
    BY <1>1, <2>1, StillCovered DEF Covered
  <2> QED BY <2>1, <2>2 DEF WakeupInv, FewLeft, Pushed, Newest
<1>11. CASE Wait
  <2>1. clidar' = 0 /\ cpc' = "scan" /\ polled' = polled
    BY <1>11 DEF Wait
  <2>2. \A l \in Lidars : Covered(l)'
    BY <2>1, Bounds DEF Covered, Lidars
  <2>3. Left' = {}
    BY <1>1, <2>1, <2>2 DEF Left, Stranded
  <2> QED BY <2>3 DEF FewLeft
<1>12. CASE EnterDistribute \/ EndScan \/ PublishPclMsg \/ TestEmptyBeforePop \/ QueuePrePopLate \/ Publish \/ TestFuture
  <2>1. /\ UNCHANGED <<rd, wr, wrBuf, ppc, plidar, polled, clidar, count, requestExit>>
        /\ cpc = "enter" \/ requestExit' = FALSE
        /\ cpc = "enter" => cpc' = IF requestExit THEN "future" ELSE "wait"
    BY <1>1, <1>12 DEF EnterDistribute, EndScan, PublishPclMsg, TestEmptyBeforePop, QueuePrePopLate, Publish, TestFuture,
         IndexInv, TypeOK
  <2>2. \A l \in Lidars : Covered(l) => Covered(l)'
    BY <1>12, Bounds DEF Covered, EnterDistribute, EndScan, PublishPclMsg, TestEmptyBeforePop, QueuePrePopLate, Publish,
         TestFuture, Lidars
  <2>3. FewLeft
    BY <2>1 DEF WakeupInv
  <2> QED BY <1>1, <2>1, <2>2, <2>3, OutsideRings
<1>13. CASE ScanLidar
  <2>1. /\ cpc = "scan" /\ clidar \in Lidars /\ ~requestExit
        /\ polled' = IF conn[clidar] THEN polled \union {clidar} ELSE polled
        /\ \/ cpc' = "poll" /\ clidar' = clidar
           \/ ~(conn[clidar] /\ ready[clidar]) /\ clidar' = clidar + 1 /\ cpc' = "scan"
        /\ UNCHANGED <<rd, wr, wrBuf, ppc, plidar, count, requestExit>>
    BY <1>1, <1>13, Bounds DEF ScanLidar, Lidars, IndexInv, TypeOK
  <2>2. FewLeft
    BY <2>1 DEF WakeupInv
  <2>3. ASSUME NEW f \in Left' PROVE f \in Left
    <3>1. f \in polled' \X Idx /\ InRing(f[1], f[2]) /\ ~Covered(f[1])'
      BY <2>1, <2>3 DEF Left, Stranded, InRing
    <3>2. f[1] # clidar
      <4>1. SUFFICES ASSUME f[1] = clidar PROVE FALSE
        OBVIOUS
      <4>2. clidar' = clidar + 1 /\ ~(conn[clidar] /\ ready[clidar])
        BY <2>1, <3>1, <4>1, Bounds DEF Covered, Lidars
      <4>3. conn[clidar]
        BY <2>1, <3>1, <4>1 DEF RingReady
      <4>4. rd[clidar] = wr[clidar]
        BY <2>1, <4>2, <4>3 DEF RingReady
      <4> QED BY <1>2, <2>1, <3>1, <4>1, <4>4
    <3>3. f \in polled \X Idx
      BY <2>1, <3>1, <3>2
    <3>4. ~Covered(f[1])
      <4>1. f[1] \in Lidars
        BY <1>1, <3>3
      <4> QED BY <2>1, <3>1, <3>2, <4>1, Bounds DEF Covered, Lidars
    <3> QED BY <3>1, <3>3, <3>4 DEF Left, Stranded
  <2> QED BY <2>1, <2>2, <2>3, NoMoreLeft
<1>14. CASE PollLidar
  <2>1. /\ cpc = "poll" /\ clidar \in Lidars /\ ~requestExit
        /\ UNCHANGED <<rd, wr, wrBuf, ppc, plidar, polled, count, requestExit>>
        /\ \/ rd[clidar] = WrSeen(clidar) /\ clidar' = clidar + 1 /\ cpc' = "scan"
           \/ cpc' \in {"pcl", "pop"} /\ clidar' = clidar
    BY <1>1, <1>14 DEF PollLidar, QueueIsEmpty, IndexInv, TypeOK
  <2>2. FewLeft
    BY <2>1 DEF WakeupInv
  <2>3. CASE cpc' \in {"pcl", "pop"} /\ clidar' = clidar
    <3>1. \A l \in Lidars : Covered(l) => Covered(l)'
      BY <2>3 DEF Covered
    <3> QED BY <1>1, <2>1, <2>2, <3>1, OutsideRings
  <2>4. CASE rd[clidar] = WrSeen(clidar) /\ clidar' = clidar + 1 /\ cpc' = "scan"
    <3>1. ASSUME NEW f \in Left', f \notin Left
          PROVE  wrBuf # None /\ f = Newest
      <4>1. f \in polled \X Idx /\ InRing(f[1], f[2]) /\ ~Covered(f[1])' /\ Covered(f[1])
        BY <2>1, <3>1 DEF Left, Stranded, InRing
      <4>2. f[1] = clidar
        <5>1. f[1] \in Lidars
          BY <1>1, <4>1
        <5> QED BY <2>1, <2>4, <4>1, <5>1, Bounds DEF Covered, Lidars
      <4>3. wrBuf = clidar
        <5>1. wrBuf # clidar => rd[clidar] = wr[clidar]
          BY <2>4 DEF WrSeen
        <5> QED BY <1>2, <2>1, <4>1, <4>2, <5>1
      <4>4. wrBuf # None /\ plidar = clidar /\ rd[clidar] = Dec(wr[clidar])
        BY <2>1, <2>4, <4>3, NoneIsNoLidar DEF IndexInv, IndexBuffers, WrSeen
      <4>5. f[2] = rd[clidar]
        <5> DEFINE r == rd[clidar]
        <5>1. r \in Idx /\ wr[clidar] \in Idx /\ f[2] \in Idx /\ r # wr[clidar]
          BY <1>1, <1>2, <2>1, <4>1, <4>3
        <5>2. QueueUsedSize(r, r) = 0 /\ QueueUsedSize(r, Dec(wr[clidar])) = QueueUsedSize(r, wr[clidar]) - 1
          BY <5>1, Distance
        <5>3. QueueUsedSize(r, wr[clidar]) = 1 /\ QueueUsedSize(r, f[2]) = 0
          <6>1. QueueUsedSize(r, wr[clidar]) \in Nat /\ QueueUsedSize(r, f[2]) \in Nat
            BY <5>1, Distance
          <6> QED BY <4>1, <4>2, <4>4, <5>2, <6>1 DEF InRing
        <5> QED BY <5>1, <5>3, Distance
      <4> QED BY <4>1, <4>2, <4>4, <4>5 DEF Newest
    <3>2. CASE wrBuf = None \/ ppc # "idle"
      <4>1. wrBuf # None => Newest \in Pushed
        BY <3>2 DEF IndexInv, IndexBuffers, Pushed
      <4>2. Pushed' = Pushed /\ Newest' = Newest
        BY <2>1 DEF Pushed, Newest
      <4>3. Left' \ Pushed \subseteq Left \ Pushed
        BY <3>1, <4>1
      <4> QED BY <2>1, <2>2, <3>2, <4>2, <4>3 DEF FewLeft
    <3>3. CASE wrBuf # None /\ ppc = "idle"
      <4>1. Left' \subseteq {Newest} /\ Newest' = Newest /\ Memory # "SC"
        BY <2>1, <2>2, <3>1, <3>3 DEF FewLeft, Newest, IndexInv, IndexBuffers
      <4> QED BY <4>1 DEF FewLeft
    <3> QED BY <3>2, <3>3
  <2> QED BY <2>1, <2>3, <2>4
<1>15. CASE QueuePop \/ QueuePopUpdateEarly
  <2>1. /\ cpc = "copy" /\ cpc' \in {"late", "publish"} /\ ~requestExit
        /\ rd' = [rd EXCEPT ![clidar] = Inc(@)]
        /\ UNCHANGED <<wr, wrBuf, ppc, plidar, polled, clidar, count, requestExit>>
    BY <1>1, <1>15 DEF QueuePop, QueuePopUpdateEarly, IndexInv, TypeOK
  <2>2. FewLeft
    BY <2>1 DEF WakeupInv
  <2>3. ASSUME NEW f \in Left' PROVE f \in Left
    <3>1. f \in polled \X Idx /\ InRing(f[1], f[2])' /\ ~Covered(f[1])' /\ f[1] \in Lidars
      BY <1>1, <2>1, <2>3 DEF Left, Stranded
    <3>2. f[1] # clidar /\ ~Covered(f[1])
      BY <1>1, <2>1, <3>1, Bounds DEF Covered, Lidars
    <3>3. InRing(f[1], f[2])
      BY <1>1, <2>1, <3>1, <3>2 DEF InRing
    <3> QED BY <3>1, <3>2, <3>3 DEF Left, Stranded
  <2> QED BY <2>1, <2>2, <2>3, NoMoreLeft
<1> QED
  BY <1>3, <1>4, <1>5, <1>6, <1>7, <1>8, <1>9, <1>10, <1>11, <1>12, <1>13, <1>14, <1>15
  DEF Next, ProducerStep, DrainStep, ConsumerStep

\* Nothing has been pushed.
LEMMA WakeupInit == Init => RingReady /\ WakeupInv
<1> SUFFICES ASSUME Init PROVE RingReady /\ WakeupInv
  OBVIOUS
<1>1. RingReady
  BY DEF Init, RingReady
<1>2. Left = {}
  BY DEF Init, Left, Stranded
<1> QED BY <1>1, <1>2 DEF WakeupInv, FewLeft

\* Two sets of frames that are small enough.
LEMMA FewMembers ==
  ASSUME NEW S, \A f, g \in S : f = g
  PROVE  Cardinality(S) <= 1 /\ (S = {} => Cardinality(S) = 0)
<1>1. CASE S = {}
  BY <1>1, FS_EmptySet
<1>2. CASE S # {}
  <2>1. PICK f : S = {f}
    BY <1>2
  <2> QED BY <1>2, <2>1, FS_Singleton
<1> QED BY <1>1, <1>2

\* A pass that is over leaves what is stranded.
LEMMA WakeupBound == IndexInv /\ WakeupInv => StrandedBound
<1> SUFFICES ASSUME IndexInv, WakeupInv, cpc = "wait", count = 0, ppc = "idle"
             PROVE  Cardinality(Stranded) <= (IF Memory = "SC" THEN 0 ELSE 1)
  BY DEF StrandedBound
<1>1. Left = Stranded
  BY DEF Left, Covered
<1>2. Pushed = {}
  BY DEF Pushed
<1>3. FewLeft
  BY DEF WakeupInv
<1>4. (\A f, g \in Stranded : f = g) /\ (Memory = "SC" => Stranded = {})
  BY <1>1, <1>2, <1>3 DEF FewLeft
<1> QED BY <1>4, FewMembers

\* The unlocked test of GetCount() costs at most one frame: while the
\* publisher is blocked and the framing thread between frames, one frame may
\* wait for the next push, and none under sequential consistency, for every
\* number of lidars and ring size and on every machine, ARM included.
THEOREM AtMostOneStranded == Spec => []StrandedBound
<1>1. IndexInv /\ RingReady /\ WakeupInv /\ [Next]_vars => (IndexInv /\ RingReady /\ WakeupInv)'
  BY IndexStep, ReadyStep, WakeupStep
<1> QED BY IndexInit, WakeupInit, WakeupBound, <1>1, PTL DEF Spec

----------------------------------------------------------------------------
(* Indices that follow one another, as sequences. *)

\* The u indices from r on; Queue(l) is the window from rd_idx to wr_idx.
Window(r, u) == [k \in 1 .. u |-> (r + k - 1) % W]

\* Reducing a number below 2 * W modulo W subtracts W at most once.
LEMMA WrapOnce ==
  ASSUME NEW a \in Nat, a < 2 * W
  PROVE  a % W = IF a < W THEN a ELSE a - W
<1> DEFINE r == a % W
           t == IF a < W THEN a ELSE a - W
           k == (a \div W) - (IF a < W THEN 0 ELSE 1)
<1>1. /\ a = W * (a \div W) + (a % W)
      /\ a \div W \in Int
      /\ r \in 0 .. W - 1 /\ t \in 0 .. W - 1
  BY Bounds
<1>2. k \in Int /\ t - r = k * W
  BY <1>1, Bounds
<1> HIDE DEF r, t, k
<1>3. CASE k = 0
  BY <1>1, <1>2, <1>3, Bounds DEF r, t
<1>4. CASE k >= 1
  <2>1. (k - 1) * W >= 0 /\ k * W = (k - 1) * W + W
    BY <1>2, <1>4, Bounds
  <2> QED BY <1>1, <1>2, <2>1, Bounds
<1>5. CASE k <= -1
  <2>1. (-1 - k) * W >= 0 /\ k * W = -((-1 - k) * W) - W
    BY <1>2, <1>5, Bounds
  <2> QED BY <1>1, <1>2, <2>1, Bounds
<1> QED BY <1>2, <1>3, <1>4, <1>5

\* The k-th index of a window lies k - 1 places after its first.
LEMMA WindowIndex ==
  ASSUME NEW r \in Idx, NEW n \in Nat, n < W
  PROVE  /\ (r + n) % W \in Idx
         /\ QueueUsedSize(r, (r + n) % W) = n
<1>1. (r + n) % W = IF r + n < W THEN r + n ELSE r + n - W
  BY WrapOnce, Bounds DEF Idx
<1> QED BY <1>1, Bounds DEF Idx, QueueUsedSize

\* A window is a sequence of indices.
LEMMA WindowIsSeq ==
  ASSUME NEW r \in Idx, NEW u \in Nat, u < W
  PROVE  /\ Window(r, u) \in Seq(Idx)
         /\ Len(Window(r, u)) = u
         /\ \A k \in 1 .. u : QueueUsedSize(r, Window(r, u)[k]) = k - 1
<1>1. ASSUME NEW k \in 1 .. u
      PROVE  (r + k - 1) % W \in Idx /\ QueueUsedSize(r, (r + k - 1) % W) = k - 1
  <2>1. k - 1 \in Nat /\ k - 1 < W /\ r + k - 1 = r + (k - 1)
    BY Bounds DEF Idx
  <2> QED BY <2>1, WindowIndex
<1>2. Window(r, u) \in [1 .. u -> Idx]
  BY <1>1 DEF Window
<1> QED BY <1>1, <1>2 DEF Window

\* Sequences of indices at the same distances from r are the same.
LEMMA SameWindow ==
  ASSUME NEW r \in Idx, NEW s \in Seq(Idx), NEW t \in Seq(Idx), Len(s) = Len(t),
         \A k \in 1 .. Len(s) : QueueUsedSize(r, s[k]) = QueueUsedSize(r, t[k])
  PROVE  s = t
<1>1. ASSUME NEW k \in 1 .. Len(s) PROVE s[k] = t[k]
  <2>1. s[k] \in Idx /\ t[k] \in Idx
    BY ElementOfSeq
  <2> QED BY <2>1, DistanceSplit
<1> QED BY <1>1, SeqEqual

\* Appending the index u places after r extends the window by one.
LEMMA WindowGrows ==
  ASSUME NEW r \in Idx, NEW x \in Idx, QueueUsedSize(r, x) < W - 1
  PROVE  Window(r, QueueUsedSize(r, x) + 1) = Append(Window(r, QueueUsedSize(r, x)), x)
<1> DEFINE u == QueueUsedSize(r, x)
           s == Window(r, u + 1)
           t == Append(Window(r, u), x)
<1>1. u \in Nat /\ u < W /\ u + 1 \in Nat /\ u + 1 < W
  BY Distance, Bounds
<1>2. s \in Seq(Idx) /\ Len(s) = u + 1 /\ \A k \in 1 .. u + 1 : QueueUsedSize(r, s[k]) = k - 1
  BY <1>1, WindowIsSeq
<1>3. /\ Window(r, u) \in Seq(Idx) /\ Len(Window(r, u)) = u
      /\ \A k \in 1 .. u : QueueUsedSize(r, Window(r, u)[k]) = k - 1
  BY <1>1, WindowIsSeq
<1>4. /\ t \in Seq(Idx) /\ Len(t) = u + 1 /\ t[u + 1] = x
      /\ \A k \in 1 .. u : t[k] = Window(r, u)[k]
  BY <1>3, AppendProperties
<1>5. \A k \in 1 .. u + 1 : QueueUsedSize(r, t[k]) = k - 1
  BY <1>1, <1>3, <1>4
<1> HIDE DEF s, t
<1>6. Len(s) = Len(t) /\ \A k \in 1 .. Len(s) : QueueUsedSize(r, s[k]) = QueueUsedSize(r, t[k])
  BY <1>2, <1>4, <1>5
<1>7. s = t
  BY <1>2, <1>4, <1>6, SameWindow
<1> QED BY <1>7 DEF s, t

\* Taking the first index of a window leaves the window from the next one.
LEMMA WindowShrinks ==
  ASSUME NEW r \in Idx, NEW u \in Nat \ {0}, u < W
  PROVE  /\ Window(r, u) # <<>>
         /\ Head(Window(r, u)) = r
         /\ Tail(Window(r, u)) = Window(Inc(r), u - 1)
<1> DEFINE w == Window(r, u)
           s == Tail(w)
           t == Window(Inc(r), u - 1)
<1>1. w \in Seq(Idx) /\ Len(w) = u /\ \A k \in 1 .. u : QueueUsedSize(r, w[k]) = k - 1
  BY WindowIsSeq
<1>2. w # <<>>
  BY <1>1
<1>3. Head(w) = r
  <2>1. Head(w) = w[1] /\ w[1] \in Idx /\ QueueUsedSize(r, w[1]) = 0
    BY <1>1, <1>2, ElementOfSeq
  <2> QED BY <2>1, Distance
<1>4. s \in Seq(Idx) /\ Len(s) = u - 1 /\ \A k \in 1 .. u - 1 : s[k] = w[k + 1]
  BY <1>1, <1>2, HeadTailProperties
<1>5. Inc(r) \in Idx /\ u - 1 \in Nat /\ u - 1 < W
  BY IdxClosed, Bounds
<1>6. t \in Seq(Idx) /\ Len(t) = u - 1 /\ \A k \in 1 .. u - 1 : QueueUsedSize(Inc(r), t[k]) = k - 1
  BY <1>5, WindowIsSeq
<1> HIDE DEF w, s, t
<1>7. ASSUME NEW k \in 1 .. u - 1 PROVE QueueUsedSize(Inc(r), s[k]) = k - 1
  <2>1. s[k] \in Idx /\ k + 1 \in 1 .. u /\ s[k] = w[k + 1]
    BY <1>4, ElementOfSeq
  <2>2. QueueUsedSize(r, s[k]) = k
    BY <1>1, <2>1
  <2>3. r # s[k]
    <3>1. QueueUsedSize(r, s[k]) # 0
      BY <2>2
    <3> QED BY <2>1, <3>1, Distance
  <2> QED BY <2>1, <2>2, <2>3, Distance
<1>8. Len(s) = Len(t) /\ \A k \in 1 .. Len(s) : QueueUsedSize(Inc(r), s[k]) = QueueUsedSize(Inc(r), t[k])
  BY <1>4, <1>6, <1>7
<1>9. s = t
  BY <1>4, <1>5, <1>6, <1>8, SameWindow
<1> QED BY <1>2, <1>3, <1>9 DEF w, s, t
----------------------------------------------------------------------------
(* The refinement. *)

\* Empty rings and a publisher without a packet are the empty FIFO.
LEMMA FifoInit == Init => Fifo!Init
<1> SUFFICES ASSUME Init PROVE Fifo!Init
  OBVIOUS
<1>1. 0 \in Idx
  BY Bounds DEF Idx
<1>2. ASSUME NEW l \in Lidars PROVE Queue(l) = <<>>
  <2>1. QueueUsedSize(rd[l], wr[l]) = 0
    BY <1>1, Distance DEF Init
  <2> QED BY <2>1 DEF Queue
<1>3. Hand = {}
  BY DEF Init, Hand
<1> QED BY <1>2, <1>3 DEF Fifo!Init

\* A step that moves neither index and neither takes nor publishes a packet
\* leaves the FIFO as it is.
LEMMA SameFifo ==
  ASSUME UNCHANGED <<rd, wr>>,
         (cpc' # "publish" /\ cpc # "publish") \/ UNCHANGED <<cpc, clidar, pkg>>
  PROVE  UNCHANGED Fifo!vars
<1>1. \A l \in Lidars : Queue(l)' = Queue(l)
  BY DEF Queue
<1>2. Hand' = Hand
  BY DEF Hand
<1> QED BY <1>1, <1>2 DEF Fifo!vars

\* Every step is a step of the FIFO or leaves it as it is: the store of wr_idx
\* accepts the frame, QueuePop takes the oldest, publish() lets go of it.
LEMMA FifoStep ==
  Memory # "ARM" /\ RingInv /\ RingInv' /\ [Next]_vars => [Fifo!Next]_(Fifo!vars)
<1> SUFFICES ASSUME Memory # "ARM", RingInv, RingInv', [Next]_vars PROVE Fifo!Next \/ UNCHANGED Fifo!vars
  OBVIOUS
<1> USE DEF ringVars, producerVars, consumerVars, exitVars
<1>0. /\ rd \in [Lidars -> Idx] /\ wr \in [Lidars -> Idx]
      /\ plidar \in Lidars
      /\ cpc \in {"copy", "publish"} => clidar \in Lidars
      /\ cpc # "late"
  BY DEF RingInv, IndexInv, TypeOK, SlotBufOwned
<1>1. CASE \E l \in Lidars : StoragePointData(l) \/ StartSampling(l)
  BY <1>1, SameFifo DEF StoragePointData, StartSampling
<1>2. CASE TestFull \/ StoreSlot \/ TestEmptyAfterPush \/ TestCount \/ Signal
  BY <1>2, SameFifo DEF TestFull, StoreSlot, TestEmptyAfterPush, TestCount, Signal
<1>3. CASE StoreWrIdx
  <2> PICK p \in Lidars : p = plidar
    BY <1>0
  <2> DEFINE x == wr[p]
             u == QueueUsedSize(rd[p], x)
  <2>1. x \in Idx /\ rd[p] \in Idx /\ u \in Nat
    <3>1. x \in Idx /\ rd[p] \in Idx
      BY <1>0
    <3> QED BY <3>1, Distance
  <2>2. wr' = [wr EXCEPT ![p] = Inc(x)] /\ UNCHANGED <<rd, cpc, clidar, pkg>>
    BY <1>3 DEF StoreWrIdx
  <2>3. QueueUsedSize(rd[p], Inc(x)) <= Size
    BY <1>0, <2>1, <2>2 DEF RingInv, IndexInv, RingBounded
  <2>4. u <= Size - 1
    BY <1>3, <2>1, NoneIsNoLidar DEF StoreWrIdx, RingInv, IndexInv, RingBounded, RdSeen
  <2>5. u < W - 1 /\ QueueUsedSize(rd[p], Inc(x)) = u + 1
    BY <2>1, <2>4, Distance, Bounds
  <2>6. Queue(p) = Window(rd[p], u)
    BY DEF Queue, Window
  <2>7. Queue(p)' = Window(rd[p], u + 1)
    <3>1. rd'[p] = rd[p] /\ wr'[p] = Inc(x)
      BY <1>0, <2>1, <2>2
    <3>2. [k \in 1 .. QueueUsedSize(rd'[p], wr'[p]) |-> (rd'[p] + k - 1) % W] = Window(rd[p], u + 1)
      BY <2>5, <3>1 DEF Window
    <3> QED BY <3>2 DEF Queue
  <2>8. Queue(p)' = Append(Queue(p), x)
    BY <2>1, <2>5, <2>6, <2>7, WindowGrows
  <2>9. Len(Queue(p)) < Size
    <3>1. u < W /\ u < Size
      BY <2>1, <2>4, Bounds
    <3>2. Len(Window(rd[p], u)) = u
      BY <2>1, <3>1, WindowIsSeq
    <3> QED BY <2>6, <3>1, <3>2
  <2>10. \A l \in Lidars : l # p => Queue(l)' = Queue(l)
    BY <1>0, <2>2 DEF Queue
  <2>11. Hand' = Hand
    BY <2>2 DEF Hand
  <2> HIDE DEF x, u
  <2>12. [l \in Lidars |-> Queue(l)]' =
           [[l \in Lidars |-> Queue(l)] EXCEPT ![p] = Append(@, x)]
    BY <2>1, <2>8, <2>10
  <2>13. Fifo!Accept(p, x)
    BY <2>1, <2>9, <2>11, <2>12 DEF Fifo!Accept
  <2> QED BY <2>1, <2>13 DEF Fifo!Next
<1>4. CASE DrainStep
  BY <1>4, SameFifo DEF DrainStep, DrainSlot, DrainWrIdx, DrainRdIdx
<1>5. CASE \/ EnterDistribute \/ Wait \/ ScanLidar \/ EndScan \/ PollLidar \/ PublishPclMsg
           \/ TestEmptyBeforePop \/ TestFuture
  BY <1>5, SameFifo DEF EnterDistribute, Wait, ScanLidar, EndScan, PollLidar, PublishPclMsg,
       TestEmptyBeforePop, TestFuture
<1>6. CASE QueuePop
  <2> PICK c \in Lidars : c = clidar
    BY <1>0, <1>6 DEF QueuePop
  <2> DEFINE r == rd[c]
             u == QueueUsedSize(r, wr[c])
  <2>1. r \in Idx /\ wr[c] \in Idx /\ u \in Nat /\ u < W
    <3>1. r \in Idx /\ wr[c] \in Idx
      BY <1>0
    <3> QED BY <3>1, Distance
  <2>2. /\ rd' = [rd EXCEPT ![c] = Inc(r)] /\ UNCHANGED <<wr, clidar>>
        /\ cpc = "copy" /\ cpc' = "publish"
    BY <1>6 DEF QueuePop
  <2>3. r # wr[c]
    BY <2>1, <2>2, IdxClosed DEF RingInv, IndexInv, PopHasFrame, RingBounded, WrSeen
  <2>4. u # 0 /\ QueueUsedSize(Inc(r), wr[c]) = u - 1
    BY <2>1, <2>3, Distance
  <2>5. Queue(c) = Window(r, u) /\ Queue(c)' = Window(Inc(r), u - 1)
    BY <1>0, <2>1, <2>2, <2>4 DEF Queue, Window
  <2>6. Queue(c) # <<>> /\ Head(Queue(c)) = r /\ Queue(c)' = Tail(Queue(c))
    BY <2>1, <2>4, <2>5, WindowShrinks
  <2>7. pkg' = r
    <3>1. pkg' = Dec(Inc(r))
      BY <1>0, <2>1, <2>2 DEF RingInv, PublishedInOrder
    <3> QED BY <2>1, <3>1, IdxClosed
  <2>8. \A l \in Lidars : l # c => Queue(l)' = Queue(l)
    BY <1>0, <2>2 DEF Queue
  <2>9. Hand = {} /\ Hand' = {<<c, r>>}
    BY <2>2, <2>7 DEF Hand
  <2> HIDE DEF r, u
  <2>10. [l \in Lidars |-> Queue(l)]' =
           [[l \in Lidars |-> Queue(l)] EXCEPT ![c] = Tail(@)]
    BY <2>1, <2>6, <2>8
  <2>11. Fifo!Take(c)
    BY <2>1, <2>6, <2>9, <2>10 DEF Fifo!Take
  <2> QED BY <2>1, <2>11 DEF Fifo!Next
<1>7. CASE QueuePopUpdateEarly \/ QueuePrePopLate
  BY <1>0, <1>7 DEF QueuePopUpdateEarly, QueuePrePopLate
<1>8. CASE Publish
  <2>1. \A l \in Lidars : Queue(l)' = Queue(l)
    BY <1>8 DEF Publish, Queue
  <2>2. Hand # {} /\ Hand' = {}
    BY <1>8 DEF Publish, Hand
  <2>3. Fifo!Publish
    BY <2>1, <2>2 DEF Fifo!Publish
  <2> QED BY <2>3 DEF Fifo!Next
<1>9. CASE ExitStep
  BY <1>9, SameFifo DEF ExitStep, RequestExit, SetExitSignal, JoinPublisher, QuitFraming, JoinFraming
<1>10. CASE UNCHANGED vars
  BY <1>10, SameFifo DEF vars
<1> QED BY <1>1, <1>2, <1>3, <1>4, <1>5, <1>6, <1>7, <1>8, <1>9, <1>10 DEF Next, ProducerStep, ConsumerStep

\* On machines that keep stores in program order the rings, the store buffers
\* and the two threads behave as the bounded FIFO of data_pipeline.md that
\* refuses new frames when it is full, whatever its size and however often
\* the 32-bit indices wrap.
THEOREM QueueIsFifo == Memory # "ARM" => (Spec => ImplementsFifo)
<1> SUFFICES ASSUME Memory # "ARM" PROVE Spec => ImplementsFifo
  OBVIOUS
<1>1. RingInv /\ [Next]_vars => RingInv'
  BY RingStep
<1>2. RingInv /\ RingInv' /\ [Next]_vars => [Fifo!Next]_(Fifo!vars)
  BY FifoStep
<1> QED BY RingInit, FifoInit, <1>1, <1>2, PTL DEF Spec, ImplementsFifo, Fifo!Spec
============================================================================
