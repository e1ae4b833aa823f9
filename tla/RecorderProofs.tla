--------------------------- MODULE RecorderProofs ---------------------------
(***************************************************************************)
(* Proofs about StateRecorder, for any number of callback threads, any     *)
(* capacity of the queue and any number of calls: its invariants, and that *)
(* it implements RowLog.  Then about RecorderFiles.                        *)
(***************************************************************************)
EXTENDS RecorderRefinement, RecorderFiles, SequenceTheorems, TLAPS

----------------------------------------------------------------------------
(* The inductive invariants. *)

Contents == States \union {Query, Lifecycle}
Rows == [seq : Nat, content : Contents]

\* Popped and not yet handed to Write.
Held == IF wpc \in {"write", "shutdown"} THEN 1 ELSE 0

RowTypes ==
  /\ rows \in Seq(Rows) /\ out \in Seq(Rows) /\ hand \in Rows
  /\ sequence \in Nat
  /\ offer \in [Producers -> States \union {Query}]

\* The rows written, the row in the writer's hand and the rows in the queue
\* carry consecutive numbers, and the last is sequence_, until the writer ends.
Consecutive ==
  /\ \A i \in 1 .. Len(out) : out[i].seq = i
  /\ wpc # "done" =>
       /\ Held = 1 => hand.seq = Len(out) + 1
       /\ \A i \in 1 .. Len(rows) : rows[i].seq = Len(out) + Held + i
       /\ sequence = Len(out) + Held + Len(rows)

\* accepting_ is cleared only after the queue was closed, unless the writer
\* has ended; so an empty queue seen after that stays empty.
ClosedForGood ==
  /\ spc \in {"closed", "joining", "stopped"} => closed
  /\ wpc # "done" /\ ~accepting => closed
  /\ wpc \in {"pop2", "popping2", "number", "shutdown"} => closed
  /\ wpc \in {"number", "shutdown"} => rows = <<>>
  /\ wpc = "shutdown" => hand.content = Lifecycle
  /\ wpc # "done" => ending = "none"
  /\ ending = "normal" => closed /\ rows = <<>> /\ out # <<>> /\ out[Len(out)].content = Lifecycle
                          /\ Len(out) = sequence

OrderInv == RowTypes /\ Consecutive /\ ClosedForGood

\* What Append, Head and Tail make of a list of rows.
LEMMA AppendRow ==
  ASSUME NEW q \in Seq(Rows), NEW x \in Rows
  PROVE  /\ Append(q, x) \in Seq(Rows) /\ Append(q, x) # <<>>
         /\ Len(q) \in Nat /\ Len(Append(q, x)) = Len(q) + 1
         /\ \A i \in 1 .. Len(q) : Append(q, x)[i] = q[i]
         /\ Append(q, x)[Len(q) + 1] = x
OBVIOUS

\* What the pop of the queue takes and leaves.
LEMMA PopRow ==
  ASSUME NEW q \in Seq(Rows), q # <<>>
  PROVE  /\ Head(q) = q[1] /\ Head(q) \in Rows
         /\ Len(q) \in Nat /\ Len(q) >= 1
         /\ Tail(q) \in Seq(Rows) /\ Len(Tail(q)) = Len(q) - 1
         /\ \A i \in 1 .. Len(q) - 1 : Tail(q)[i] = q[i + 1]
OBVIOUS

\* The queue starts with the startup row, number one.
LEMMA OrderInit == Init => OrderInv
<1> SUFFICES ASSUME Init PROVE OrderInv
  OBVIOUS
<1>1. Row(1, Lifecycle) \in Rows /\ Row(1, Lifecycle).seq = 1 /\ None \in Rows
  BY DEF Row, Rows, Contents, None
<1>2. /\ rows = <<Row(1, Lifecycle)>> /\ out = <<>> /\ sequence = 1 /\ wpc = "config" /\ Held = 0
  BY DEF Init, Held
<1>3. rows \in Seq(Rows) /\ Len(rows) = 1 /\ rows[1] = Row(1, Lifecycle) /\ out \in Seq(Rows) /\ Len(out) = 0
  BY <1>1, <1>2
<1>4. RowTypes
  BY <1>1, <1>2, <1>3 DEF Init, RowTypes
<1>5. Consecutive
  BY <1>1, <1>2, <1>3 DEF Consecutive
<1>6. ClosedForGood
  BY <1>2 DEF Init, ClosedForGood
<1> QED BY <1>4, <1>5, <1>6 DEF OrderInv

\* Push with the mutex held appends the next number or nothing.
LEMMA PushKeepsOrder ==
  ASSUME OrderInv, NEW p \in Producers, Push(p)
  PROVE  OrderInv'
<1> USE DEF OrderInv
<1>1. /\ UNCHANGED <<out, hand, wpc, ending, closed, accepting, offer, spc>>
      /\ Held' = Held /\ Held \in Nat
  BY DEF Push, writerVars, Held
<1>2. CASE UNCHANGED <<rows, sequence>>
  BY <1>1, <1>2 DEF RowTypes, Consecutive, ClosedForGood
<1>3. CASE ~closed /\ rows' = Append(rows, Numbered(offer[p])) /\ sequence' = sequence + 1
  <2>1. Numbered(offer[p]) \in Rows /\ Numbered(offer[p]).seq = sequence + 1 /\ sequence \in Nat
    BY DEF Numbered, Row, Rows, Contents, RowTypes
  <2>2. /\ rows' \in Seq(Rows) /\ rows' # <<>>
        /\ Len(rows) \in Nat /\ Len(rows') = Len(rows) + 1
        /\ \A i \in 1 .. Len(rows) : rows'[i] = rows[i]
        /\ rows'[Len(rows) + 1].seq = sequence + 1
    BY <1>3, <2>1, AppendRow DEF RowTypes
  <2>3. RowTypes'
    BY <1>1, <1>3, <2>1, <2>2 DEF RowTypes
  <2>4. Consecutive'
    <3>1. Len(out) \in Nat
      BY DEF RowTypes
    <3>2. CASE wpc = "done"
      BY <1>1, <3>2 DEF Consecutive
    <3>3. CASE wpc # "done"
      <4>1. ASSUME NEW i \in 1 .. Len(rows) + 1
            PROVE  rows'[i].seq = Len(out) + Held + i
        <5>1. CASE i = Len(rows) + 1
          BY <1>1, <2>2, <3>1, <3>3, <5>1 DEF Consecutive
        <5>2. CASE i # Len(rows) + 1
          <6>1. i \in 1 .. Len(rows)
            BY <2>2, <5>2
          <6> QED BY <2>2, <3>3, <6>1 DEF Consecutive
        <5> QED BY <5>1, <5>2
      <4>2. sequence + 1 = Len(out) + Held + (Len(rows) + 1)
        BY <1>1, <2>2, <3>1, <3>3 DEF Consecutive
      <4> QED BY <1>1, <1>3, <2>2, <3>3, <4>1, <4>2 DEF Consecutive
    <3> QED BY <3>2, <3>3
  <2>5. ClosedForGood'
    BY <1>1, <1>3 DEF ClosedForGood
  <2> QED BY <2>3, <2>4, <2>5
<1> QED BY <1>2, <1>3 DEF Push

\* Pop takes the oldest row, or finds the queue empty.
LEMMA PopKeepsOrder ==
  ASSUME OrderInv, Pop
  PROVE  OrderInv'
<1> USE DEF OrderInv
<1>1. /\ UNCHANGED <<out, sequence, ending, closed, accepting, offer, spc>>
      /\ wpc \in {"popping", "popping2"} /\ Held = 0
      /\ Len(out) \in Nat /\ sequence \in Nat
  BY DEF Pop, producerVars, Held, RowTypes
<1>2. CASE rows # <<>> /\ hand' = Head(rows) /\ rows' = Tail(rows) /\ wpc' = "write"
  <2>1. /\ hand' \in Rows /\ hand' = rows[1] /\ Len(rows) \in Nat /\ Len(rows) >= 1
        /\ rows' \in Seq(Rows) /\ Len(rows') = Len(rows) - 1
        /\ \A i \in 1 .. Len(rows) - 1 : rows'[i] = rows[i + 1]
        /\ Held' = 1
    BY <1>2, PopRow DEF RowTypes, Held
  <2>2. RowTypes'
    BY <1>1, <2>1 DEF RowTypes
  <2>3. Consecutive'
    <3>1. /\ \A i \in 1 .. Len(rows) : rows[i].seq = Len(out) + 0 + i
          /\ sequence = Len(out) + 0 + Len(rows)
      BY <1>1 DEF Consecutive
    <3>2. ASSUME NEW i \in 1 .. Len(rows) - 1 PROVE rows'[i].seq = Len(out) + 1 + i
      <4>1. i + 1 \in 1 .. Len(rows)
        BY <2>1
      <4>2. rows'[i] = rows[i + 1]
        BY <2>1
      <4>3. rows[i + 1].seq = Len(out) + 0 + (i + 1)
        BY <3>1, <4>1
      <4> QED BY <1>1, <4>2, <4>3
    <3>3. hand'.seq = Len(out) + 1
      BY <1>1, <2>1, <3>1
    <3>4. sequence = Len(out) + 1 + (Len(rows) - 1)
      BY <1>1, <2>1, <3>1
    <3> QED BY <1>1, <1>2, <2>1, <3>2, <3>3, <3>4 DEF Consecutive
  <2>4. ClosedForGood'
    BY <1>1, <1>2 DEF ClosedForGood
  <2> QED BY <2>2, <2>3, <2>4
<1>3. CASE /\ rows = <<>> /\ UNCHANGED <<hand, rows>>
           /\ wpc' = IF wpc = "popping" THEN "test" ELSE "number"
  <2>1. Held' = 0
    BY <1>3 DEF Held
  <2> QED BY <1>1, <1>3, <2>1 DEF RowTypes, Consecutive, ClosedForGood
<1> QED BY <1>2, <1>3 DEF Pop

\* Write hands over the row in the writer's hand.
LEMMA WriteKeepsOrder ==
  ASSUME OrderInv, Write
  PROVE  OrderInv'
<1> USE DEF OrderInv
<1>1. /\ UNCHANGED <<rows, sequence, closed, accepting, offer, spc>>
      /\ out' = Append(out, hand) /\ hand' = None /\ Held = 1 /\ Held' = 0
      /\ \/ wpc = "write" /\ wpc' = "pop" /\ UNCHANGED ending
         \/ wpc = "shutdown" /\ wpc' = "done" /\ ending' = "normal"
      /\ Len(rows) \in Nat /\ sequence \in Nat
  BY DEF Write, queueVars, producerVars, Held, RowTypes
<1>2. /\ out' \in Seq(Rows) /\ out' # <<>> /\ Len(out) \in Nat /\ Len(out') = Len(out) + 1
      /\ \A i \in 1 .. Len(out) : out'[i] = out[i]
      /\ out'[Len(out) + 1] = hand
  BY <1>1, AppendRow DEF RowTypes
<1>3. RowTypes'
  BY <1>1, <1>2 DEF RowTypes, None, Rows, Contents
<1>4. /\ \A i \in 1 .. Len(out) : out[i].seq = i
      /\ hand.seq = Len(out) + 1
      /\ \A i \in 1 .. Len(rows) : rows[i].seq = Len(out) + 1 + i
      /\ sequence = Len(out) + 1 + Len(rows)
  BY <1>1 DEF Consecutive
<1>5. \A i \in 1 .. Len(out) + 1 : out'[i].seq = i
  <2> TAKE i \in 1 .. Len(out) + 1
  <2>1. CASE i = Len(out) + 1
    BY <1>2, <1>4, <2>1
  <2>2. CASE i # Len(out) + 1
    <3>1. i \in 1 .. Len(out)
      BY <1>2, <2>2
    <3> QED BY <1>2, <1>4, <3>1
  <2> QED BY <2>1, <2>2
<1>6. /\ \A i \in 1 .. Len(rows) : rows[i].seq = Len(out) + 1 + 0 + i
      /\ sequence = Len(out) + 1 + 0 + Len(rows)
  BY <1>1, <1>2, <1>4
<1>7. Consecutive'
  BY <1>1, <1>2, <1>5, <1>6 DEF Consecutive
<1>8. ClosedForGood'
  <2>1. wpc = "shutdown" => rows = <<>> /\ closed /\ hand.content = Lifecycle /\ Len(rows) = 0
    BY DEF ClosedForGood
  <2>2. wpc = "shutdown" => Len(out') = sequence
    BY <1>2, <1>4, <2>1
  <2>3. wpc' # "done" => ending = "none" /\ ending' = "none"
    BY <1>1 DEF ClosedForGood
  <2> QED BY <1>1, <1>2, <2>1, <2>2, <2>3 DEF ClosedForGood
<1> QED BY <1>3, <1>7, <1>8

\* NextSequence numbers the shutdown row after the last row written.
LEMMA NumberKeepsOrder ==
  ASSUME OrderInv, NextSequence
  PROVE  OrderInv'
<1> USE DEF OrderInv
<1>1. /\ UNCHANGED <<rows, out, closed, accepting, offer, spc, ending>>
      /\ wpc = "number" /\ wpc' = "shutdown" /\ Held = 0 /\ Held' = 1
      /\ sequence' = sequence + 1 /\ hand' = [seq |-> sequence + 1, content |-> Lifecycle]
      /\ rows = <<>> /\ Len(rows) = 0 /\ Len(out) \in Nat /\ sequence \in Nat
  BY DEF NextSequence, producerVars, Held, Row, RowTypes, ClosedForGood
<1>2. sequence = Len(out) + 0 + 0
  BY <1>1 DEF Consecutive
<1>3. RowTypes'
  BY <1>1 DEF RowTypes, Rows, Contents
<1>4. Consecutive'
  BY <1>1, <1>2 DEF Consecutive
<1>5. ClosedForGood'
  BY <1>1 DEF ClosedForGood
<1> QED BY <1>3, <1>4, <1>5

\* Every step of the callbacks, the writer and Stop keeps the order.
LEMMA OrderStep == OrderInv /\ [Next]_vars => OrderInv'
<1> SUFFICES ASSUME OrderInv, [Next]_vars PROVE OrderInv'
  OBVIOUS
<1>1. ASSUME NEW p \in Producers, Push(p) PROVE OrderInv'
  BY <1>1, PushKeepsOrder
<1>2. CASE Pop
  BY <1>2, PopKeepsOrder
<1>3. CASE Write
  BY <1>3, WriteKeepsOrder
<1>4. CASE NextSequence
  BY <1>4, NumberKeepsOrder
<1> USE DEF OrderInv, RowTypes, Consecutive, ClosedForGood, Held, queueVars, producerVars, writerVars
<1>5. ASSUME NEW p \in Producers, TryLock(p) PROVE OrderInv'
  BY <1>5 DEF TryLock
<1>6. ASSUME NEW p \in Producers, NEW c \in States \union {Query}, RecordObservation(p, c) PROVE OrderInv'
  BY <1>6 DEF RecordObservation
<1>7. CASE RateLimitExpires
  BY <1>7 DEF RateLimitExpires
<1>8. CASE ConfigureWriter
  BY <1>8 DEF ConfigureWriter
<1>9. CASE LockForPop
  BY <1>9 DEF LockForPop
<1>10. CASE TestAccepting
  BY <1>10 DEF TestAccepting
<1>11. CASE WaitTimesOut
  BY <1>11 DEF WaitTimesOut
<1>12. CASE WriterThrows
  BY <1>12 DEF WriterThrows
<1>13. CASE LockForClose
  BY <1>13 DEF LockForClose
<1>14. CASE Close
  BY <1>14 DEF Close
<1>15. CASE ClearAccepting
  BY <1>15 DEF ClearAccepting
<1>16. CASE Join
  BY <1>16 DEF Join
<1>17. CASE UNCHANGED vars
  BY <1>17 DEF vars
<1> HIDE DEF OrderInv
<1> QED
  BY <1>1, <1>2, <1>3, <1>4, <1>5, <1>6, <1>7, <1>8, <1>9, <1>10, <1>11, <1>12, <1>13, <1>14, <1>15, <1>16, <1>17
  DEF Next, PushStep, WriterStep, StopStep

\* Rows reach Write with the numbers 1, 2, 3, ... whatever the callbacks, the
\* drops and Stop do.
THEOREM RowsWrittenInOrder == Spec => []WrittenInOrder
<1>1. OrderInv => WrittenInOrder
  BY DEF OrderInv, Consecutive, WrittenInOrder
<1> QED BY OrderInit, OrderStep, <1>1, PTL DEF Spec

\* A writer that ends normally has written every accepted row, and the
\* shutdown row last.
THEOREM AcceptedRowsFlushed == Spec => []StopFlushesAccepted
<1>1. OrderInv => StopFlushesAccepted
  BY DEF OrderInv, ClosedForGood, StopFlushesAccepted
<1> QED BY OrderInit, OrderStep, <1>1, PTL DEF Spec

----------------------------------------------------------------------------
(* The refinement of RowLog. *)

\* The writer's hand is empty outside a write; the last number counts the rows
\* of the log, also when the writer has ended with one in its hand; the queue
\* keeps its capacity; and a call is somewhere in Push or nowhere.
HandKnown == wpc \notin {"write", "shutdown", "done"} => hand = None
LogNumbered == sequence = Len(out) + Len(InHand) + Len(rows)
QueueBounded == Len(rows) <= Capacity
CallsKnown == ppc \in [Producers -> {"idle", "try", "locked"}]

LogInv == OrderInv /\ HandKnown /\ LogNumbered /\ QueueBounded /\ CallsKnown

\* The three parts of the log are lists of rows.
LEMMA LogParts ==
  ASSUME OrderInv
  PROVE  /\ out \in Seq(Rows) /\ InHand \in Seq(Rows) /\ rows \in Seq(Rows)
         /\ Len(out) \in Nat /\ Len(InHand) \in Nat /\ Len(rows) \in Nat
         /\ out \o InHand \o rows \in Seq(Rows)
         /\ Len(out \o InHand \o rows) = Len(out) + Len(InHand) + Len(rows)
<1>1. out \in Seq(Rows) /\ rows \in Seq(Rows) /\ hand \in Rows
  BY DEF OrderInv, RowTypes
<1>2. InHand \in Seq(Rows)
  BY <1>1 DEF InHand
<1>3. Len(out) \in Nat /\ Len(InHand) \in Nat /\ Len(rows) \in Nat
  BY <1>1, <1>2, LenProperties
<1>4. out \o InHand \in Seq(Rows) /\ Len(out \o InHand) = Len(out) + Len(InHand)
  BY <1>1, <1>2, ConcatProperties
<1>5. out \o InHand \o rows \in Seq(Rows) /\ Len(out \o InHand \o rows) = Len(out) + Len(InHand) + Len(rows)
  BY <1>1, <1>4, ConcatProperties
<1> QED BY <1>1, <1>2, <1>3, <1>5

\* The row the writer holds is not the empty hand: its number is not zero.
LEMMA HandFull ==
  ASSUME OrderInv, Held = 1
  PROVE  hand # None /\ InHand = <<hand>> /\ Len(InHand) = 1
<1>1. hand.seq = Len(out) + 1 /\ Len(out) \in Nat
  BY LogParts DEF OrderInv, Consecutive, Held
<1>2. hand.seq # 0
  BY <1>1
<1>3. hand # None
  BY <1>2 DEF None
<1> QED BY <1>3 DEF InHand

LEMMA HandEmpty ==
  ASSUME hand = None
  PROVE  InHand = <<>> /\ Len(InHand) = 0
BY DEF InHand

\* How the log is made of its parts, around a row x.
LEMMA RowAppended ==
  ASSUME NEW s \in Seq(Rows), NEW t \in Seq(Rows), NEW u \in Seq(Rows), NEW x \in Rows
  PROVE  s \o t \o Append(u, x) = Append(s \o t \o u, x)
<1>1. s \o t \in Seq(Rows) /\ s \o t \o u \in Seq(Rows) /\ <<x>> \in Seq(Rows)
  BY ConcatProperties
<1>2. Append(u, x) = u \o <<x>> /\ Append(s \o t \o u, x) = s \o t \o u \o <<x>>
  BY <1>1, AppendIsConcat
<1> QED BY <1>1, <1>2, ConcatAssociative

LEMMA RowPopped ==
  ASSUME NEW s \in Seq(Rows), NEW u \in Seq(Rows), u # <<>>
  PROVE  s \o <<Head(u)>> \o Tail(u) = s \o <<>> \o u
<1>1. Head(u) \in Rows /\ Tail(u) \in Seq(Rows) /\ <<Head(u)>> \in Seq(Rows)
  BY PopRow
<1>2. <<Head(u)>> \o Tail(u) = u
  <2>1. <<Head(u)>> \o Tail(u) \in Seq(Rows) /\ Len(<<Head(u)>> \o Tail(u)) = Len(u)
    BY <1>1, PopRow, ConcatProperties
  <2>2. ASSUME NEW i \in 1 .. Len(u) PROVE (<<Head(u)>> \o Tail(u))[i] = u[i]
    <3>1. i \in 1 .. 1 + Len(Tail(u)) /\ (<<Head(u)>> \o Tail(u))[i] = IF i <= 1 THEN <<Head(u)>>[i] ELSE Tail(u)[i - 1]
      BY <1>1, PopRow, ConcatProperties
    <3>2. CASE i = 1
      BY <3>1, <3>2, PopRow
    <3>3. CASE i # 1
      <4>1. i - 1 \in 1 .. Len(u) - 1
        BY <3>3, PopRow
      <4> QED BY <3>1, <3>3, <4>1, PopRow
    <3> QED BY <3>2, <3>3
  <2> QED BY <2>1, <2>2, SeqEqual
<1>3. s \o <<Head(u)>> \o Tail(u) = s \o u
  BY <1>1, <1>2, ConcatAssociative
<1> QED BY <1>3, ConcatEmptySeq

LEMMA RowWritten ==
  ASSUME NEW s \in Seq(Rows), NEW u \in Seq(Rows), NEW x \in Rows
  PROVE  Append(s, x) \o <<>> \o u = s \o <<x>> \o u
<1>1. Append(s, x) = s \o <<x>> /\ Append(s, x) \in Seq(Rows)
  BY AppendIsConcat, AppendProperties
<1> QED BY <1>1, ConcatEmptySeq

LEMMA RowDrawn ==
  ASSUME NEW s \in Seq(Rows), NEW x \in Rows
  PROVE  s \o <<x>> \o <<>> = Append(s \o <<>> \o <<>>, x)
<1>1. s \o <<x>> \in Seq(Rows) /\ Append(s, x) = s \o <<x>>
  BY AppendIsConcat, AppendProperties
<1>2. s \o <<x>> \o <<>> = s \o <<x>> /\ s \o <<>> = s
  BY <1>1, ConcatEmptySeq
<1> QED BY <1>1, <1>2

LEMMA LogInit == Init => LogInv /\ Log!Init
<1> SUFFICES ASSUME Init PROVE LogInv /\ Log!Init
  OBVIOUS
<1>1. OrderInv
  BY OrderInit
<1>2. out = <<>> /\ InHand = <<>> /\ rows = <<[seq |-> 1, content |-> Lifecycle]>> /\ wpc = "config" /\ ending = "none"
  BY DEF Init, InHand, Row
<1>3. Len(out) = 0 /\ Len(InHand) = 0 /\ Len(rows) = 1 /\ sequence = 1 /\ hand = None
  BY <1>2 DEF Init
<1>4. LogInv
  BY <1>1, <1>3, RecorderAssumption DEF Init, LogInv, HandKnown, LogNumbered, QueueBounded, CallsKnown
<1>5. out \o InHand \o rows = <<[seq |-> 1, content |-> Lifecycle]>>
  BY <1>1, <1>2, LogParts, ConcatEmptySeq
<1>6. Submitted = [p \in Producers |-> {}] /\ ShutdownLogged = FALSE
  BY <1>2 DEF Init, Submitted, ShutdownLogged
<1> QED BY <1>2, <1>3, <1>4, <1>5, <1>6 DEF Init, Log!Init

\* A call that returns takes its submission with it.
LEMMA CallReturns ==
  ASSUME LogInv, NEW p \in Producers, ppc[p] # "idle", ppc' = [ppc EXCEPT ![p] = "idle"], UNCHANGED offer
  PROVE  CallsKnown' /\ Log!Answer(p) /\ Submitted[p] = {offer[p]}
<1>1. ppc \in [Producers -> {"idle", "try", "locked"}]
  BY DEF LogInv, CallsKnown
<1>2. Submitted' = [Submitted EXCEPT ![p] = {}]
  BY <1>1 DEF Submitted
<1>3. Submitted[p] = {offer[p]}
  BY DEF Submitted
<1> QED BY <1>1, <1>2, <1>3 DEF Log!Answer, CallsKnown

\* Push accepts the row, counts it as lost or finds it identical.
LEMMA PushRefines ==
  ASSUME LogInv, NEW p \in Producers, Push(p)
  PROVE  /\ HandKnown' /\ LogNumbered' /\ QueueBounded' /\ CallsKnown'
         /\ Log!Accept(p) \/ Log!Lose(p) \/ Log!Repeat(p)
<1> USE DEF LogInv
<1>1. /\ UNCHANGED <<out, hand, wpc, ending, closed>>
      /\ InHand' = InHand /\ ShutdownLogged' = ShutdownLogged /\ offer[p] \in States \union {Query}
  BY DEF Push, writerVars, InHand, ShutdownLogged, OrderInv, RowTypes
<1>2. CallsKnown' /\ Log!Answer(p) /\ Submitted[p] = {offer[p]}
  BY CallReturns DEF Push
<1>3. ASSUME UNCHANGED <<rows, sequence>> PROVE HandKnown' /\ LogNumbered' /\ QueueBounded'
  BY <1>1, <1>3 DEF HandKnown, LogNumbered, QueueBounded
<1>4. CASE UNCHANGED <<rows, sequence, lastPush, suppressed>> /\ dropped' = dropped + 1
  BY <1>1, <1>2, <1>3, <1>4 DEF Log!Lose
<1>5. CASE /\ UNCHANGED <<rows, sequence, lastPush, dropped>>
           /\ suppressed' = suppressed + 1 /\ offer[p] \in lastPush
  BY <1>1, <1>2, <1>3, <1>5 DEF Log!Repeat
<1>6. CASE /\ ~closed /\ ~Full /\ UNCHANGED <<dropped, suppressed>>
           /\ rows' = Append(rows, Numbered(offer[p])) /\ sequence' = sequence + 1
           /\ lastPush' = IF offer[p] \in States THEN {offer[p]} ELSE lastPush
  <2> DEFINE x == Numbered(offer[p])
  <2>1. x = [seq |-> sequence + 1, content |-> offer[p]] /\ x \in Rows /\ sequence \in Nat
    BY <1>1 DEF Numbered, Row, Rows, Contents, OrderInv, RowTypes
  <2>2. Len(rows') = Len(rows) + 1
    BY <1>6, <2>1, LogParts, AppendRow
  <2>3. Len(rows) < Capacity
    BY <1>6, LogParts, RecorderAssumption DEF QueueBounded, Full
  <2>4. HandKnown' /\ LogNumbered' /\ QueueBounded'
    BY <1>1, <1>6, <2>2, <2>3, LogParts, RecorderAssumption DEF HandKnown, LogNumbered, QueueBounded
  <2>5. out' \o InHand' \o rows' = Append(out \o InHand \o rows, x)
    BY <1>1, <1>6, <2>1, LogParts, RowAppended
  <2>6. Len(out \o InHand \o rows) = sequence
    BY LogParts DEF LogNumbered
  <2>7. Len(InHand) <= 1
    BY DEF InHand
  <2>8. Len(out \o InHand \o rows) - Len(out) < Capacity + 1
    BY <2>3, <2>7, LogParts, RecorderAssumption
  <2>9. Log!Accept(p)
    BY <1>1, <1>2, <1>6, <2>1, <2>5, <2>6, <2>8 DEF Log!Accept, Log!Row
  <2> QED BY <1>2, <2>4, <2>9
<1>7. \/ closed
      \/ ~closed /\ Suppressed(offer[p])
      \/ ~closed /\ ~Suppressed(offer[p]) /\ (TooSoon(offer[p]) \/ Full)
      \/ ~closed /\ ~Suppressed(offer[p]) /\ ~TooSoon(offer[p]) /\ ~Full
  OBVIOUS
<1> QED BY <1>4, <1>5, <1>6, <1>7 DEF Push, Suppressed

\* Pop moves a row from the queue to the hand.
LEMMA PopRefines ==
  ASSUME LogInv, Pop
  PROVE  HandKnown' /\ LogNumbered' /\ QueueBounded' /\ CallsKnown' /\ UNCHANGED Log!vars
<1> USE DEF LogInv, CallsKnown
<1>0. UNCHANGED <<lastPush, suppressed, ppc, Submitted, ShutdownLogged>>
  BY DEF Pop, producerVars, Submitted, ShutdownLogged
<1>1. /\ UNCHANGED <<out, sequence, ending, closed, dropped>>
      /\ wpc \in {"popping", "popping2"} /\ wpc' \in {"write", "test", "number"} /\ hand = None
  BY DEF Pop, HandKnown
<1>2. CASE rows # <<>> /\ hand' = Head(rows) /\ rows' = Tail(rows) /\ wpc' = "write"
  <2>1. Head(rows).seq = Len(out) + 0 + 1
    <3>1. 1 \in 1 .. Len(rows) /\ Head(rows) = rows[1]
      BY <1>2, LogParts, PopRow
    <3> QED BY <1>1, <3>1 DEF OrderInv, Consecutive, Held
  <2>2. hand' # None
    BY <1>2, <2>1, LogParts DEF None
  <2>3. InHand' = <<Head(rows)>> /\ Len(InHand') = 1 /\ InHand = <<>> /\ Len(InHand) = 0
    BY <1>1, <1>2, <2>2 DEF InHand, None
  <2>4. Len(rows') = Len(rows) - 1
    BY <1>2, LogParts, PopRow
  <2>5. HandKnown' /\ LogNumbered' /\ QueueBounded'
    BY <1>1, <1>2, <2>3, <2>4, LogParts, RecorderAssumption DEF HandKnown, LogNumbered, QueueBounded
  <2>6. out' \o InHand' \o rows' = out \o InHand \o rows
    BY <1>1, <1>2, <2>3, LogParts, RowPopped
  <2> QED BY <1>0, <1>1, <1>2, <2>5, <2>6 DEF Log!vars
<1>3. CASE rows = <<>> /\ UNCHANGED <<hand, rows>> /\ wpc' \in {"test", "number"}
  <2>1. InHand' = InHand
    BY <1>3 DEF InHand
  <2> QED BY <1>0, <1>1, <1>3, <2>1 DEF HandKnown, LogNumbered, QueueBounded, Log!vars
<1> QED BY <1>1, <1>2, <1>3 DEF Pop

\* Write hands over the first row of the log that Write has not been given.
LEMMA WriteRefines ==
  ASSUME LogInv, Write
  PROVE  HandKnown' /\ LogNumbered' /\ QueueBounded' /\ CallsKnown' /\ Log!WriteNext
<1> USE DEF LogInv, CallsKnown
<1>0. UNCHANGED <<lastPush, suppressed, ppc, Submitted>>
  BY DEF Write, queueVars, producerVars, Submitted
<1>1. /\ UNCHANGED <<rows, sequence, closed, dropped>>
      /\ out' = Append(out, hand) /\ hand' = None /\ Held = 1
      /\ \/ wpc = "write" /\ wpc' = "pop" /\ UNCHANGED ending
         \/ wpc = "shutdown" /\ wpc' = "done" /\ ending' = "normal"
  BY DEF Write, queueVars, Held
<1>2. InHand = <<hand>> /\ Len(InHand) = 1 /\ InHand' = <<>> /\ Len(InHand') = 0 /\ hand \in Rows
  BY <1>1, HandFull DEF InHand, OrderInv, RowTypes
<1>3. Len(out') = Len(out) + 1
  BY <1>1, <1>2, LogParts, AppendRow
<1>4. HandKnown' /\ LogNumbered' /\ QueueBounded'
  BY <1>1, <1>2, <1>3, LogParts DEF HandKnown, LogNumbered, QueueBounded
<1>5. out' \o InHand' \o rows' = out \o InHand \o rows
  BY <1>1, <1>2, LogParts, RowWritten
<1>6. Len(out) < Len(out \o InHand \o rows)
  BY <1>2, LogParts
<1>7. ShutdownLogged' = ShutdownLogged
  BY <1>1 DEF ShutdownLogged
<1> QED BY <1>0, <1>1, <1>3, <1>4, <1>5, <1>6, <1>7 DEF Log!WriteNext

\* The number of the shutdown row is drawn when every other row is written.
LEMMA NumberRefines ==
  ASSUME LogInv, NextSequence
  PROVE  HandKnown' /\ LogNumbered' /\ QueueBounded' /\ CallsKnown' /\ Log!Finish
<1> USE DEF LogInv, CallsKnown
<1>0. UNCHANGED <<lastPush, suppressed, ppc, Submitted>>
  BY DEF NextSequence, producerVars, Submitted
<1>1. /\ UNCHANGED <<rows, out, closed, ending, dropped>>
      /\ wpc = "number" /\ wpc' = "shutdown" /\ sequence' = sequence + 1
      /\ hand' = [seq |-> sequence + 1, content |-> Lifecycle]
      /\ rows = <<>> /\ closed /\ ending = "none" /\ hand = None /\ sequence \in Nat
  BY DEF NextSequence, Row, HandKnown, OrderInv, ClosedForGood, RowTypes
<1>2. hand' # None /\ hand' \in Rows
  BY <1>1 DEF None, Rows, Contents
<1>3. InHand = <<>> /\ Len(InHand) = 0 /\ InHand' = <<hand'>> /\ Len(InHand') = 1 /\ Len(rows) = 0
  BY <1>1, <1>2 DEF InHand, None
<1>4. HandKnown' /\ LogNumbered' /\ QueueBounded'
  BY <1>1, <1>3, LogParts DEF HandKnown, LogNumbered, QueueBounded
<1>5. out' \o InHand' \o rows' = Append(out \o InHand \o rows, hand')
  BY <1>1, <1>2, <1>3, LogParts, RowDrawn
<1>6. Len(out \o InHand \o rows) = sequence /\ Len(out) = sequence
  BY <1>3, LogParts DEF LogNumbered
<1>7. ShutdownLogged' /\ ~ShutdownLogged
  BY <1>1 DEF ShutdownLogged
<1> QED BY <1>0, <1>1, <1>4, <1>5, <1>6, <1>7 DEF Log!Finish, Log!Row

\* Every step of the recorder is a step of the log or leaves it alone.
LEMMA LogStep == LogInv /\ [Next]_vars => LogInv' /\ [Log!Next]_(Log!vars)
<1> SUFFICES ASSUME LogInv, [Next]_vars PROVE LogInv' /\ (Log!Next \/ UNCHANGED Log!vars)
  OBVIOUS
<1> DEFINE LogKept == HandKnown' /\ LogNumbered' /\ QueueBounded' /\ CallsKnown'
           Goal == LogKept /\ (Log!Next \/ UNCHANGED Log!vars)
<1>1. OrderInv'
  BY OrderStep DEF LogInv
<1> SUFFICES Goal
  BY <1>1 DEF LogInv
<1>2. ASSUME NEW p \in Producers, Push(p) PROVE Goal
  BY <1>2, PushRefines DEF Log!Next
<1>3. CASE Pop
  BY <1>3, PopRefines
<1>4. CASE Write
  BY <1>4, WriteRefines DEF Log!Next
<1>5. CASE NextSequence
  BY <1>5, NumberRefines DEF Log!Next
<1> DEFINE Same == /\ UNCHANGED <<rows, sequence, hand, out, lastPush, suppressed>>
                   /\ \/ wpc' = wpc \/ wpc' = "done"
                      \/ wpc # "write" /\ wpc # "shutdown" /\ wpc # "done" /\ wpc' \notin {"write", "shutdown", "done"}
<1>6. ASSUME Same PROVE /\ HandKnown' /\ LogNumbered' /\ QueueBounded'
                        /\ (out \o InHand \o rows)' = out \o InHand \o rows /\ Len(out)' = Len(out)
  BY <1>6 DEF LogInv, HandKnown, LogNumbered, QueueBounded, InHand
<1>7. ASSUME UNCHANGED <<ppc, offer>> PROVE CallsKnown' /\ Submitted' = Submitted
  BY <1>7 DEF LogInv, CallsKnown, Submitted
<1>8. ppc \in [Producers -> {"idle", "try", "locked"}]
  BY DEF LogInv, CallsKnown
<1>9. ASSUME NEW p \in Producers, TryLock(p) PROVE Goal
  <2>1. /\ Same /\ UNCHANGED <<closed, offer>> /\ ShutdownLogged' = ShutdownLogged
    BY <1>9 DEF TryLock, writerVars, ShutdownLogged
  <2>2. CASE UNCHANGED dropped /\ ppc[p] = "try" /\ ppc' = [ppc EXCEPT ![p] = "locked"]
    <3>1. CallsKnown' /\ Submitted' = Submitted
      BY <1>8, <2>1, <2>2 DEF CallsKnown, Submitted
    <3> QED BY <1>6, <2>1, <2>2, <3>1 DEF Log!vars
  <2>3. CASE dropped' = dropped + 1 /\ ppc[p] = "try" /\ ppc' = [ppc EXCEPT ![p] = "idle"]
    <3>1. CallsKnown' /\ Log!Answer(p)
      BY <2>1, <2>3, CallReturns
    <3>2. Log!Lose(p)
      BY <1>6, <2>1, <2>3, <3>1 DEF Log!Lose
    <3> QED BY <1>6, <2>1, <3>1, <3>2 DEF Log!Next
  <2> QED BY <1>9, <2>2, <2>3 DEF TryLock
<1>10. ASSUME NEW p \in Producers, NEW c \in States \union {Query}, RecordObservation(p, c) PROVE Goal
  <2>1. /\ Same /\ UNCHANGED <<closed, dropped>> /\ ShutdownLogged' = ShutdownLogged
        /\ ppc[p] = "idle" /\ offer' = [offer EXCEPT ![p] = c] /\ offer \in [Producers -> States \union {Query}]
    BY <1>10 DEF RecordObservation, queueVars, writerVars, ShutdownLogged, LogInv, OrderInv, RowTypes
  <2>2. CASE ppc' = [ppc EXCEPT ![p] = "try"]
    <3>1. CallsKnown' /\ Submitted[p] = {} /\ Submitted' = [Submitted EXCEPT ![p] = {c}]
      BY <1>8, <2>1, <2>2 DEF CallsKnown, Submitted
    <3>2. Log!Submit(p, c)
      BY <1>6, <2>1, <3>1 DEF Log!Submit
    <3> QED BY <1>6, <2>1, <3>1, <3>2 DEF Log!Next
  <2>3. CASE ppc' = [ppc EXCEPT ![p] = "idle"]
    <3>1. CallsKnown' /\ Submitted' = Submitted
      BY <1>8, <2>1, <2>3 DEF CallsKnown, Submitted
    <3> QED BY <1>6, <2>1, <3>1 DEF Log!vars
  <2> QED BY <1>10, <2>2, <2>3 DEF RecordObservation
<1>11. CASE Close
  <2>1. Same /\ UNCHANGED <<dropped, ppc, offer>> /\ ShutdownLogged' = ShutdownLogged /\ closed' = TRUE
    BY <1>11 DEF Close, producerVars, writerVars, ShutdownLogged
  <2>2. Log!Close
    BY <1>6, <1>7, <2>1 DEF Log!Close
  <2> QED BY <1>6, <1>7, <2>1, <2>2 DEF Log!Next
<1>12. ASSUME Same, UNCHANGED <<dropped, closed, ppc, offer>>, ShutdownLogged' = ShutdownLogged
       PROVE  Goal
  BY <1>6, <1>7, <1>12 DEF Log!vars
<1>13. CASE ConfigureWriter \/ WriterThrows
  <2>1. Same /\ UNCHANGED <<dropped, closed, ppc, offer>> /\ wpc # "done"
    BY <1>13 DEF ConfigureWriter, WriterThrows, queueVars, producerVars
  <2>2. ending = "none"
    BY <2>1 DEF LogInv, OrderInv, ClosedForGood
  <2>3. ShutdownLogged' = ShutdownLogged
    BY <1>13, <2>2 DEF ConfigureWriter, WriterThrows, ShutdownLogged
  <2> QED BY <1>12, <2>1, <2>3
<1>14. CASE LockForPop \/ TestAccepting \/ WaitTimesOut
  <2>1. Same /\ UNCHANGED <<dropped, closed, ppc, offer>> /\ ShutdownLogged' = ShutdownLogged
    BY <1>14 DEF LockForPop, TestAccepting, WaitTimesOut, queueVars, producerVars, ShutdownLogged
  <2> QED BY <1>12, <2>1
<1>15. CASE RateLimitExpires \/ LockForClose \/ ClearAccepting \/ Join \/ UNCHANGED vars
  <2>1. Same /\ UNCHANGED <<dropped, closed, ppc, offer>> /\ ShutdownLogged' = ShutdownLogged
    BY <1>15 DEF RateLimitExpires, LockForClose, ClearAccepting, Join, vars, queueVars, producerVars, writerVars,
       ShutdownLogged
  <2> QED BY <1>12, <2>1
<1> QED
  BY <1>2, <1>3, <1>4, <1>5, <1>9, <1>10, <1>11, <1>13, <1>14, <1>15 DEF Next, PushStep, WriterStep, StopStep

\* The recorder implements the log, for any capacity, callbacks and calls: each
\* submission is recorded once, counted as lost, or counted as repeating the
\* state recorded last.
THEOREM RecorderIsLog == Spec => ImplementsLog
<1>1. Init => LogInv /\ Log!Init
  BY LogInit
<1>2. LogInv /\ [Next]_vars => LogInv' /\ [Log!Next]_(Log!vars)
  BY LogStep
<1> QED BY <1>1, <1>2, PTL DEF Spec, ImplementsLog, Log!Spec

----------------------------------------------------------------------------
(* The files, for any number of lines per file, of Write calls and of     *)
(* faults: RecorderFiles, of which StateRecorder only has the Write calls. *)

\* The lines of a file.
Records == [row : Nat, whole : BOOLEAN]

FileTypes ==
  /\ file \in [Suffix -> Seq(Records) \union {Absent}]
  /\ pc \in {"idle", "open", "fit", "unlink", "rename2", "rename1", "rename0", "reopen", "write"}
  /\ fd \in BOOLEAN /\ row \in Nat /\ fileSize \in Nat

\* While the descriptor is open file_size_ is right, and a file that may be
\* appended to holds whole lines only and has room.
OpenFile ==
  /\ fd => Exists(0) /\ fileSize = Len(file[0])
  /\ fd /\ pc # "unlink" => \A k \in 1 .. Len(Lines(0)) : Lines(0)[k].whole
  /\ pc \in {"fit", "write"} => fd
  /\ pc \in {"rename2", "rename1", "rename0", "reopen"} => ~fd
  /\ pc = "write" => fileSize < FileRows

\* The next rename of Rotate finds its target gone.
TargetGone ==
  /\ pc = "rename2" => ~Exists(3)
  /\ pc = "rename1" => ~Exists(2)
  /\ pc = "rename0" => ~Exists(1)
  /\ pc = "reopen" => ~Exists(0)

\* The number of the next row to reach a file.
NextRow == IF pc = "idle" THEN row + 1 ELSE row

RowsPast == \A i \in Suffix : \A k \in 1 .. Len(Lines(i)) : Lines(i)[k].row < NextRow

FilesInv ==
  /\ FileTypes /\ OpenFile /\ TargetGone /\ RowsPast
  /\ RowsInOrder /\ PartialIsLast /\ FilesBounded

\* What the files hold, absent or not, is lines.
LEMMA LinesAreRecords ==
  ASSUME FileTypes, NEW i \in Suffix
  PROVE  /\ Lines(i) \in Seq(Records) /\ Len(Lines(i)) \in Nat
         /\ \A k \in 1 .. Len(Lines(i)) : Lines(i)[k] \in Records /\ Lines(i)[k].row \in Nat
<1>1. Lines(i) \in Seq(Records)
  BY DEF FileTypes, Lines, Exists
<1>2. Len(Lines(i)) \in Nat /\ \A k \in 1 .. Len(Lines(i)) : Lines(i)[k] \in Records
  BY <1>1
<1> QED BY <1>1, <1>2 DEF Records

\* The effects of a system call on what the files hold: none, a line
\* appended to the current file, a file moved to the next name, or .3 removed.
Untouched == \A i \in Suffix : Lines(i)' = Lines(i)

Appended ==
  /\ pc = "write" /\ pc' = "idle" /\ UNCHANGED row
  /\ \E l \in Records : l.row = row /\ Lines(0)' = Append(Lines(0), l)
  /\ \A i \in Suffix \ {0} : Lines(i)' = Lines(i)

Moved ==
  \E i \in 0 .. 2 :
    /\ Lines(i + 1) = <<>> /\ Lines(i + 1)' = Lines(i) /\ Lines(i)' = <<>>
    /\ \A j \in Suffix \ {i, i + 1} : Lines(j)' = Lines(j)

OldestRemoved ==
  /\ pc = "unlink" /\ Lines(3)' = <<>>
  /\ \A i \in Suffix \ {3} : Lines(i)' = Lines(i)

\* Each step of the writer has one of these effects.
LEMMA Effects ==
  ASSUME FilesInv, [FilesNext]_filesVars
  PROVE  FileTypes' /\ OpenFile' /\ TargetGone' /\ (Untouched \/ Appended \/ Moved \/ OldestRemoved)
<1> DEFINE Goal == FileTypes' /\ OpenFile' /\ TargetGone' /\ (Untouched \/ Appended \/ Moved \/ OldestRemoved)
<1> USE DEF FilesInv
<1>a. FileRows \in Nat \ {0} /\ Absent \notin Seq(Records)
  BY FilesAssumption DEF Records
<1>b. Lines(0) \in Seq(Records) /\ Len(Lines(0)) \in Nat /\ <<>> \in Seq(Records) /\ 0 \in Suffix
  BY LinesAreRecords DEF Suffix
<1>c. <<>> # Absent /\ Lines(0) # Absent
  BY <1>a, <1>b
<1>1. CASE BeginWrite
  <2>1. file' = file
    BY <1>1 DEF BeginWrite
  <2>2. Untouched
    BY <2>1 DEF Untouched, Lines, Exists
  <2>3. pc' \in {"fit", "open", "idle"} /\ row' \in Nat /\ UNCHANGED fileSize
    BY <1>1 DEF BeginWrite, Fail, FileTypes
  <2>6. fd' \in BOOLEAN
    BY <1>1, Zenon DEF BeginWrite, Fail, FileTypes
  <2>5. FileTypes' /\ TargetGone'
    BY <2>1, <2>3, <2>6 DEF FileTypes, TargetGone
  <2>4. OpenFile'
    BY <1>1, <2>1 DEF BeginWrite, Fail, Fault, FileTypes, OpenFile, Exists, Lines
  <2> QED BY <2>2, <2>4, <2>5
<1>2. CASE Open
  <2>1. file' \in {file, [file EXCEPT ![0] = Lines(0)]}
    BY <1>2 DEF Open
  <2>2. Untouched
    BY <2>1, <1>c DEF Untouched, Lines, Exists, FileTypes
  <2>3. FileTypes'
    BY <1>2, <2>1, <1>b DEF Open, Fail, Fault, FileTypes
  <2>4. TargetGone'
    BY <1>2 DEF Open, Fail, Fault, TargetGone
  <2>5. OpenFile'
    <3>1. CASE fd' = FALSE
      BY <1>2, <3>1 DEF Open, Fail, Fault, OpenFile
    <3>2. CASE file' = [file EXCEPT ![0] = Lines(0)] /\ fileSize' = Len(Lines(0)) /\ fd' = TRUE
               /\ pc' = IF Lines(0) # <<>> THEN "unlink" ELSE "fit"
      <4>1. file'[0] = Lines(0) /\ Lines(0)' = Lines(0) /\ Exists(0)'
        BY <3>2, <1>b, <1>c DEF FileTypes, Lines, Exists
      <4> QED BY <3>2, <4>1, <1>b DEF OpenFile
    <3> QED BY <1>2, <3>1, <3>2 DEF Open, Fail, Fault
  <2> QED BY <2>2, <2>3, <2>4, <2>5
<1>3. CASE Fit
  <2>1. file' = file /\ UNCHANGED <<fd, row, fileSize>>
    BY <1>3 DEF Fit
  <2>2. Untouched
    BY <2>1 DEF Untouched, Lines, Exists
  <2>3. FileTypes' /\ TargetGone'
    BY <1>3, <2>1 DEF Fit, FileTypes, TargetGone, Exists
  <2>4. OpenFile'
    BY <1>3, <1>a, <2>1 DEF Fit, FileTypes, OpenFile, Exists, Lines
  <2> QED BY <2>2, <2>3, <2>4
<1>4. CASE Unlink
  <2>1. CASE file' = [file EXCEPT ![3] = Absent] /\ fd' = FALSE /\ pc' = "rename2"
    <3>1. Lines(3)' = <<>> /\ ~Exists(3)' /\ \A i \in Suffix \ {3} : Lines(i)' = Lines(i)
      BY <2>1 DEF FileTypes, Suffix, Lines, Exists
    <3>2. OldestRemoved
      BY <1>4, <3>1 DEF Unlink, OldestRemoved
    <3>3. FileTypes' /\ OpenFile' /\ TargetGone'
      BY <1>4, <2>1, <3>1 DEF Unlink, FileTypes, OpenFile, TargetGone
    <3> QED BY <3>2, <3>3
  <2>2. CASE Fail /\ file' = file
    <3>1. Untouched
      BY <2>2 DEF Untouched, Lines, Exists
    <3>2. FileTypes' /\ OpenFile' /\ TargetGone'
      BY <1>4, <2>2 DEF Unlink, Fail, Fault, FileTypes, OpenFile, TargetGone
    <3> QED BY <3>1, <3>2
  <2> QED BY <1>4, <2>1, <2>2 DEF Unlink
<1>5. ASSUME NEW i \in 0 .. 2, Rename(i) PROVE Goal
  <2>1. \/ (i = 2 /\ pc = "rename2" /\ RenameLoop[i + 1] = "rename1")
        \/ (i = 1 /\ pc = "rename1" /\ RenameLoop[i + 1] = "rename0")
        \/ (i = 0 /\ pc = "rename0" /\ RenameLoop[i + 1] = "reopen")
    BY <1>5 DEF Rename, RenameLoop
  <2>2. ~Exists(i + 1) /\ i \in Suffix /\ i + 1 \in Suffix
    BY <2>1 DEF TargetGone, Suffix
  <2>3. CASE Fail /\ file' = file
    <3>1. Untouched
      BY <2>3 DEF Untouched, Lines, Exists
    <3>2. FileTypes' /\ OpenFile' /\ TargetGone'
      BY <1>5, <2>3 DEF Rename, Fail, Fault, FileTypes, OpenFile, TargetGone
    <3> QED BY <3>1, <3>2
  <2>4. CASE UNCHANGED fd /\ pc' = RenameLoop[i + 1] /\ Exists(i)
             /\ file' = [file EXCEPT ![i + 1] = file[i], ![i] = Absent]
    <3>1. /\ Lines(i + 1) = <<>> /\ Lines(i + 1)' = Lines(i) /\ Lines(i)' = <<>> /\ ~Exists(i)'
          /\ \A j \in Suffix \ {i, i + 1} : Lines(j)' = Lines(j)
      BY <2>2, <2>4 DEF FileTypes, Suffix, Lines, Exists
    <3>2. Moved
      BY <3>1 DEF Moved
    <3>3. FileTypes' /\ OpenFile' /\ TargetGone'
      BY <1>5, <2>1, <2>2, <2>4, <3>1 DEF Rename, FileTypes, OpenFile, TargetGone
    <3> QED BY <3>2, <3>3
  <2>5. CASE UNCHANGED fd /\ pc' = RenameLoop[i + 1] /\ ~Exists(i) /\ file' = file
    <3>1. Untouched
      BY <2>5 DEF Untouched, Lines, Exists
    <3>2. FileTypes' /\ OpenFile' /\ TargetGone'
      BY <1>5, <2>1, <2>5 DEF Rename, FileTypes, OpenFile, TargetGone, Exists
    <3> QED BY <3>1, <3>2
  <2> QED BY <1>5, <2>3, <2>4, <2>5 DEF Rename
<1>6. CASE Reopen
  <2>1. Lines(0) = <<>> /\ file' \in {file, [file EXCEPT ![0] = <<>>]}
    BY <1>6 DEF Reopen, TargetGone, Lines
  <2>2. Untouched
    BY <2>1, <1>c DEF Untouched, Lines, Exists, FileTypes
  <2>3. FileTypes' /\ TargetGone'
    BY <1>6, <2>1, <1>b DEF Reopen, Fail, Fault, FileTypes, TargetGone
  <2>4. OpenFile'
    <3>1. CASE fd' = FALSE
      BY <1>6, <3>1 DEF Reopen, Fail, OpenFile
    <3>2. CASE file' = [file EXCEPT ![0] = <<>>] /\ fd' = TRUE /\ pc' = "write"
      <4>1. file'[0] = <<>> /\ Lines(0)' = <<>> /\ Exists(0)' /\ Len(<<>>) = 0
        BY <3>2, <1>b, <1>c DEF FileTypes, Lines, Exists
      <4> QED BY <1>6, <3>2, <4>1, <1>a DEF Reopen, OpenFile
    <3> QED BY <1>6, <2>1, <3>1, <3>2 DEF Reopen, Fail
  <2> QED BY <2>2, <2>3, <2>4
<1>7. CASE pc = "write" /\ (\E l \in Records : l.row = row /\ file' = [file EXCEPT ![0] = Append(@, l)])
           /\ pc' = "idle" /\ fd' \in BOOLEAN /\ fileSize' \in Nat /\ UNCHANGED row
           /\ (fd' => fd /\ file' = [file EXCEPT ![0] = Append(@, Whole(row))] /\ fileSize' = fileSize + 1)
  <2>1. PICK l \in Records : l.row = row /\ file' = [file EXCEPT ![0] = Append(@, l)]
    BY <1>7
  <2>2. fd /\ Exists(0) /\ file[0] = Lines(0)
    BY <1>7 DEF OpenFile, Lines
  <2>3. /\ Append(Lines(0), l) \in Seq(Records) /\ Len(Append(Lines(0), l)) = Len(Lines(0)) + 1
        /\ \A k \in 1 .. Len(Lines(0)) : Append(Lines(0), l)[k] = Lines(0)[k]
        /\ Append(Lines(0), l)[Len(Lines(0)) + 1] = l
    BY <1>b
  <2>4. Append(Lines(0), l) # Absent
    BY <1>a, <2>3
  <2>5. /\ file'[0] = Append(Lines(0), l) /\ Lines(0)' = Append(Lines(0), l) /\ Exists(0)'
        /\ \A i \in Suffix \ {0} : Lines(i)' = Lines(i)
    BY <2>1, <2>2, <2>4, <1>b DEF FileTypes, Lines, Exists
  <2>6. Appended
    BY <1>7, <2>1, <2>5 DEF Appended
  <2>7. FileTypes' /\ TargetGone'
    BY <1>7, <2>1, <2>2, <2>3, <1>b DEF FileTypes, TargetGone
  <2>8. OpenFile'
    <3>1. SUFFICES ASSUME fd' PROVE OpenFile'
      BY <1>7 DEF OpenFile
    <3>2. l = Whole(row) /\ l.whole
      <4>1. file'[0] = Append(Lines(0), Whole(row)) /\ Whole(row) \in Records
        BY <1>7, <2>2, <3>1, <1>b DEF FileTypes, Whole, Records
      <4>2. Append(Lines(0), Whole(row))[Len(Lines(0)) + 1] = Whole(row)
        BY <1>b, <4>1
      <4> QED BY <2>3, <2>5, <4>1, <4>2 DEF Whole
    <3>3. \A k \in 1 .. Len(Lines(0)) + 1 : Lines(0)'[k].whole
      BY <1>7, <2>2, <2>3, <2>5, <3>2, <1>b DEF OpenFile
    <3> QED BY <1>7, <2>2, <2>3, <2>5, <3>1, <3>3 DEF OpenFile
  <2> QED BY <2>6, <2>7, <2>8
<1>8. CASE file' = file /\ pc' = "idle" /\ fd' = FALSE /\ fileSize' \in Nat /\ UNCHANGED row
  <2>1. Untouched
    BY <1>8 DEF Untouched, Lines, Exists
  <2>2. FileTypes' /\ OpenFile' /\ TargetGone'
    BY <1>8 DEF FileTypes, OpenFile, TargetGone
  <2> QED BY <2>1, <2>2
<1>9. Whole(row) \in Records /\ Partial(row) \in Records /\ Whole(row).row = row /\ Partial(row).row = row
      /\ fileSize \in Nat /\ fd \in BOOLEAN
  BY DEF Whole, Partial, Records, FileTypes
<1>10. CASE WriteLine
  <2>1. pc = "write" /\ UNCHANGED row
    BY <1>10 DEF WriteLine
  <2>2. CASE /\ file' = [file EXCEPT ![0] = Append(@, Whole(row))]
             /\ fileSize' = fileSize + 1 /\ pc' = "idle" /\ UNCHANGED fd
    <3>1. fd /\ fd' /\ fd' \in BOOLEAN /\ fileSize' \in Nat
      BY <2>1, <2>2, <1>9 DEF OpenFile
    <3> QED BY <1>7, <1>9, <2>1, <2>2, <3>1
  <2>3. CASE Fail /\ UNCHANGED <<file, fileSize>>
    BY <1>8, <1>9, <2>1, <2>3 DEF Fail
  <2>4. CASE Fail /\ file' = [file EXCEPT ![0] = Append(@, Partial(row))] /\ UNCHANGED fileSize
    BY <1>7, <1>9, <2>1, <2>4 DEF Fail
  <2> QED BY <1>10, <2>2, <2>3, <2>4 DEF WriteLine
<1>11. CASE KillAndRestart
  BY <1>7, <1>8, <1>9, <1>11 DEF KillAndRestart, Fault
<1>12. CASE UNCHANGED filesVars
  <2>1. Untouched
    BY <1>12 DEF filesVars, Untouched, Lines, Exists
  <2>2. FileTypes' /\ OpenFile' /\ TargetGone'
    BY <1>12 DEF filesVars, FileTypes, OpenFile, TargetGone, Lines, Exists
  <2> QED BY <2>1, <2>2
<1> QED BY <1>1, <1>2, <1>3, <1>4, <1>5, <1>6, <1>10, <1>11, <1>12 DEF FilesNext

\* Row numbers only grow.
LEMMA RowsGrow ==
  ASSUME FilesInv, [FilesNext]_filesVars
  PROVE  NextRow \in Nat /\ NextRow' \in Nat /\ NextRow <= NextRow'
<1> USE DEF NextRow
<1>1. row \in Nat
  BY DEF FilesInv, FileTypes
<1>2. CASE BeginWrite
  BY <1>1, <1>2 DEF BeginWrite
<1>3. CASE row' = row /\ (pc' = "idle" \/ pc # "idle")
  BY <1>1, <1>3
<1>4. [FilesNext]_filesVars => BeginWrite \/ (row' = row /\ (pc' = "idle" \/ pc # "idle"))
  <2>1. ASSUME NEW i \in 0 .. 2, Rename(i) PROVE row' = row /\ pc # "idle"
    BY <2>1 DEF Rename, RenameLoop
  <2> QED BY <2>1 DEF FilesNext, Open, Fit, Unlink, Reopen, WriteLine, KillAndRestart, filesVars
<1> QED BY <1>2, <1>3, <1>4

\* Renames and the unlink keep the order of what is left, and the appended
\* row is the newest of all.
LEMMA OrderKept ==
  ASSUME FilesInv, FileTypes', NextRow \in Nat, NextRow' \in Nat, NextRow <= NextRow',
         Untouched \/ Appended \/ Moved \/ OldestRemoved
  PROVE  RowsPast' /\ RowsInOrder'
<1> USE DEF FilesInv
<1>1. \A i \in Suffix :
        /\ Len(Lines(i)) \in Nat
        /\ \A k \in 1 .. Len(Lines(i)) : Lines(i)[k].row \in Nat
  BY LinesAreRecords
<1>2. CASE Untouched
  BY <1>1, <1>2 DEF Untouched, RowsPast, RowsInOrder, ReadBefore
<1>3. CASE Appended
  <2>1. PICK l \in Records : l.row = row /\ Lines(0)' = Append(Lines(0), l)
    BY <1>3 DEF Appended
  <2>2. 0 \in Suffix /\ Lines(0) \in Seq(Records)
    BY LinesAreRecords DEF Suffix
  <2>3. /\ Len(Append(Lines(0), l)) = Len(Lines(0)) + 1
        /\ \A k \in 1 .. Len(Lines(0)) : Append(Lines(0), l)[k] = Lines(0)[k]
        /\ Append(Lines(0), l)[Len(Lines(0)) + 1] = l
    BY <2>2
  <2>4. NextRow = row /\ NextRow' = row + 1 /\ row \in Nat
    BY <1>3 DEF Appended, NextRow, FileTypes
  <2>5. \A i \in Suffix : i # 0 => Lines(i)' = Lines(i)
    BY <1>3 DEF Appended
  <2>6. \A k \in 1 .. Len(Lines(0)') :
          \/ k \in 1 .. Len(Lines(0)) /\ Lines(0)'[k] = Lines(0)[k]
          \/ k = Len(Lines(0)) + 1 /\ Lines(0)'[k].row = row
    BY <2>1, <2>2, <2>3, <1>1
  <2>7. RowsPast'
    BY <1>1, <2>2, <2>4, <2>5, <2>6 DEF RowsPast
  <2>8. RowsInOrder'
    <3> SUFFICES ASSUME NEW i \in Suffix, NEW j \in Suffix, NEW a \in 1 .. Len(Lines(i)'),
                        NEW b \in 1 .. Len(Lines(j)'), ReadBefore(i, a, j, b)
                 PROVE  Lines(i)'[a].row < Lines(j)'[b].row
      BY DEF RowsInOrder, ReadBefore
    <3>1. a \in 1 .. Len(Lines(i)) /\ Lines(i)'[a] = Lines(i)[a]
      <4>1. CASE i # 0
        BY <2>5, <4>1
      <4>2. CASE i = 0
        <5>1. j = 0 /\ a < b
          BY <4>2 DEF ReadBefore, Suffix
        <5>2. Len(Lines(0)') = Len(Lines(0)) + 1 /\ Len(Lines(0)) \in Nat
          BY <1>1, <2>1, <2>2, <2>3
        <5>3. a \in 1 .. Len(Lines(0)) /\ b \in 1 .. Len(Lines(0)')
          BY <4>2, <5>1, <5>2
        <5> QED BY <2>1, <2>3, <4>2, <5>3
      <4> QED BY <4>1, <4>2
    <3>2. CASE b \in 1 .. Len(Lines(j)) /\ Lines(j)'[b] = Lines(j)[b]
      BY <3>1, <3>2 DEF RowsInOrder
    <3>3. CASE Lines(j)'[b].row = row
      BY <2>4, <3>1, <3>3 DEF RowsPast
    <3> QED BY <2>5, <2>6, <3>2, <3>3
  <2> QED BY <2>7, <2>8
<1>4. CASE Moved
  <2>1. PICK m \in 0 .. 2 :
          /\ Lines(m + 1)' = Lines(m) /\ Lines(m)' = <<>>
          /\ \A j \in Suffix \ {m, m + 1} : Lines(j)' = Lines(j)
    BY <1>4 DEF Moved
  <2> DEFINE From(i) == IF i = m + 1 THEN m ELSE i
  <2>2. \A i \in Suffix : \A k \in 1 .. Len(Lines(i)') : i # m /\ From(i) \in Suffix /\ Lines(i)' = Lines(From(i))
    BY <2>1 DEF Suffix
  <2>3. RowsPast'
    BY <1>1, <2>2 DEF RowsPast
  <2>4. RowsInOrder'
    <3> SUFFICES ASSUME NEW i \in Suffix, NEW j \in Suffix, NEW a \in 1 .. Len(Lines(i)'),
                        NEW b \in 1 .. Len(Lines(j)'), ReadBefore(i, a, j, b)
                 PROVE  Lines(i)'[a].row < Lines(j)'[b].row
      BY DEF RowsInOrder, ReadBefore
    <3>1. ReadBefore(From(i), a, From(j), b)
      BY <2>2 DEF ReadBefore, Suffix
    <3> QED BY <2>2, <3>1 DEF RowsInOrder
  <2> QED BY <2>3, <2>4
<1>5. CASE OldestRemoved
  <2>1. \A i \in Suffix : \A k \in 1 .. Len(Lines(i)') : Lines(i)' = Lines(i)
    BY <1>5 DEF OldestRemoved, Suffix
  <2>2. RowsPast'
    BY <1>1, <2>1 DEF RowsPast
  <2>3. RowsInOrder'
    BY <1>1, <2>1 DEF RowsInOrder, ReadBefore
  <2> QED BY <2>2, <2>3
<1> QED BY <1>2, <1>3, <1>4, <1>5

\* A line is appended only to whole lines and only where there is room.
LEMMA BoundsKept ==
  ASSUME FilesInv, Untouched \/ Appended \/ Moved \/ OldestRemoved
  PROVE  PartialIsLast' /\ FilesBounded'
<1> USE DEF FilesInv
<1>1. \A i \in Suffix : Len(Lines(i)) \in Nat
  BY LinesAreRecords
<1>2. CASE Untouched
  BY <1>1, <1>2 DEF Untouched, PartialIsLast, FilesBounded
<1>3. CASE Appended
  <2>1. PICK l \in Records : Lines(0)' = Append(Lines(0), l)
    BY <1>3 DEF Appended
  <2>2. 0 \in Suffix /\ Lines(0) \in Seq(Records)
    BY LinesAreRecords DEF Suffix
  <2>3. /\ Len(Append(Lines(0), l)) = Len(Lines(0)) + 1
        /\ \A k \in 1 .. Len(Lines(0)) : Append(Lines(0), l)[k] = Lines(0)[k]
    BY <2>2
  <2>4. /\ \A k \in 1 .. Len(Lines(0)) : Lines(0)[k].whole
        /\ Len(Lines(0)) < FileRows
    BY <1>3 DEF Appended, OpenFile, Lines
  <2>5. \A i \in Suffix : i # 0 => Lines(i)' = Lines(i)
    BY <1>3 DEF Appended
  <2>6. \A k \in 1 .. Len(Lines(0)') : ~Lines(0)'[k].whole => k = Len(Lines(0)')
    BY <1>1, <2>1, <2>2, <2>3, <2>4
  <2>7. PartialIsLast'
    BY <2>5, <2>6 DEF PartialIsLast
  <2>8. Len(Lines(0)') <= FileRows
    BY <1>1, <2>1, <2>2, <2>3, <2>4, FilesAssumption
  <2>9. FilesBounded'
    BY <2>5, <2>8 DEF FilesBounded
  <2> QED BY <2>7, <2>9
<1>4. CASE Moved \/ OldestRemoved
  <2>1. \A i \in Suffix : Lines(i)' = <<>> \/ \E j \in Suffix : Lines(i)' = Lines(j)
    <3>1. CASE Moved
      <4>1. PICK m \in 0 .. 2 :
              /\ Lines(m + 1)' = Lines(m) /\ Lines(m)' = <<>>
              /\ \A j \in Suffix \ {m, m + 1} : Lines(j)' = Lines(j)
        BY <3>1 DEF Moved
      <4> QED BY <4>1 DEF Suffix
    <3>2. CASE OldestRemoved
      BY <3>2 DEF OldestRemoved, Suffix
    <3> QED BY <1>4, <3>1, <3>2
  <2>2. Len(<<>>) = 0
    OBVIOUS
  <2>3. PartialIsLast'
    BY <2>1, <2>2 DEF PartialIsLast
  <2>4. FilesBounded'
    BY <2>1, <2>2, FilesAssumption DEF FilesBounded
  <2> QED BY <2>3, <2>4
<1> QED BY <1>2, <1>3, <1>4

\* An empty directory holds no lines.
LEMMA FilesInvInit == FilesInit => FilesInv
<1> SUFFICES ASSUME FilesInit PROVE FilesInv
  OBVIOUS
<1>1. FileTypes
  BY DEF FilesInit, FileTypes
<1>2. \A i \in Suffix : Lines(i) = <<>>
  BY DEF FilesInit, Lines, Exists
<1>3. Len(<<>>) = 0
  OBVIOUS
<1>4. OpenFile /\ TargetGone
  BY DEF FilesInit, OpenFile, TargetGone
<1>5. RowsPast /\ RowsInOrder /\ PartialIsLast /\ FilesBounded
  BY <1>2, <1>3, FilesAssumption DEF RowsPast, RowsInOrder, PartialIsLast, FilesBounded
<1> QED BY <1>1, <1>4, <1>5 DEF FilesInv

\* FilesInv is inductive.
LEMMA FilesInvStep == FilesInv /\ [FilesNext]_filesVars => FilesInv'
<1> SUFFICES ASSUME FilesInv, [FilesNext]_filesVars PROVE FilesInv'
  OBVIOUS
<1>1. FileTypes' /\ OpenFile' /\ TargetGone' /\ (Untouched \/ Appended \/ Moved \/ OldestRemoved)
  BY Effects
<1>2. RowsPast' /\ RowsInOrder'
  BY <1>1, RowsGrow, OrderKept
<1>3. PartialIsLast' /\ FilesBounded'
  BY <1>1, BoundsKept
<1> QED BY <1>1, <1>2, <1>3 DEF FilesInv

\* A row is kept when it is a line of some file.
LEMMA KeptRows ==
  ASSUME NEW f \in [Suffix -> Seq(Records) \union {Absent}], NEW r
  PROVE  r \in Kept(f) <=>
           \E i \in Suffix : f[i] # Absent /\ \E k \in 1 .. Len(f[i]) : f[i][k] = r
<1>1. \A i \in Suffix : f[i] # Absent => DOMAIN f[i] = 1 .. Len(f[i])
  OBVIOUS
<1> QED BY <1>1 DEF Kept, Range

\* The rows on disk, by the lines of the files.
OnDisk(r) == \E i \in Suffix : \E k \in 1 .. Len(Lines(i)) : Lines(i)[k] = r

\* A step of the writer loses no row but those of .3, when it unlinks it.
LEMMA RowsRemoved ==
  ASSUME FilesInv, FileTypes', Untouched \/ Appended \/ Moved \/ OldestRemoved
  PROVE  \/ Kept(file) \subseteq Kept(file')
         \/ pc = "unlink" /\ Kept(file) \ Kept(file') = Range(Lines(3))
<1> USE DEF FilesInv
<1>0. Len(<<>>) = 0
  OBVIOUS
<1>1. ASSUME NEW r PROVE r \in Kept(file) <=> OnDisk(r)
  <2>1. file \in [Suffix -> Seq(Records) \union {Absent}]
    BY DEF FileTypes
  <2> QED BY <2>1, <1>0, KeptRows DEF OnDisk, Lines, Exists
<1>2. ASSUME NEW r PROVE r \in Kept(file') <=> OnDisk(r)'
  <2>1. file' \in [Suffix -> Seq(Records) \union {Absent}]
    BY DEF FileTypes
  <2>2. r \in Kept(file') <=> \E i \in Suffix : file'[i] # Absent /\ \E k \in 1 .. Len(file'[i]) : file'[i][k] = r
    BY <2>1, KeptRows
  <2> QED BY <2>2, <1>0 DEF OnDisk, Lines, Exists
<1>3. \A i \in Suffix : Lines(i) \in Seq(Records) /\ Len(Lines(i)) \in Nat
  BY LinesAreRecords
<1>4. CASE Untouched
  <2>1. ASSUME NEW r, OnDisk(r) PROVE OnDisk(r)'
    BY <1>4, <2>1 DEF Untouched, OnDisk
  <2> QED BY <1>1, <1>2, <2>1
<1>5. CASE Appended
  <2>1. PICK l \in Records : Lines(0)' = Append(Lines(0), l)
    BY <1>5 DEF Appended
  <2>2. 0 \in Suffix /\ Lines(0) \in Seq(Records)
    BY <1>3 DEF Suffix
  <2>3. /\ Len(Append(Lines(0), l)) = Len(Lines(0)) + 1
        /\ \A k \in 1 .. Len(Lines(0)) : Append(Lines(0), l)[k] = Lines(0)[k]
    BY <2>2
  <2>4. \A i \in Suffix : \A k \in 1 .. Len(Lines(i)) : k \in 1 .. Len(Lines(i)') /\ Lines(i)'[k] = Lines(i)[k]
    <3> SUFFICES ASSUME NEW i \in Suffix, NEW k \in 1 .. Len(Lines(i))
                 PROVE  k \in 1 .. Len(Lines(i)') /\ Lines(i)'[k] = Lines(i)[k]
      OBVIOUS
    <3>1. CASE i = 0
      BY <1>3, <2>1, <2>2, <2>3, <3>1
    <3>2. CASE i # 0
      BY <1>5, <3>2 DEF Appended
    <3> QED BY <3>1, <3>2
  <2>5. ASSUME NEW r, OnDisk(r) PROVE OnDisk(r)'
    BY <2>4, <2>5 DEF OnDisk
  <2> QED BY <1>1, <1>2, <2>5
<1>6. CASE Moved
  <2>1. PICK m \in 0 .. 2 :
          /\ Lines(m + 1) = <<>> /\ Lines(m + 1)' = Lines(m)
          /\ \A j \in Suffix \ {m, m + 1} : Lines(j)' = Lines(j)
    BY <1>6 DEF Moved
  <2>2. \A i \in Suffix : Lines(i) = <<>> \/ \E j \in Suffix : Lines(j)' = Lines(i)
    BY <2>1 DEF Suffix
  <2>3. ASSUME NEW r, OnDisk(r) PROVE OnDisk(r)'
    BY <1>0, <2>2, <2>3 DEF OnDisk
  <2> QED BY <1>1, <1>2, <2>3
<1>7. CASE OldestRemoved
  <2>1. 3 \in Suffix /\ Lines(3)' = <<>> /\ \A i \in Suffix : i # 3 => Lines(i)' = Lines(i)
    BY <1>7 DEF OldestRemoved, Suffix
  <2>2. ASSUME NEW r PROVE OnDisk(r)' <=> \E i \in Suffix \ {3} : \E k \in 1 .. Len(Lines(i)) : Lines(i)[k] = r
    BY <1>0, <2>1 DEF OnDisk
  <2>3. ASSUME NEW k \in 1 .. Len(Lines(3)), NEW i \in Suffix \ {3}, NEW b \in 1 .. Len(Lines(i))
        PROVE  Lines(3)[k] # Lines(i)[b]
    <3>1. ReadBefore(3, k, i, b)
      BY DEF ReadBefore, Suffix
    <3>2. Lines(3)[k].row < Lines(i)[b].row /\ Lines(3)[k].row \in Nat /\ Lines(i)[b].row \in Nat
      BY <2>1, <3>1, LinesAreRecords DEF RowsInOrder
    <3> QED BY <3>2
  <2>4. ASSUME NEW r PROVE r \in Range(Lines(3)) <=> \E k \in 1 .. Len(Lines(3)) : Lines(3)[k] = r
    BY <1>3, <2>1 DEF Range
  <2>5. ASSUME NEW r PROVE OnDisk(r) /\ ~OnDisk(r)' <=> r \in Range(Lines(3))
    BY <2>1, <2>2, <2>3, <2>4 DEF OnDisk
  <2>6. Kept(file) \ Kept(file') = Range(Lines(3))
    BY <1>1, <1>2, <2>5
  <2> QED BY <1>7, <2>6 DEF OldestRemoved
<1> QED BY <1>4, <1>5, <1>6, <1>7

\* Read from .3 to the current file the rows are in the order in which they
\* were accepted, through failed calls, kills and new sessions.
THEOREM RowsOrder == FilesSpec => []RowsInOrder
<1>1. FilesInit => FilesInv
  BY FilesInvInit
<1>2. FilesInv /\ [FilesNext]_filesVars => FilesInv'
  BY FilesInvStep
<1>3. FilesInv => RowsInOrder
  BY DEF FilesInv
<1> QED BY <1>1, <1>2, <1>3, PTL DEF FilesSpec

\* A partial line, left by a failed write or a kill, is never appended to.
THEOREM PartialLines == FilesSpec => []PartialIsLast
<1>1. FilesInit => FilesInv
  BY FilesInvInit
<1>2. FilesInv /\ [FilesNext]_filesVars => FilesInv'
  BY FilesInvStep
<1>3. FilesInv => PartialIsLast
  BY DEF FilesInv
<1> QED BY <1>1, <1>2, <1>3, PTL DEF FilesSpec

\* No file, rotated or current, exceeds file_bytes.
THEOREM FileSizes == FilesSpec => []FilesBounded
<1>1. FilesInit => FilesInv
  BY FilesInvInit
<1>2. FilesInv /\ [FilesNext]_filesVars => FilesInv'
  BY FilesInvStep
<1>3. FilesInv => FilesBounded
  BY DEF FilesInv
<1> QED BY <1>1, <1>2, <1>3, PTL DEF FilesSpec

\* Only the unlink of .3 removes rows, and it removes exactly those of .3:
\* rotation, interrupted anywhere and retried, destroys nothing else.
THEOREM RotationKeepsRows == FilesSpec => OnlyOldestRemoved
<1>1. FilesInit => FilesInv
  BY FilesInvInit
<1>2. FilesInv /\ [FilesNext]_filesVars => FilesInv'
  BY FilesInvStep
<1>3. FilesInv /\ [FilesNext]_filesVars =>
        [\/ Kept(file) \subseteq Kept(file')
         \/ pc = "unlink" /\ Kept(file) \ Kept(file') = Range(Lines(3))]_filesVars
  BY Effects, RowsRemoved
<1> QED BY <1>1, <1>2, <1>3, PTL DEF FilesSpec, OnlyOldestRemoved
============================================================================
