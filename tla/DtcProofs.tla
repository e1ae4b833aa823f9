------------------------------ MODULE DtcProofs ------------------------------
(***************************************************************************)
(* Proofs about DtcMonitor, for any timeouts, any delay of reports and any *)
(* lidar, however often it changes and whichever reports arrive.           *)
(***************************************************************************)
EXTENDS DtcMonitor, TLAPS

----------------------------------------------------------------------------
(* The inductive invariant. *)

Contents == [alarms : SUBSET Alarms, work : Nat, age : Nat]
Members ==
  [hms : SUBSET Alarms, hmsAge : Nat, work : Nat, stateAge : Nat, packetAge : Nat,
   validAge : Nat, validSeen : BOOLEAN]

DtcTypes ==
  /\ lidar \in Lidars
  /\ dev \in [alarms : SUBSET Alarms, work : Nat, streaming : BOOLEAN]
  /\ past \subseteq Contents
  /\ mon \in Members
  /\ raised \in [Alarms -> Nat] /\ abnormal \in Nat /\ silent \in Nat

\* An alarm that is there and was not age ticks ago came since; so did a work
\* state that is not normal.
Came(alarms, age) == \A a \in dev.alarms \ alarms : raised[a] =< age
LeftNormal(work, age) == work = 1 /\ dev.work # 1 => abnormal =< age

\* What a report can show was true, and not long ago.
PastTrue ==
  \A p \in past : p.age =< MaxDelay /\ Came(p.alarms, p.age) /\ LeftNormal(p.work, p.age)

\* What the monitor still believes was true that long and a delay ago.
BeliefTrue ==
  /\ HmsFresh => Came(mon.hms, mon.hmsAge + MaxDelay)
  /\ StateFresh => LeftNormal(mon.work, mon.stateAge + MaxDelay)
  /\ mon.packetAge =< DataTimeout /\ ~dev.streaming => silent =< mon.packetAge

DtcInv == DtcTypes /\ PastTrue /\ BeliefTrue

\* The bounds on the constants, without the lidars.
LEMMA TimesAreNat ==
  /\ DataTimeout \in Nat /\ StateTimeout \in Nat /\ MaxDelay \in Nat /\ Reach \in Nat
BY DtcAssumption DEF Reach

\* Ages grow by one at most, and by one as long as they matter.
LEMMA OlderGrows ==
  ASSUME NEW age \in Nat, NEW limit \in Nat
  PROVE  /\ Older(age, limit) \in Nat /\ age =< Older(age, limit) /\ Older(age, limit) =< age + 1
         /\ Older(age, limit) =< limit => Older(age, limit) = age + 1
BY DEF Older

\* A lidar that has just been started is in order, and nothing is known of it.
LEMMA DtcInit == Init => DtcInv
<1> SUFFICES ASSUME Init PROVE DtcInv
  OBVIOUS
<1>1. DtcTypes
  BY TimesAreNat DEF Init, DtcTypes, Members
<1>2. PastTrue /\ BeliefTrue
  BY DEF Init, PastTrue, BeliefTrue, Came, LeftNormal
<1> QED BY <1>1, <1>2 DEF DtcInv

----------------------------------------------------------------------------
(* The steps. *)

\* A tick makes everything older.
LEMMA TickKeepsDtc == DtcInv /\ Tick => DtcInv'
<1> SUFFICES ASSUME DtcInv, Tick PROVE DtcInv'
  OBVIOUS
<1> USE DEF DtcInv, DtcTypes
<1>0. DataTimeout \in Nat /\ StateTimeout \in Nat /\ MaxDelay \in Nat /\ Reach \in Nat
  BY TimesAreNat
<1>1. /\ past' = {[p EXCEPT !.age = @ + 1] : p \in {q \in past : q.age < MaxDelay}}
      /\ mon' = [mon EXCEPT !.hmsAge = Older(@, StateTimeout), !.stateAge = Older(@, StateTimeout),
                            !.packetAge = Older(@, DataTimeout), !.validAge = Older(@, DataTimeout)]
      /\ raised' = [a \in Alarms |-> IF a \in dev.alarms THEN Older(raised[a], Reach) ELSE 0]
      /\ abnormal' = IF dev.work = 1 THEN 0 ELSE Older(abnormal, Reach)
      /\ silent' = IF dev.streaming THEN 0 ELSE Older(silent, DataTimeout)
      /\ UNCHANGED <<lidar, dev>>
  BY DEF Tick
<1>2. /\ mon.hmsAge \in Nat /\ mon.stateAge \in Nat /\ mon.packetAge \in Nat /\ mon.validAge \in Nat
      /\ mon'.hms = mon.hms /\ mon'.work = mon.work
      /\ mon'.hmsAge = Older(mon.hmsAge, StateTimeout)
      /\ mon'.stateAge = Older(mon.stateAge, StateTimeout)
      /\ mon'.packetAge = Older(mon.packetAge, DataTimeout)
      /\ mon' \in Members
  BY <1>0, <1>1, OlderGrows DEF Members
<1>3. \A a \in dev.alarms : raised[a] \in Nat /\ raised'[a] \in Nat /\ raised'[a] =< raised[a] + 1
  BY <1>0, <1>1, OlderGrows
<1>4. dev.work # 1 => abnormal' \in Nat /\ abnormal' =< abnormal + 1
  BY <1>0, <1>1, OlderGrows
<1>5. ~dev.streaming => silent' \in Nat /\ silent' =< silent + 1
  BY <1>0, <1>1, OlderGrows
<1>6. \A alarms, age : age \in Nat /\ Came(alarms, age) => Came(alarms, age + 1)'
  <2> SUFFICES ASSUME NEW alarms, NEW age \in Nat, Came(alarms, age), NEW a \in dev.alarms \ alarms
               PROVE  raised'[a] =< age + 1
    BY <1>1 DEF Came
  <2> QED BY <1>3 DEF Came
<1>7. \A work, age : age \in Nat /\ LeftNormal(work, age) => LeftNormal(work, age + 1)'
  BY <1>1, <1>4 DEF LeftNormal
<1>8. DtcTypes'
  BY <1>0, <1>1, <1>2, OlderGrows DEF Contents
<1>9. PastTrue'
  BY <1>0, <1>1, <1>6, <1>7 DEF PastTrue, Contents
<1>10. BeliefTrue'
  BY <1>0, <1>1, <1>2, <1>5, <1>6, <1>7, OlderGrows DEF BeliefTrue, HmsFresh, StateFresh
<1> QED BY <1>8, <1>9, <1>10

\* A change of the lidar keeps the earlier state for reports to show.
LEMMA ChangeKeepsDtc ==
  ASSUME DtcInv, NEW d \in [alarms : SUBSET Alarms, work : Nat, streaming : BOOLEAN], Change(d)
  PROVE  DtcInv'
<1> USE DEF DtcInv, DtcTypes
<1> PICK was \in Contents : was = [alarms |-> dev.alarms, work |-> dev.work, age |-> 0]
  BY DEF Contents
<1>0. DataTimeout \in Nat /\ StateTimeout \in Nat /\ MaxDelay \in Nat
  BY TimesAreNat
<1>1. /\ dev' = d /\ past' \subseteq past \union {was}
      /\ raised' = [a \in Alarms |-> IF a \in d.alarms /\ a \in dev.alarms THEN raised[a] ELSE 0]
      /\ abnormal' = IF d.work = 1 \/ dev.work = 1 THEN 0 ELSE abnormal
      /\ silent' = IF d.streaming \/ dev.streaming THEN 0 ELSE silent
      /\ UNCHANGED <<lidar, mon>>
  BY DEF Change
<1>2. was.alarms = dev.alarms /\ was.work = dev.work /\ was.age = 0
  OBVIOUS
<1>3. \A alarms : \A age \in Nat : Came(alarms, age) => Came(alarms, age)'
  <2> SUFFICES ASSUME NEW alarms, NEW age \in Nat, Came(alarms, age), NEW a \in d.alarms \ alarms
               PROVE  raised'[a] =< age
    BY <1>1 DEF Came
  <2> QED BY <1>1 DEF Came
<1>4. \A work : \A age \in Nat : LeftNormal(work, age) => LeftNormal(work, age)'
  BY <1>1 DEF LeftNormal
<1>5. Came(was.alarms, 0)' /\ LeftNormal(was.work, 0)'
  BY <1>1, <1>2 DEF Came, LeftNormal
<1>6. DtcTypes'
  BY <1>1
<1>7. PastTrue'
  <2> SUFFICES ASSUME NEW p \in past'
               PROVE  p.age =< MaxDelay /\ Came(p.alarms, p.age)' /\ LeftNormal(p.work, p.age)'
    BY DEF PastTrue
  <2>1. CASE p \in past
    BY <1>3, <1>4, <2>1 DEF PastTrue, Contents
  <2>2. CASE p = was
    BY <1>0, <1>2, <1>5, <2>2
  <2> QED BY <1>1, <2>1, <2>2
<1>8. BeliefTrue'
  <2>1. /\ mon.hmsAge + MaxDelay \in Nat /\ mon.stateAge + MaxDelay \in Nat /\ mon.packetAge \in Nat
        /\ mon.hms \in SUBSET Alarms /\ mon.work \in Nat
    BY <1>0 DEF Members
  <2>2. (HmsFresh' <=> HmsFresh) /\ (StateFresh' <=> StateFresh)
    BY <1>1 DEF HmsFresh, StateFresh
  <2>3. HmsFresh => Came(mon.hms, mon.hmsAge + MaxDelay)'
    <3> PICK age \in Nat, hms \in SUBSET Alarms : age = mon.hmsAge + MaxDelay /\ hms = mon.hms
      BY <2>1
    <3>1. HmsFresh => Came(hms, age)'
      BY <1>3 DEF BeliefTrue
    <3> QED BY <1>1, <3>1 DEF Came
  <2>4. StateFresh => LeftNormal(mon.work, mon.stateAge + MaxDelay)'
    <3> PICK age \in Nat, work \in Nat : age = mon.stateAge + MaxDelay /\ work = mon.work
      BY <2>1
    <3>1. StateFresh => LeftNormal(work, age)'
      BY <1>4 DEF BeliefTrue
    <3> QED BY <1>1, <3>1 DEF LeftNormal
  <2>5. mon.packetAge =< DataTimeout /\ ~d.streaming => silent' =< mon.packetAge
    BY <1>1, <2>1 DEF BeliefTrue
  <2> QED BY <1>1, <2>2, <2>3, <2>4, <2>5 DEF BeliefTrue
<1> QED BY <1>6, <1>7, <1>8

\* Whatever fields of whatever report come in, the monitor believes what was
\* true.
LEMMA ObserveKeepsDtc ==
  ASSUME DtcInv, NEW r \in Reports, NEW f \in Fields, mon' = Observe(r, f),
         UNCHANGED deviceVars
  PROVE  DtcInv'
<1> USE DEF DtcInv, DtcTypes, deviceVars
<1>0. DataTimeout \in Nat /\ StateTimeout \in Nat /\ MaxDelay \in Nat
  BY TimesAreNat
<1>1. r \in Contents
  BY DEF Reports, Contents
<1>2. r.age =< MaxDelay /\ Came(r.alarms, r.age) /\ LeftNormal(r.work, r.age)
  <2>1. CASE r \in past
    BY <2>1 DEF PastTrue
  <2>2. CASE r = [alarms |-> dev.alarms, work |-> dev.work, age |-> 0]
    BY <1>0, <2>2 DEF Came, LeftNormal
  <2> QED BY <2>1, <2>2 DEF Reports
<1>3. Came(r.alarms, MaxDelay) /\ LeftNormal(r.work, MaxDelay)
  BY <1>0, <1>1, <1>2 DEF Came, LeftNormal, Contents
<1>4. /\ mon'.hms = IF "hms" \in f THEN r.alarms ELSE mon.hms
      /\ mon'.hmsAge = IF "hms" \in f THEN 0 ELSE mon.hmsAge
      /\ mon'.work = IF "work" \in f THEN r.work ELSE mon.work
      /\ mon'.stateAge = IF "work" \in f THEN 0 ELSE mon.stateAge
      /\ mon'.packetAge = mon.packetAge
      /\ mon' \in Members
  BY <1>1 DEF Observe, Members, Contents
<1>5. PastTrue'
  BY DEF PastTrue, Came, LeftNormal
<1>6. BeliefTrue'
  <2>1. HmsFresh' => Came(mon'.hms, mon'.hmsAge + MaxDelay)
    BY <1>0, <1>3, <1>4 DEF BeliefTrue, HmsFresh
  <2>2. StateFresh' => LeftNormal(mon'.work, mon'.stateAge + MaxDelay)
    BY <1>0, <1>3, <1>4 DEF BeliefTrue, StateFresh
  <2> QED BY <1>4, <2>1, <2>2 DEF BeliefTrue, Came, LeftNormal
<1> QED BY <1>4, <1>5, <1>6

\* Every step keeps the invariant.
LEMMA DtcStep == DtcInv /\ [Next]_vars => DtcInv'
<1> SUFFICES ASSUME DtcInv, [Next]_vars PROVE DtcInv'
  OBVIOUS
<1> USE DEF DtcInv, DtcTypes, deviceVars
<1>1. CASE Tick
  BY <1>1, TickKeepsDtc
<1>2. CASE \/ \E a \in lidar.alarms : Change([dev EXCEPT !.alarms = a])
           \/ \E w \in lidar.work : Change([dev EXCEPT !.work = w])
           \/ \E b \in lidar.streaming : Change([dev EXCEPT !.streaming = b])
  <2>1. lidar.alarms \subseteq SUBSET Alarms /\ lidar.work \subseteq Nat /\ lidar.streaming \subseteq BOOLEAN
    BY DtcAssumption
  <2>2. \E d \in [alarms : SUBSET Alarms, work : Nat, streaming : BOOLEAN] : Change(d)
    BY <1>2, <2>1
  <2> QED BY <2>2, ChangeKeepsDtc
<1>3. CASE DiagnosticStatusCallback \/ \E f \in Fields : QueryAnswered(f)
  BY <1>3, ObserveKeepsDtc DEF DiagnosticStatusCallback, QueryAnswered
<1>4. CASE ObservePacket
  <2>1. dev.streaming /\ mon' = [mon EXCEPT !.packetAge = 0] /\ UNCHANGED deviceVars
    BY <1>4 DEF ObservePacket
  <2>2. mon' \in Members
    BY <2>1 DEF Members
  <2> QED BY <2>1, <2>2 DEF PastTrue, BeliefTrue, HmsFresh, StateFresh, Came, LeftNormal, Members
<1>5. CASE ObserveCloud
  <2>1. mon' = [mon EXCEPT !.validAge = 0, !.validSeen = TRUE] /\ UNCHANGED deviceVars
    BY <1>5 DEF ObserveCloud
  <2>2. mon' \in Members
    BY <2>1 DEF Members
  <2> QED BY <2>1, <2>2 DEF PastTrue, BeliefTrue, HmsFresh, StateFresh, Came, LeftNormal, Members
<1>6. CASE \/ SetClockBack \/ QueryDiagnosticStatus \/ QueryFailed \/ UNCHANGED vars
           \/ \E p \in BOOLEAN : DiagnosticTimer(p)
  BY <1>6 DEF SetClockBack, QueryDiagnosticStatus, QueryFailed, DiagnosticTimer, vars,
       PastTrue, BeliefTrue, HmsFresh, StateFresh, Came, LeftNormal
<1> QED BY <1>1, <1>2, <1>3, <1>4, <1>5, <1>6 DEF Next

\* The invariant holds in every reachable state.
LEMMA DtcInvariant == Spec => []DtcInv
BY DtcInit, DtcStep, PTL DEF Spec

----------------------------------------------------------------------------
(* Results. *)

\* Monitor::Evaluate calls a lidar usable only if it really streamed, was in
\* its normal work state and had no fatal alarm a short while ago, and hands
\* on a bounded warning only if it then had no alarm that forbids it.
THEOREM UsableWasUsable == Spec => []VerdictWasTrue
<1>1. DtcInv => VerdictWasTrue
  <2> SUFFICES ASSUME DtcInv, Usability = "usable" PROVE VerdictWasTrue
    BY DEF VerdictWasTrue
  <2>1. /\ HmsFresh /\ "fatal" \notin mon.hms /\ StateFresh /\ mon.work = 1
        /\ mon.packetAge <= DataTimeout
    BY DEF Usability
  <2>2. /\ mon.hmsAge \in Nat /\ mon.stateAge \in Nat /\ mon.packetAge \in Nat
        /\ dev.alarms \subseteq Alarms /\ silent \in Nat /\ abnormal \in Nat
        /\ raised \in [Alarms -> Nat]
    BY DEF DtcInv, DtcTypes, Members
  <2>3. /\ StateTimeout \in Nat /\ MaxDelay \in Nat /\ DataTimeout \in Nat
        /\ mon.hmsAge + MaxDelay =< Reach /\ mon.stateAge + MaxDelay =< Reach /\ Reach \in Nat
    BY <2>1, <2>2, TimesAreNat DEF HmsFresh, StateFresh, Reach
  <2>4. \A a \in dev.alarms \ mon.hms : raised[a] <= Reach
    BY <2>1, <2>2, <2>3 DEF DtcInv, BeliefTrue, Came
  <2>5. dev.work = 1 \/ abnormal <= Reach
    BY <2>1, <2>2, <2>3 DEF DtcInv, BeliefTrue, LeftNormal
  <2>6. dev.streaming \/ silent <= DataTimeout
    BY <2>1, <2>2, <2>3 DEF DtcInv, BeliefTrue
  <2>7. BoundedTimeSyncWarning(TRUE) => "lost" \notin mon.hms /\ "unknown" \notin mon.hms
    BY DEF BoundedTimeSyncWarning, Incompatible
  <2> QED BY <2>1, <2>4, <2>5, <2>6, <2>7 DEF VerdictWasTrue
<1> QED BY <1>1, DtcInvariant, PTL

\* PublishDiagnosticSnapshot clears a fault only if the lidar was without it a
\* short while ago, GPS warnings under live PTP apart.
THEOREM ClearedFaultsWereClear == Spec => ClearedWasClear
<1> DEFINE Cleared == \A c \in active \ active' : \A a \in dev.alarms :
                        Category(a) = c => a = "gps" \/ raised[a] <= Reach
<1>1. DtcInv /\ [Next]_vars => [Cleared]_vars
  <2> SUFFICES ASSUME DtcInv, Next, NEW c \in active, c \notin active', NEW a \in dev.alarms,
                      Category(a) = c, a # "gps"
               PROVE  raised[a] <= Reach
    OBVIOUS
  <2>1. PICK p \in BOOLEAN : PublishDiagnosticSnapshot(p)
    BY DEF Next, Tick, Change, SetClockBack, DiagnosticStatusCallback, ObservePacket, ObserveCloud,
         QueryDiagnosticStatus, QueryFailed, QueryAnswered, DiagnosticTimer, timerVars
  <2>2. c \in Passing(p) /\ c \notin History
    BY <2>1 DEF PublishDiagnosticSnapshot
  <2>3. HmsFresh /\ c \in Categories /\ c \notin Cats(mon.hms \ (IF p THEN {"gps"} ELSE {}))
    BY <2>2 DEF Passing, Failing
  <2>4. a \notin mon.hms
    BY <2>3 DEF Cats
  <2>5. mon.hmsAge \in Nat /\ mon.hmsAge <= StateTimeout /\ raised[a] \in Nat
    BY <2>3 DEF DtcInv, DtcTypes, Members, HmsFresh
  <2>6. raised[a] =< mon.hmsAge + MaxDelay
    BY <2>3, <2>4 DEF DtcInv, BeliefTrue, Came
  <2> QED BY <2>5, <2>6, TimesAreNat DEF Reach
<1> QED BY <1>1, DtcInvariant, PTL DEF Spec, ClearedWasClear
=============================================================================
