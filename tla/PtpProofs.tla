------------------------------ MODULE PtpProofs ------------------------------
(***************************************************************************)
(* Proofs about PtpEvidence, for any timeouts and bounds on offsets, any   *)
(* delay of reports, any clock settings they cannot hide, and any number   *)
(* of synchronisations.                                                    *)
(***************************************************************************)
EXTENDS PtpEvidence, FiniteSetTheorems, TLAPS

----------------------------------------------------------------------------
(* The inductive invariant. *)

\* A report shows a clock that is skew ahead, and a synchronisation of that
\* clock that the lidar really made.
Genuine(skew, lastSync) ==
  lastSync # 0 =>
    /\ syncs >= 1 /\ lastSync - skew =< realSync
    /\ syncs = 1 => lastSync = realSync + skew

Reports == [sent : Nat, skew : Skews, local : Nat, lastSync : Nat, type : Nat, offset : Nat]

\* The lidar: its last synchronisation is the one its clock shows.
DeviceTrue ==
  /\ now \in Nat /\ syncs \in Nat /\ realSync \in Int /\ realSync =< now
  /\ dev \in [skew : Skews, lastSync : Nat]
  /\ syncs = 0 => dev.lastSync = 0
  /\ syncs >= 1 => realSync >= 0 /\ dev.lastSync = realSync + dev.skew

\* Reports under way are at most MaxDelay old and were true when sent.
ReportsTrue ==
  \A c \in Channels : \A r \in flight[c] :
    /\ r \in Reports /\ r.sent =< now /\ now - r.sent =< MaxDelay
    /\ r.local = r.sent + r.skew
    /\ Genuine(r.skew, r.lastSync)

Members ==
  [lastSync : Nat, syncTime : Int, verified : BOOLEAN, bSeen : BOOLEAN, bAdvances : 0 .. 2,
   bLocal : Nat, bLastSync : Nat, bOffset : Nat, bSample : Int, bAdvance : Int]

\* The lidar had synchronised at most age and a delay before t.
SyncedBy(t, age) == t = Never \/ (syncs >= 1 /\ t - realSync =< age + MaxDelay)

\* What the monitor took for a sign of life of the synchronisation was one.
MonitorTrue ==
  /\ flight \in [Channels -> SUBSET Reports]
  /\ mon \in Members /\ heard \in Int
  /\ mon.verified => mon.syncTime # Never
  /\ mon.syncTime = Never => mon.lastSync = 0
  /\ mon.syncTime # Never => heard = mon.syncTime
  /\ SyncedBy(mon.syncTime, StateTimeout) /\ SyncedBy(mon.bAdvance, BoundedTtl)

\* The bounded_ members describe one stretch of the lidar's clock.
OneStretch ==
  /\ mon.bSeen =>
       \E k \in Skews :
         /\ evidence = {k}
         /\ mon.bLocal - k =< mon.bSample /\ mon.bSample - (mon.bLocal - k) =< MaxDelay
         /\ Genuine(k, mon.bLastSync)
  /\ mon.bAdvances >= 1 => mon.bSeen /\ mon.bLastSync # 0
  /\ mon.bAdvances = 2 => syncs >= 2

PtpInv == DeviceTrue /\ ReportsTrue /\ MonitorTrue /\ OneStretch

\* A host that has just started knows nothing.
LEMMA PtpInit == Init => PtpInv
<1> SUFFICES ASSUME Init PROVE PtpInv
  OBVIOUS
<1>1. DeviceTrue
  BY DEF Init, DeviceTrue, Never
<1>2. ReportsTrue
  BY DEF Init, ReportsTrue
<1>3. MonitorTrue
  BY DEF Init, MonitorTrue, Members, SyncedBy, Never
<1>4. OneStretch
  BY DEF Init, OneStretch
<1> QED BY <1>1, <1>2, <1>3, <1>4 DEF PtpInv

----------------------------------------------------------------------------
(* The lidar and the network. *)

\* Time, synchronisations, sent and lost reports keep the invariant.
LEMMA LidarKeepsPtp ==
  ASSUME PtpInv,
         \/ Tick \/ UNCHANGED vars
         \/ \E s \in Skews : Synchronise(s)
         \/ \E c \in Channels : Lose(c) \/ \E r \in Readings : Send(c, r)
  PROVE  PtpInv'
<1> USE DEF PtpInv, deviceVars, monitorVars
<1>0. Skews \subseteq Nat \ {0} /\ MaxDelay \in Nat /\ StateTimeout \in Nat /\ BoundedTtl \in Nat
  BY PtpAssumption
<1>1. CASE Tick
  <2>1. /\ now' = now + 1
        /\ UNCHANGED <<dev, realSync, syncs, flight, mon, heard, evidence>>
        /\ \A c \in Channels : \A r \in flight[c] : now - r.sent < MaxDelay
    BY <1>1 DEF Tick
  <2>2. DeviceTrue'
    BY <2>1 DEF DeviceTrue
  <2>3. ReportsTrue'
    BY <1>0, <2>1 DEF ReportsTrue, Reports, Genuine, DeviceTrue
  <2>4. (MonitorTrue /\ OneStretch)'
    BY <2>1 DEF MonitorTrue, OneStretch, SyncedBy, Genuine
  <2> QED BY <2>2, <2>3, <2>4
<1>2. ASSUME NEW s \in Skews, Synchronise(s) PROVE PtpInv'
  <2>1. /\ realSync # now /\ realSync' = now /\ syncs' = syncs + 1
        /\ dev' = [skew |-> s, lastSync |-> now + s]
        /\ UNCHANGED <<now, flight, mon, heard, evidence>>
    BY <1>2 DEF Synchronise
  <2>2. DeviceTrue'
    BY <1>0, <2>1 DEF DeviceTrue
  <2>3. \A k, t \in Nat : Genuine(k, t) => Genuine(k, t)'
    BY <2>1 DEF Genuine, DeviceTrue
  <2>4. ReportsTrue'
    BY <1>0, <2>1, <2>3 DEF ReportsTrue, Reports
  <2>5. \A t \in Int, age \in Nat : SyncedBy(t, age) => SyncedBy(t, age)'
    BY <1>0, <2>1 DEF SyncedBy, DeviceTrue
  <2>6. MonitorTrue'
    BY <1>0, <2>1, <2>5 DEF MonitorTrue, Members
  <2>7. OneStretch'
    BY <1>0, <2>1, <2>3 DEF OneStretch, MonitorTrue, Members, DeviceTrue
  <2> QED BY <2>2, <2>4, <2>6, <2>7
<1>3. ASSUME NEW c \in Channels, NEW reading \in Readings, Send(c, reading) PROVE PtpInv'
  <2> DEFINE r == [sent |-> now, skew |-> dev.skew, local |-> now + dev.skew,
                   lastSync |-> dev.lastSync, type |-> reading.type, offset |-> reading.offset]
  <2>1. /\ flight' = [flight EXCEPT ![c] = {r}]
        /\ UNCHANGED <<now, dev, realSync, syncs, mon, heard, evidence>>
    BY <1>3 DEF Send
  <2>2. reading.type \in Nat /\ reading.offset \in Nat
    BY PtpAssumption
  <2>3. /\ now \in Nat /\ dev.skew \in Skews /\ dev.skew \in Nat /\ dev.lastSync \in Nat
        /\ now + dev.skew \in Nat
    <3>1. now \in Nat /\ dev.skew \in Skews /\ dev.lastSync \in Nat
      BY DEF DeviceTrue
    <3>2. dev.skew \in Nat
      BY <1>0, <3>1
    <3> QED BY <3>1, <3>2
  <2>9. r \in Reports
    BY <2>2, <2>3 DEF Reports
  <2>4. r.sent = now /\ r.local = r.sent + r.skew /\ Genuine(r.skew, r.lastSync)
    BY <2>3 DEF Genuine, DeviceTrue
  <2> HIDE DEF r
  <2>5. flight' \in [Channels -> SUBSET Reports]
    BY <2>1, <2>9 DEF MonitorTrue
  <2>6. ReportsTrue'
    BY <1>0, <2>1, <2>4, <2>9 DEF ReportsTrue, MonitorTrue, DeviceTrue, Genuine
  <2>7. (DeviceTrue /\ MonitorTrue /\ OneStretch)'
    BY <2>1, <2>5 DEF DeviceTrue, MonitorTrue, OneStretch, SyncedBy, Genuine
  <2> QED BY <2>6, <2>7
<1>4. ASSUME NEW c \in Channels, Lose(c) PROVE PtpInv'
  <2>1. /\ flight' = [flight EXCEPT ![c] = {}]
        /\ UNCHANGED <<now, dev, realSync, syncs, mon, heard, evidence>>
    BY <1>4 DEF Lose
  <2>2. \A d \in Channels : flight'[d] \subseteq flight[d]
    BY <2>1 DEF MonitorTrue
  <2>3. ReportsTrue'
    BY <2>1, <2>2 DEF ReportsTrue, Genuine
  <2>4. (DeviceTrue /\ MonitorTrue /\ OneStretch)'
    BY <2>1 DEF DeviceTrue, MonitorTrue, OneStretch, SyncedBy, Genuine
  <2> QED BY <2>3, <2>4
<1>5. CASE UNCHANGED vars
  BY <1>5 DEF vars, DeviceTrue, ReportsTrue, MonitorTrue, OneStretch, SyncedBy, Genuine
<1> QED BY <1>1, <1>2, <1>3, <1>4, <1>5

----------------------------------------------------------------------------
(* Monitor::ObserveTimeSync. *)

\* Setting bounded_ members to values of their types.
LEMMA MembersSet ==
  ASSUME NEW m \in Members, NEW local \in Nat, NEW last \in Nat, NEW sample \in Int,
         NEW offset \in Nat, NEW n \in 0 .. 2, NEW t \in Int
  PROVE  [m EXCEPT !.bSeen = TRUE, !.bLocal = local, !.bLastSync = last, !.bSample = sample,
                   !.bOffset = offset, !.bAdvances = n, !.bAdvance = t] \in Members
BY DEF Members

\* The same for the members that are not bounded_.
LEMMA VerificationSet ==
  ASSUME NEW m \in Members, NEW last \in Nat, NEW t \in Int
  PROVE  /\ [m EXCEPT !.verified = FALSE] \in Members
         /\ [m EXCEPT !.lastSync = last, !.syncTime = t, !.verified = TRUE] \in Members
BY DEF Members

\* A report both kinds of evidence accept was sent when the lidar had last
\* synchronised at most age before.
LEMMA WithinIsLive ==
  ASSUME PtpInv, NEW c \in Channels, NEW r \in flight[c], NEW age \in Nat, NEW offset \in Nat,
         PtpWithin(r, age, offset)
  PROVE  SyncedBy(now, age) /\ r.lastSync # 0
<1>1. /\ r \in Reports /\ r.sent =< now /\ now - r.sent =< MaxDelay
      /\ r.local = r.sent + r.skew /\ Genuine(r.skew, r.lastSync)
  BY DEF PtpInv, ReportsTrue
<1>2. r.lastSync # 0 /\ r.local - r.lastSync =< age
  BY DEF PtpWithin
<1>3. r.skew \in Nat /\ realSync \in Int /\ now \in Nat /\ MaxDelay \in Nat
  BY <1>1, PtpAssumption DEF Reports, PtpInv, DeviceTrue
<1>4. syncs >= 1 /\ r.lastSync - r.skew =< realSync
  BY <1>1, <1>2 DEF Genuine
<1> QED BY <1>1, <1>2, <1>3, <1>4 DEF SyncedBy, Reports

\* Two reports whose clocks moved as the host's did come from one stretch of
\* the lidar's clock.
LEMMA SameStretch ==
  ASSUME PtpInv, NEW c \in Channels, NEW r \in flight[c], ClockContinuous(r)
  PROVE  mon.bSeen /\ evidence = {r.skew} /\ Genuine(r.skew, mon.bLastSync)
<1>1. /\ r \in Reports /\ r.sent =< now /\ now - r.sent =< MaxDelay
      /\ r.local = r.sent + r.skew
  BY DEF PtpInv, ReportsTrue
<1>2. mon.bSeen /\ r.local - mon.bLocal = now - mon.bSample
  BY DEF ClockContinuous
<1>3. PICK k \in Skews :
        /\ evidence = {k}
        /\ mon.bLocal - k =< mon.bSample /\ mon.bSample - (mon.bLocal - k) =< MaxDelay
        /\ Genuine(k, mon.bLastSync)
  BY <1>2 DEF PtpInv, OneStretch
<1>4. r.skew \in Skews /\ k \in Nat /\ r.skew \in Nat /\ MaxDelay \in Nat
  BY <1>1, PtpAssumption DEF Reports
<1>5. /\ r.sent \in Nat /\ r.local \in Nat /\ now \in Nat
      /\ mon.bLocal \in Nat /\ mon.bSample \in Int
  BY <1>1 DEF Reports, PtpInv, DeviceTrue, MonitorTrue, Members
<1>6. r.skew - k =< MaxDelay /\ k - r.skew =< MaxDelay
  BY <1>1, <1>2, <1>3, <1>4, <1>5
<1>7. ~(k < r.skew) /\ ~(r.skew < k)
  BY <1>4, <1>6, PtpAssumption
<1> QED BY <1>2, <1>3, <1>4, <1>7

\* A report that arrives keeps the invariant.
LEMMA ObserveKeepsPtp ==
  ASSUME PtpInv, NEW c \in Channels, ObserveTimeSync(c)
  PROVE  PtpInv'
<1> USE DEF PtpInv
<1>0. /\ Skews \subseteq Nat \ {0} /\ MaxDelay \in Nat /\ StateTimeout \in Nat /\ BoundedTtl \in Nat
      /\ MaxSyncOffset \in Nat /\ BoundedOffset \in Nat
  BY PtpAssumption
<1>1. PICK r \in flight[c] :
        /\ flight' = [flight EXCEPT ![c] = {}]
        /\ mon' = LET m == ObserveBounded(r) IN
                  IF Revokes(r) THEN [m EXCEPT !.verified = FALSE]
                  ELSE IF Advances(r)
                    THEN [m EXCEPT !.lastSync = r.lastSync, !.syncTime = now, !.verified = TRUE]
                    ELSE m
        /\ heard' = IF mon'.lastSync # mon.lastSync THEN now ELSE heard
        /\ evidence' = {r.skew} \union (IF mon'.bAdvances = 0 THEN {} ELSE evidence)
        /\ UNCHANGED <<now, dev, realSync, syncs>>
  BY DEF ObserveTimeSync, deviceVars
<1>2. /\ r \in Reports /\ r.sent =< now /\ now - r.sent =< MaxDelay
      /\ r.local = r.sent + r.skew /\ Genuine(r.skew, r.lastSync)
  BY DEF ReportsTrue
<1>3. /\ r.sent \in Nat /\ r.skew \in Skews /\ r.skew \in Nat /\ r.local \in Nat
      /\ r.lastSync \in Nat /\ r.offset \in Nat /\ now \in Nat
  BY <1>0, <1>2 DEF Reports, DeviceTrue
<1>4. /\ DeviceTrue' /\ ReportsTrue'
      /\ flight' \in [Channels -> SUBSET Reports]
  <2>1. \A d \in Channels : flight'[d] \subseteq flight[d]
    BY <1>1 DEF MonitorTrue
  <2> QED BY <1>1, <2>1 DEF DeviceTrue, ReportsTrue, Genuine, MonitorTrue
<1> DEFINE supported == Bounded(r) /\ ClockContinuous(r)
           stepped == supported /\ r.lastSync > mon.bLastSync
<1>5. /\ mon'.bSeen = TRUE /\ mon'.bLocal = r.local /\ mon'.bLastSync = r.lastSync
      /\ mon'.bSample = now /\ mon'.bOffset = r.offset
      /\ mon'.bAdvances = IF ~supported THEN 0
                          ELSE IF stepped THEN CountAdvance(mon.bAdvances) ELSE mon.bAdvances
      /\ mon'.bAdvance = IF stepped THEN now ELSE mon.bAdvance
  BY <1>1 DEF ObserveBounded, MonitorTrue, Members
<1>6. \/ Revokes(r) /\ mon'.lastSync = mon.lastSync /\ mon'.syncTime = mon.syncTime /\ mon'.verified = FALSE
      \/ /\ ~Revokes(r) /\ Advances(r)
         /\ mon'.lastSync = r.lastSync /\ mon'.syncTime = now /\ mon'.verified = TRUE
      \/ /\ ~Revokes(r) /\ ~Advances(r)
         /\ mon'.lastSync = mon.lastSync /\ mon'.syncTime = mon.syncTime /\ mon'.verified = mon.verified
  BY <1>1 DEF ObserveBounded, MonitorTrue, Members
<1>7. ASSUME stepped PROVE SyncedBy(now, BoundedTtl) /\ r.lastSync # 0
  BY <1>0, <1>7, WithinIsLive DEF Bounded
<1>8. ASSUME ~Revokes(r) PROVE SyncedBy(now, StateTimeout) /\ r.lastSync # 0
  BY <1>0, <1>8, WithinIsLive DEF Revokes, Healthy
<1>9. ASSUME supported PROVE mon.bSeen /\ evidence = {r.skew} /\ Genuine(r.skew, mon.bLastSync) /\ mon.bLastSync =< r.lastSync
  <2>1. mon.bSeen /\ evidence = {r.skew} /\ Genuine(r.skew, mon.bLastSync)
    BY <1>9, SameStretch
  <2> QED BY <1>9, <2>1 DEF Bounded
<1> HIDE DEF supported, stepped
<1>10. mon' \in Members
  <2>1. mon'.bAdvances \in 0 .. 2
    BY <1>5 DEF MonitorTrue, Members, CountAdvance
  <2>2. mon'.bAdvance \in Int
    BY <1>3, <1>5 DEF MonitorTrue, Members
  <2> DEFINE m == ObserveBounded(r)
             n == mon'.bAdvances
             t == mon'.bAdvance
  <2>3. m.bAdvances = n /\ m.bAdvance = t
    BY <1>1 DEF ObserveBounded, MonitorTrue, Members
  <2>4. m = [mon EXCEPT !.bSeen = TRUE, !.bLocal = r.local, !.bLastSync = r.lastSync,
                        !.bSample = now, !.bOffset = r.offset, !.bAdvances = n, !.bAdvance = t]
    BY <2>3 DEF ObserveBounded, MonitorTrue, Members
  <2>5. m \in Members
    <3>1. mon \in Members
      BY DEF MonitorTrue
    <3>2. n \in 0 .. 2 /\ t \in Int /\ now \in Int
      BY <1>3, <2>1, <2>2
    <3> HIDE DEF m, n, t
    <3> QED BY <1>3, <2>4, <3>1, <3>2, MembersSet
  <2> HIDE DEF m, n, t
  <2>6. \/ mon' = [m EXCEPT !.verified = FALSE]
        \/ mon' = [m EXCEPT !.lastSync = r.lastSync, !.syncTime = now, !.verified = TRUE]
        \/ mon' = m
    BY <1>1 DEF m
  <2>7. now \in Int
    BY <1>3
  <2>8. /\ [m EXCEPT !.verified = FALSE] \in Members
        /\ [m EXCEPT !.lastSync = r.lastSync, !.syncTime = now, !.verified = TRUE] \in Members
    BY <1>3, <2>5, <2>7, VerificationSet
  <2> QED BY <2>5, <2>6, <2>8
<1>11. MonitorTrue'
  <2>1. SyncedBy(mon'.syncTime, StateTimeout) /\ SyncedBy(mon'.bAdvance, BoundedTtl)
    BY <1>5, <1>6, <1>7, <1>8 DEF MonitorTrue
  <2>2. SyncedBy(mon.syncTime, StateTimeout)' /\ SyncedBy(mon.bAdvance, BoundedTtl)'
    BY <1>1, <2>1 DEF SyncedBy
  <2>3. now # Never
    BY <1>3 DEF Never
  <2>4. mon'.verified => mon'.syncTime # Never
    BY <1>6, <2>3 DEF MonitorTrue
  <2>5. mon'.syncTime = Never => mon'.lastSync = 0
    BY <1>6, <2>3 DEF MonitorTrue
  <2>6. mon'.lastSync \in Nat /\ mon.lastSync \in Nat /\ heard' \in Int
    BY <1>1, <1>3, <1>10 DEF MonitorTrue, Members
  <2>7. mon'.syncTime # Never => heard' = mon'.syncTime
    <3>1. CASE ~Revokes(r) /\ Advances(r)
      <4>1. r.lastSync # mon.lastSync
        BY <1>3, <1>8, <2>6, <3>1 DEF Advances, MonitorTrue
      <4> QED BY <1>1, <1>6, <3>1, <4>1
    <3>2. CASE Revokes(r) \/ ~Advances(r)
      BY <1>1, <1>6, <3>2 DEF MonitorTrue
    <3> QED BY <3>1, <3>2
  <2> QED BY <1>4, <1>10, <2>2, <2>4, <2>5, <2>6, <2>7 DEF MonitorTrue
<1>12. OneStretch'
  <2>1. evidence' = {r.skew}
    BY <1>1, <1>5, <1>9
  <2>2. Genuine(r.skew, r.lastSync)'
    BY <1>1, <1>2 DEF Genuine
  <2>3. r.local - r.skew =< now /\ now - (r.local - r.skew) =< MaxDelay
    BY <1>2, <1>3
  <2>4. mon'.bAdvances >= 1 => r.lastSync # 0
    BY <1>3, <1>5, <1>7, <1>9 DEF OneStretch, MonitorTrue, Members
  <2>5. ASSUME mon'.bAdvances = 2 PROVE syncs >= 2
    <3>1. supported /\ mon.bAdvances \in 0 .. 2 /\ (mon.bAdvances = 2 \/ (stepped /\ mon.bAdvances = 1))
      BY <1>5, <2>5 DEF CountAdvance, MonitorTrue, Members
    <3>2. CASE mon.bAdvances = 2
      BY <3>2 DEF OneStretch
    <3>3. CASE stepped /\ mon.bAdvances = 1
      <4>1. mon.bLastSync # 0 /\ r.lastSync # 0 /\ r.lastSync > mon.bLastSync
        BY <1>7, <3>3 DEF OneStretch, stepped
      <4>2. syncs = 1 => r.lastSync = mon.bLastSync
        BY <1>2, <1>9, <3>1, <4>1 DEF Genuine
      <4>3. syncs >= 1 /\ syncs \in Nat /\ mon.bLastSync \in Nat
        BY <1>2, <4>1 DEF Genuine, DeviceTrue, MonitorTrue, Members
      <4> QED BY <1>3, <4>1, <4>2, <4>3
    <3> QED BY <3>1, <3>2, <3>3
  <2> QED BY <1>1, <1>3, <1>5, <2>1, <2>2, <2>3, <2>4, <2>5 DEF OneStretch
<1> QED BY <1>4, <1>11, <1>12

\* Every step keeps the invariant.
LEMMA PtpInvariant == Spec => []PtpInv
<1>1. PtpInv /\ [Next]_vars => PtpInv'
  BY LidarKeepsPtp, ObserveKeepsPtp DEF Next
<1> QED BY PtpInit, <1>1, PTL DEF Spec

----------------------------------------------------------------------------
(* Results. *)

\* Monitor::Evaluate sets GPS warnings aside only for a lidar whose clock
\* really was synchronised by PTP within twice state_timeout and the delay of
\* a report, whatever is lost, late, repeated or out of order.
THEOREM MaskedOnlyWhenAlive == Spec => []MaskNeedsLiveSync
<1>1. PtpInv => MaskNeedsLiveSync
  <2> SUFFICES ASSUME PtpInv, HealthyPtp
               PROVE  realSync # Never /\ now - realSync <= 2 * StateTimeout + MaxDelay
    BY DEF MaskNeedsLiveSync
  <2>1. mon.syncTime # Never /\ now - mon.syncTime <= StateTimeout
    BY DEF HealthyPtp, Fresh
  <2>2. syncs >= 1 /\ mon.syncTime - realSync =< StateTimeout + MaxDelay /\ realSync >= 0
    BY <2>1 DEF PtpInv, MonitorTrue, DeviceTrue, SyncedBy
  <2>3. /\ mon.syncTime \in Int /\ realSync \in Int /\ now \in Int
        /\ StateTimeout \in Nat /\ MaxDelay \in Nat
    BY PtpAssumption DEF PtpInv, DeviceTrue, MonitorTrue, Members
  <2> QED BY <2>1, <2>2, <2>3 DEF Never
<1> QED BY <1>1, PtpInvariant, PTL

\* Repeated reports of one synchronisation never prolong its evidence: it ends
\* state_timeout after the first of them.
THEOREM RepeatsAddNothing == Spec => []RepeatIsNoEvidence
<1>1. PtpInv => RepeatIsNoEvidence
  BY DEF PtpInv, MonitorTrue, RepeatIsNoEvidence, HealthyPtp, Fresh
<1> QED BY <1>1, PtpInvariant, PTL

\* An accuracy warning is bounded only on evidence from one stretch of the
\* lidar's clock, with two synchronisations behind it and the last one recent.
THEOREM BoundedOnOneStretch == Spec => []BoundedIsBacked
<1>1. PtpInv => BoundedIsBacked
  <2> SUFFICES ASSUME PtpInv, BoundedEvidence
               PROVE  /\ Cardinality(evidence) = 1
                      /\ syncs >= 2 /\ now - realSync <= 2 * BoundedTtl + MaxDelay
    BY DEF BoundedIsBacked
  <2>1. mon.bAdvances = 2 /\ mon.bAdvance # Never /\ now - mon.bAdvance <= BoundedTtl
    BY DEF BoundedEvidence, Fresh, PtpInv, MonitorTrue, Members
  <2>2. syncs >= 2 /\ \E k \in Skews : evidence = {k}
    BY <2>1 DEF PtpInv, OneStretch
  <2>3. Cardinality(evidence) = 1
    BY <2>2, FS_Singleton
  <2>4. mon.bAdvance - realSync =< BoundedTtl + MaxDelay
    BY <2>1 DEF PtpInv, MonitorTrue, SyncedBy
  <2>5. /\ mon.bAdvance \in Int /\ realSync \in Int /\ now \in Int
        /\ BoundedTtl \in Nat /\ MaxDelay \in Nat
    BY PtpAssumption DEF PtpInv, DeviceTrue, MonitorTrue, Members
  <2> QED BY <2>1, <2>2, <2>3, <2>4, <2>5
<1> QED BY <1>1, PtpInvariant, PTL
=============================================================================
