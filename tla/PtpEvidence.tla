----------------------------- MODULE PtpEvidence -----------------------------
(***************************************************************************)
(* The evidence of live PTP synchronisation that Monitor::ObserveTimeSync  *)
(* (lidar_dtc_monitor.h) gathers from the reports of one lidar, and the    *)
(* two verdicts Monitor::Evaluate bases on it: whether GPS warnings may be *)
(* set aside, and whether an accuracy warning may be called bounded.       *)
(*                                                                         *)
(* The lidar is part of the model, so that a verdict can be compared with  *)
(* what the lidar really did.  It synchronises now and then, which may     *)
(* also set its clock, and reports its clock and its last synchronisation  *)
(* on two channels, pushes and answers to queries.  Reports are lost, late *)
(* by up to MaxDelay, repeat old contents and overtake each other.  A tick *)
(* is much longer than a callback and than the millisecond of tolerance in *)
(* the comparison of the clocks.                                           *)
(***************************************************************************)
EXTENDS Integers, FiniteSets

CONSTANTS
  StateTimeout, MaxSyncOffset,  \* MonitorConfig: state_timeout, max_sync_offset_ns
  BoundedTtl, BoundedOffset,    \* the fixed 2.5 s and 1 ms of the bounded warning
  Skews,     \* what the lidar's clock may be ahead of the host's
  Readings,  \* time_sync_type (1 is PTP) and absolute time_offset of a report
  MaxDelay,  \* how long a report can be under way
  MaxTime, MaxSyncs  \* bounds

ASSUME PtpAssumption ==
  /\ StateTimeout \in Nat /\ BoundedTtl \in Nat /\ MaxDelay \in Nat
  /\ MaxSyncOffset \in Nat /\ BoundedOffset \in Nat
  /\ MaxTime \in Nat /\ MaxSyncs \in Nat
  /\ Skews \subseteq Nat \ {0} /\ Readings \subseteq [type : Nat, offset : Nat]
  \* Setting the clock moves it by more than the delay of reports can hide.
  /\ \A s, t \in Skews : s < t => t - s > MaxDelay

Channels == {"push", "query"}
Never == -1

VARIABLES
  now,       \* steady_clock of the host
  dev,       \* the lidar: skew of its clock, last_sync_time
  flight,    \* the report under way on each channel, as a set
  sent,      \* bound: channels that have carried a report in this tick
  mon,       \* the members of Monitor that ObserveTimeSync writes
  realSync, syncs,  \* history: host time of the last synchronisation; how many
  heard,            \* history: when last_sync_ took its value
  evidence          \* history: clocks behind the reports since bounded_advances_ was 0

deviceVars == <<dev, realSync, syncs>>
monitorVars == <<mon, heard, evidence>>
vars == <<now, deviceVars, flight, sent, monitorVars>>

Init ==
  /\ now = 0
  /\ \E s \in Skews : dev = [skew |-> s, lastSync |-> 0]
  /\ flight = [c \in Channels |-> {}] /\ sent = {}
  /\ mon = [lastSync |-> 0, syncTime |-> Never, verified |-> FALSE,
            bSeen |-> FALSE, bAdvances |-> 0, bLocal |-> 0, bLastSync |-> 0,
            bOffset |-> 0, bSample |-> Never, bAdvance |-> Never]
  /\ realSync = Never /\ syncs = 0 /\ heard = Never /\ evidence = {}

----------------------------------------------------------------------------
(* The lidar and the network. *)

Tick ==
  /\ now < MaxTime
  /\ \A c \in Channels : \A r \in flight[c] : now - r.sent < MaxDelay
  /\ now' = now + 1 /\ sent' = {}
  /\ UNCHANGED <<deviceVars, flight, monitorVars>>

\* The lidar synchronises with its master, which may set its clock.
Synchronise(s) ==
  /\ syncs < MaxSyncs /\ realSync # now
  /\ dev' = [skew |-> s, lastSync |-> now + s]
  /\ realSync' = now /\ syncs' = syncs + 1
  /\ UNCHANGED <<now, flight, sent, monitorVars>>

\* One report a channel and tick: the SDK pushes once a second, and one query
\* at most is pending (DtcMonitor).
Send(c, reading) ==
  /\ flight[c] = {} /\ c \notin sent
  /\ sent' = sent \union {c}
  /\ flight' = [flight EXCEPT ![c] =
       {[sent |-> now, skew |-> dev.skew, local |-> now + dev.skew,
         lastSync |-> dev.lastSync, type |-> reading.type, offset |-> reading.offset]}]
  /\ UNCHANGED <<now, deviceVars, monitorVars>>

Lose(c) ==
  /\ flight[c] # {}
  /\ flight' = [flight EXCEPT ![c] = {}]
  /\ UNCHANGED <<now, sent, deviceVars, monitorVars>>

----------------------------------------------------------------------------
(* Monitor::ObserveTimeSync. *)

\* Mutant of ClockContinuous: only a clock that goes back is noticed.
ClockNotBack(r) == mon.bSeen /\ r.local >= mon.bLocal

\* The lidar's clock moved as far as the host's since the last report.
ClockContinuous(r) ==
  mon.bSeen /\ r.local >= mon.bLocal /\ r.local - mon.bLocal = now - mon.bSample

\* What both kinds of evidence require of a report.
PtpWithin(r, age, offset) ==
  /\ r.type = 1 /\ r.lastSync # 0 /\ r.local >= r.lastSync
  /\ r.local - r.lastSync <= age /\ r.offset <= offset

Bounded(r) ==
  PtpWithin(r, BoundedTtl, BoundedOffset) /\ (mon.bSeen => r.lastSync >= mon.bLastSync)

\* Mutant of Healthy: the age of the synchronisation is not tested.
HealthyAnyAge(r) == PtpWithin(r, MaxTime, MaxSyncOffset)

Healthy(r) == PtpWithin(r, StateTimeout, MaxSyncOffset)

\* Mutant of Advances: a report of the same synchronisation counts again.
AdvancesOrRepeats(r) == mon.syncTime = Never \/ r.lastSync >= mon.lastSync

Advances(r) == mon.syncTime = Never \/ r.lastSync > mon.lastSync

CountAdvance(n) == IF n < 2 THEN n + 1 ELSE 2

\* The bounded_ members after a report.
ObserveBounded(r) ==
  LET supported == Bounded(r) /\ ClockContinuous(r)
      stepped == supported /\ r.lastSync > mon.bLastSync IN
  [mon EXCEPT !.bSeen = TRUE, !.bLocal = r.local, !.bLastSync = r.lastSync,
              !.bSample = now, !.bOffset = r.offset,
              !.bAdvances = IF ~supported THEN 0
                            ELSE IF stepped THEN CountAdvance(@) ELSE @,
              !.bAdvance = IF stepped THEN now ELSE @]

\* The report takes the verification back.
Revokes(r) == ~Healthy(r) \/ (mon.syncTime # Never /\ r.lastSync < mon.lastSync)

\* A report arrives: DiagnosticStatusCallback or DiagnosticQueryCallback calls
\* ObserveTimeSync when all four time fields are there.
ObserveTimeSync(c) ==
  \E r \in flight[c] :
    /\ flight' = [flight EXCEPT ![c] = {}]
    /\ mon' = LET m == ObserveBounded(r) IN
              IF Revokes(r) THEN [m EXCEPT !.verified = FALSE]
              ELSE IF Advances(r)
                THEN [m EXCEPT !.lastSync = r.lastSync, !.syncTime = now, !.verified = TRUE]
                ELSE m
    /\ heard' = IF mon'.lastSync # mon.lastSync THEN now ELSE heard
    /\ evidence' = {r.skew} \union (IF mon'.bAdvances = 0 THEN {} ELSE evidence)
    /\ UNCHANGED <<now, sent, deviceVars>>

----------------------------------------------------------------------------
(* What Monitor::Evaluate makes of it at the present moment. *)

Fresh(t, timeout) == t # Never /\ now - t <= timeout

\* healthy_ptp: GPS and PPS warnings are set aside.
HealthyPtp == mon.verified /\ Fresh(mon.syncTime, StateTimeout)

\* The part of bounded_time_sync_warning that rests on the time reports.
BoundedEvidence ==
  /\ mon.bAdvances >= 2
  /\ Fresh(mon.bAdvance, BoundedTtl) /\ Fresh(mon.bAdvance, StateTimeout)
  /\ mon.bOffset <= BoundedOffset

Next ==
  \/ Tick
  \/ \E s \in Skews : Synchronise(s)
  \/ \E c \in Channels :
       \/ \E r \in Readings : Send(c, r)
       \/ Lose(c)
       \/ ObserveTimeSync(c)

Spec == Init /\ [][Next]_vars

----------------------------------------------------------------------------
(* Properties. *)

\* GPS warnings are set aside only while the lidar's PTP synchronisation is
\* really alive: the last synchronisation is no older than the age a report
\* may claim, its delay and the life of the evidence together, however
\* reports are lost, delayed, repeated and reordered.
MaskNeedsLiveSync ==
  HealthyPtp => realSync # Never /\ now - realSync <= 2 * StateTimeout + MaxDelay

\* "Repeated status queries must not refresh a frozen synchronization source"
\* (lidar_dtc_monitor.h): a moment of synchronisation is evidence for
\* state_timeout from its first report on, never longer.
RepeatIsNoEvidence == HealthyPtp => now - heard <= StateTimeout

\* A warning is bounded only for a lidar that synchronised at least twice and
\* is still doing so, as reports from one stretch of its clock show: no setting
\* of the clock between them goes unnoticed.
BoundedIsBacked ==
  BoundedEvidence =>
    /\ Cardinality(evidence) = 1
    /\ syncs >= 2 /\ now - realSync <= 2 * BoundedTtl + MaxDelay
=============================================================================
