----------------------------- MODULE DtcMonitor -----------------------------
(***************************************************************************)
(* The diagnostic monitor of one lidar (lidar_dtc_monitor.h), the SDK      *)
(* callbacks and the query timer that feed it (lds_lidar.cpp), and the     *)
(* timer that turns its snapshots into the heartbeat's active faults       *)
(* (lidar_dtc_reporting.h, livox_ros_driver2.cpp).                         *)
(*                                                                         *)
(* The lidar is part of the model, so that a verdict can be compared with  *)
(* what the lidar really did: it raises and drops alarms, changes its work *)
(* state, streams or not, and may have its clock set back.  A report shows *)
(* a state the lidar had at most MaxDelay ago; reports are lost, repeated  *)
(* and overtake each other.  Times are kept as ages that stop growing once *)
(* nothing tells them apart, so time itself is not bounded.  A tick is     *)
(* much longer than a callback.  What the monitor concludes about PTP is   *)
(* the subject of PtpEvidence, and arbitrary here.                         *)
(***************************************************************************)
EXTENDS Integers, FiniteSets

CONSTANTS
  DataTimeout, StateTimeout, StartupGrace,  \* MonitorConfig
  Lidars,      \* how the lidar can behave, as records: the alarms the eight
               \* HMS codes can show, the values of cur_work_state,
               \* whether it streams, and how often its clock is set back
  MaxDelay,    \* how long a report, or a cloud in the queue, can be under way
  MaxChanges,  \* bound: earlier states of the lidar that reports can show
  SetBack      \* how far the lidar's clock is set back

\* The alarms the policy tells apart: an accuracy warning (0x0406), a GPS or
\* PPS warning (0x0404, 0x0407-0x0409), any other alarm of the time category,
\* a fatal alarm of the hardware category, an alarm of the synchronisation
\* history (0x0405), and an id of no category.
Alarms == {"accuracy", "gps", "lost", "fatal", "past", "unknown"}
Categories == {"time", "hardware", "syncHistory"}
History == {"syncHistory"}

Category(a) ==
  CASE a \in {"accuracy", "gps", "lost"} -> "time"
    [] a = "fatal" -> "hardware"
    [] a = "past" -> "syncHistory"
    [] OTHER -> "none"

Cats(as) == {Category(a) : a \in as} \intersect Categories

\* The age of the oldest contents that can still be believed.
Reach == StateTimeout + MaxDelay

ASSUME DtcAssumption ==
  /\ DataTimeout \in Nat /\ StateTimeout \in Nat /\ StartupGrace \in Nat
  /\ MaxDelay \in Nat /\ MaxChanges \in Nat /\ SetBack \in Nat
  /\ \A l \in Lidars :
       /\ l.alarms \subseteq SUBSET Alarms /\ {} \in l.alarms
       /\ l.work \subseteq Nat /\ 1 \in l.work
       /\ l.streaming \subseteq BOOLEAN /\ TRUE \in l.streaming
       /\ l.setBacks \in Nat

VARIABLES
  lidar,     \* which of Lidars it is
  dev,       \* its state: alarms, work, streaming
  past,      \* earlier alarms and work states that a report can still show
  ahead,     \* valid_stamp_ minus the lidar's present stamp; -1 if it is behind
  setBacks,  \* bound
  uptime,    \* now - start_, up to StartupGrace
  pending,   \* diagnostic_query_pending_
  asked,     \* the SDK has a query to answer
  mon,       \* the members of Monitor, times as ages
  usability, \* of the last snapshot
  evaluated, \* the diagnostic timer has fired in this tick
  active,    \* active_faults_ of the heartbeat
  raised,    \* history: age of each alarm
  abnormal, silent  \* history: for how long the work state is not 1, and for
                    \* how long nothing has been streamed

deviceVars == <<lidar, dev, past, raised, abnormal, silent>>
queryVars == <<pending, asked>>
timerVars == <<usability, evaluated, active>>
vars == <<deviceVars, ahead, setBacks, uptime, queryVars, mon, timerVars>>

\* One tick more, as far as it matters.
Older(age, limit) == IF age <= limit THEN age + 1 ELSE age

Init ==
  /\ lidar \in Lidars
  /\ dev = [alarms |-> {}, work |-> 1, streaming |-> TRUE]
  /\ past = {}
  /\ ahead = -1 /\ setBacks = 0 /\ uptime = 0
  /\ pending = FALSE /\ asked = FALSE
  /\ mon = [hms |-> {}, hmsAge |-> StateTimeout + 1,
            work |-> 0, stateAge |-> StateTimeout + 1,
            packetAge |-> DataTimeout + 1, validAge |-> DataTimeout + 1, validSeen |-> FALSE]
  /\ usability = "unknown" /\ evaluated = FALSE /\ active = {}
  /\ raised = [a \in Alarms |-> 0] /\ abnormal = 0 /\ silent = 0

----------------------------------------------------------------------------
(* The lidar. *)

\* Packets and clouds of a streaming lidar come in more often than a tick, and
\* so does the 100 ms timer.
Tick ==
  /\ evaluated
  /\ dev.streaming => mon.packetAge = 0 /\ ahead >= 0
  /\ evaluated' = FALSE
  /\ uptime' = IF uptime < StartupGrace THEN uptime + 1 ELSE uptime
  /\ ahead' = IF ahead > -1 THEN ahead - 1 ELSE ahead
  /\ past' = {[p EXCEPT !.age = @ + 1] : p \in {q \in past : q.age < MaxDelay}}
  /\ mon' = [mon EXCEPT !.hmsAge = Older(@, StateTimeout), !.stateAge = Older(@, StateTimeout),
                        !.packetAge = Older(@, DataTimeout), !.validAge = Older(@, DataTimeout)]
  /\ raised' = [a \in Alarms |-> IF a \in dev.alarms THEN Older(raised[a], Reach) ELSE 0]
  /\ abnormal' = IF dev.work = 1 THEN 0 ELSE Older(abnormal, Reach)
  /\ silent' = IF dev.streaming THEN 0 ELSE Older(silent, DataTimeout)
  /\ UNCHANGED <<lidar, dev, setBacks, queryVars, usability, active>>

\* Something about the lidar changes.
Change(d) ==
  LET was == [alarms |-> dev.alarms, work |-> dev.work, age |-> 0] IN
  /\ d # dev /\ dev' = d
  /\ past' = {p \in past : p.alarms # dev.alarms \/ p.work # dev.work} \union {was}
  /\ Cardinality(past') <= MaxChanges
  /\ raised' = [a \in Alarms |-> IF a \in d.alarms /\ a \in dev.alarms THEN raised[a] ELSE 0]
  /\ abnormal' = IF d.work = 1 \/ dev.work = 1 THEN 0 ELSE abnormal
  /\ silent' = IF d.streaming \/ dev.streaming THEN 0 ELSE silent
  /\ UNCHANGED <<lidar, ahead, setBacks, uptime, queryVars, mon, timerVars>>

\* The clock behind the stamps of the clouds is set back.
SetClockBack ==
  /\ setBacks < lidar.setBacks /\ mon.validSeen
  /\ setBacks' = setBacks + 1 /\ ahead' = ahead + SetBack
  /\ UNCHANGED <<deviceVars, uptime, queryVars, mon, timerVars>>

----------------------------------------------------------------------------
(* Monitor::Observe*, and the callbacks of LdsLidar that call them. *)

\* What a report received now can show: the present or an earlier state.
Reports == past \union {[alarms |-> dev.alarms, work |-> dev.work, age |-> 0]}

\* The fields of a report that are there and well formed.
Fields == {{"work"}, {"hms"}, {"work", "hms"}}

\* ObserveWorkState and ObserveHms.
Observe(r, fields) ==
  LET m == IF "work" \in fields THEN [mon EXCEPT !.work = r.work, !.stateAge = 0] ELSE mon IN
  IF "hms" \in fields THEN [m EXCEPT !.hms = r.alarms, !.hmsAge = 0] ELSE m

\* A push.  The Observe calls are separate critical sections, and a query
\* callback can come between them; as any field may also be absent or
\* malformed, a sequence of partial reports is each such interleaving.
DiagnosticStatusCallback ==
  /\ \E r \in Reports, f \in Fields : mon' = Observe(r, f)
  /\ UNCHANGED <<deviceVars, ahead, setBacks, uptime, queryVars, timerVars>>

\* DiagnosticPacketCallback, for a packet of points.
ObservePacket ==
  /\ dev.streaming
  /\ mon' = [mon EXCEPT !.packetAge = 0]
  /\ UNCHANGED <<deviceVars, ahead, setBacks, uptime, queryVars, timerVars>>

\* ObserveDiagnosticCloud: only a later stamp with enough valid points counts.
\* The cloud is the present one, or has waited in the queue, also while the
\* lidar fell silent, and its stamp is behind the present.
ObserveCloud ==
  /\ ahead = -1
  /\ \/ dev.streaming /\ ahead' = 0
     \/ (dev.streaming \/ silent <= MaxDelay) /\ UNCHANGED ahead
  /\ mon' = [mon EXCEPT !.validAge = 0, !.validSeen = TRUE]
  /\ UNCHANGED <<deviceVars, setBacks, uptime, queryVars, timerVars>>

\* The query timer.  While a query is pending nothing is sent; a query the SDK
\* does not take clears the flag again, which is no change.
QueryDiagnosticStatus ==
  /\ ~pending /\ pending' = TRUE
  /\ asked' = TRUE
  /\ UNCHANGED <<deviceVars, ahead, setBacks, uptime, mon, timerVars>>

\* DiagnosticQueryCallback for an answer, some fields of which may be missing.
QueryAnswered(fields) ==
  /\ asked /\ asked' = FALSE /\ pending' = FALSE
  /\ \E r \in Reports : mon' = Observe(r, fields)
  /\ UNCHANGED <<deviceVars, ahead, setBacks, uptime, timerVars>>

\* Mutant of QueryFailed: the flag is cleared only for an answer.
QueryFailedPending ==
  /\ asked /\ asked' = FALSE
  /\ UNCHANGED <<deviceVars, ahead, setBacks, uptime, pending, mon, timerVars>>

\* DiagnosticQueryCallback for a timeout, an error or a malformed answer.
QueryFailed ==
  /\ asked /\ asked' = FALSE /\ pending' = FALSE
  /\ UNCHANGED <<deviceVars, ahead, setBacks, uptime, mon, timerVars>>

----------------------------------------------------------------------------
(* Monitor::Evaluate, at the present moment; healthyPtp and bounded are the *)
(* two verdicts of PtpEvidence.                                             *)

HmsFresh == mon.hmsAge <= StateTimeout

\* Mutant of StateFresh: a work state once seen stays fresh.
StateSeen == mon.work # 0

StateFresh == mon.stateAge <= StateTimeout

Failing(healthyPtp) ==
  IF HmsFresh THEN Cats(mon.hms \ (IF healthyPtp THEN {"gps"} ELSE {})) ELSE {}
Passing(healthyPtp) == IF HmsFresh THEN Categories \ Failing(healthyPtp) ELSE {}

Usability ==
  LET data == mon.validAge <= DataTimeout /\ mon.packetAge <= DataTimeout
      grace == uptime < StartupGrace IN
  IF \/ HmsFresh /\ "fatal" \in mon.hms
     \/ StateFresh /\ mon.work = 4
     \/ ~data /\ (mon.validSeen \/ ~grace)
  THEN "unusable"
  ELSE IF data /\ HmsFresh /\ StateFresh /\ mon.work = 1 THEN "usable"
  ELSE IF StateFresh /\ mon.work # 1 /\ ~grace THEN "unusable"
  ELSE "unknown"

\* incompatible_sync_alarm: the alarms that forbid a bounded warning.
Incompatible == mon.hms \intersect {"lost", "unknown"}

BoundedTimeSyncWarning(bounded) ==
  /\ HmsFresh /\ "accuracy" \in mon.hms /\ Incompatible = {}
  /\ Usability = "usable" /\ bounded

\* Mutants of PublishDiagnosticSnapshot: passed categories are not handed on;
\* a category without verdict counts as passed.
PublishFailedOnly(healthyPtp) ==
  active' = active \union (Failing(healthyPtp) \ History)
PublishUnknownAsPassed(healthyPtp) ==
  active' = Failing(healthyPtp) \ History
\* PublishDiagnosticSnapshot hands the current categories to UpdateFaults;
\* what has neither failed nor passed stays as it is.
PublishDiagnosticSnapshot(healthyPtp) ==
  active' = (active \ (Passing(healthyPtp) \ History))
              \union (Failing(healthyPtp) \ History)

\* The diagnostic timer evaluates and publishes.
DiagnosticTimer(healthyPtp) ==
  /\ usability' = Usability /\ evaluated' = TRUE
  /\ PublishDiagnosticSnapshot(healthyPtp)
  /\ UNCHANGED <<deviceVars, ahead, setBacks, uptime, queryVars, mon>>

----------------------------------------------------------------------------
Next ==
  \/ Tick
  \/ \E a \in lidar.alarms : Change([dev EXCEPT !.alarms = a])
  \/ \E w \in lidar.work : Change([dev EXCEPT !.work = w])
  \/ \E b \in lidar.streaming : Change([dev EXCEPT !.streaming = b])
  \/ SetClockBack
  \/ DiagnosticStatusCallback \/ ObservePacket \/ ObserveCloud
  \/ QueryDiagnosticStatus \/ QueryFailed
  \/ \E f \in Fields : QueryAnswered(f)
  \/ \E p \in BOOLEAN : DiagnosticTimer(p)

Spec == Init /\ [][Next]_vars

\* The timers fire and a streaming lidar's data comes in; the SDK returns every
\* query, if only with a timeout, and again and again with a full answer.
\* Pushes need not come at all.
Fairness ==
  /\ WF_vars(Tick) /\ WF_vars(ObservePacket) /\ WF_vars(ObserveCloud)
  /\ WF_vars(~evaluated /\ \E p \in BOOLEAN : DiagnosticTimer(p))
  /\ WF_vars(QueryDiagnosticStatus)
  /\ WF_vars(QueryFailed \/ \E f \in Fields : QueryAnswered(f))
  /\ SF_vars(QueryAnswered({"work", "hms"}))

FairSpec == Spec /\ Fairness

----------------------------------------------------------------------------
(* Properties. *)

\* A lidar is called usable only if it really was in order a short while ago:
\* it streamed within data_timeout, and within state_timeout and the delay of
\* a report it was in its normal work state and without a fatal alarm.  Its
\* warning is called bounded only if in that time it was also without alarms
\* that forbid a relaxed stop policy.
VerdictWasTrue ==
  Usability = "usable" =>
    /\ dev.streaming \/ silent <= DataTimeout
    /\ dev.work = 1 \/ abnormal <= Reach
    /\ \A a \in dev.alarms :
         (a = "fatal" \/ (a \in {"lost", "unknown"} /\ BoundedTimeSyncWarning(TRUE)))
           => raised[a] <= Reach

\* An active fault is cleared only if the lidar was really without it a short
\* while ago, GPS warnings under live PTP apart: lost and stale reports and
\* unanswered queries never clear one.
ClearedWasClear ==
  [][\A c \in active \ active' : \A a \in dev.alarms :
       Category(a) = c => a = "gps" \/ raised[a] <= Reach]_vars

\* Queries alone carry the lidar's alarms to the heartbeat, through timeouts
\* and errors: a fault that stays is active for good in the end, one that is
\* gone is inactive for good.
FaultsFollowAlarms ==
  \A c \in Categories \ History :
    /\ <>[](c \in Cats(dev.alarms \ {"gps"})) => <>[](c \in active)
    /\ <>[](c \notin Cats(dev.alarms)) => <>[](c \notin active)

\* A lidar that is in order is called usable again and again, also after its
\* clock was set back and its clouds counted for nothing for a while.
InOrderIsUsable ==
  <>[](dev.streaming /\ dev.work = 1 /\ "fatal" \notin dev.alarms)
    => []<>(usability = "usable")
=============================================================================
