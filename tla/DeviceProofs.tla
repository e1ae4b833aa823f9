---------------------------- MODULE DeviceProofs ----------------------------
(***************************************************************************)
(* Proofs about DeviceConfig, for any number of lidars and slots, any      *)
(* configuration file, and any number of reports, timeouts and refusals.   *)
(***************************************************************************)
EXTENDS DeviceConfig, WellFoundedInduction, TLAPS

----------------------------------------------------------------------------
(* Slots and settings. *)

\* A set of numbers that is not empty contains its minimum.
LEMMA MinBelongs ==
  ASSUME NEW T, T \subseteq Nat, T # {}
  PROVE  Min(T) \in T
<1>1. PICK x \in T : \A y \in T : ~(<<y, x>> \in OpToRel(<, Nat))
  BY WFMin, NatLessThanWellFounded
<1>2. ASSUME NEW y \in T PROVE x =< y
  <2>1. x \in Nat /\ y \in Nat
    OBVIOUS
  <2>2. ~(y < x)
    BY <1>1, <2>1 DEF OpToRel
  <2> QED BY <2>1, <2>2
<1> QED BY <1>2 DEF Min

\* GetFreeIndex returns the slot the lidar has, or one that no lidar has.
LEMMA FreeIndex ==
  ASSUME NEW h \in Handles, index \in [Handles -> SlotIds \union {None}]
  PROVE  /\ GetFreeIndex(h) \in SlotIds \union {None}
         /\ index[h] # None => GetFreeIndex(h) = index[h]
         /\ index[h] = None /\ GetFreeIndex(h) # None =>
              \A g \in Handles : index[g] # GetFreeIndex(h)
<1>1. CASE FreeSlots = {}
  BY <1>1 DEF GetFreeIndex
<1>2. CASE FreeSlots # {}
  <2>1. FreeSlots \subseteq Nat
    BY DeviceAssumption DEF FreeSlots, SlotIds
  <2>2. Min(FreeSlots) \in FreeSlots
    BY <1>2, <2>1, MinBelongs
  <2> QED BY <1>2, <2>2 DEF GetFreeIndex, FreeSlots
<1> QED BY <1>1, <1>2

\* Each entry of the file names a lidar and has its settings.
LEMMA FileEntry ==
  ASSUME NEW i \in 1 .. Len(UserConfigs)
  PROVE  UserConfigs[i] \in [handle : Handles, keys : SUBSET Settings]
<1> DEFINE E == [handle : Handles, keys : SUBSET Settings]
<1>1. UserConfigs \in Seq(E)
  BY DeviceAssumption
<1> HIDE DEF E
<1>2. UserConfigs[i] \in E
  BY <1>1
<1> QED BY <1>2 DEF E

\* The next setting to send is one that is left to send.
NextSetting == SettingOrder[Min({i \in 1 .. 4 : SettingOrder[i] \in todo})]

LEMMA NextSettingLeft ==
  ASSUME todo \subseteq Settings, todo # {}
  PROVE  NextSetting \in todo
<1> DEFINE T == {i \in 1 .. 4 : SettingOrder[i] \in todo}
<1>1. T \subseteq Nat /\ T # {}
  BY DEF Settings
<1>2. Min(T) \in T
  BY <1>1, MinBelongs
<1> QED BY <1>2 DEF NextSetting

\* Settings are commands, and so are the three others.
LEMMA SettingIsCommand == Settings \subseteq Commands /\ {"attitude", "workMode", "imu"} \subseteq Commands
BY DEF Commands

\* The three others are not settings.
LEMMA OtherCommand == {"attitude", "workMode", "imu"} \intersect Settings = {}
BY DEF Settings, SettingOrder

\* Sending commands that are not settings leaves the settings in flight alone.
LEMMA SentKeepsSettings ==
  ASSUME NEW h \in Handles, inflight \in [Handles -> [Commands -> Nat]],
         NEW cs \in SUBSET {"attitude", "workMode", "imu"}
  PROVE  /\ Sent(h, cs) \in [Handles -> [Commands -> Nat]]
         /\ \A g \in Handles, k \in Settings : Sent(h, cs)[g][k] = inflight[g][k]
<1> DEFINE add(c) == IF c \in cs THEN 1 ELSE 0
           row == [c \in Commands |-> inflight[h][c] + add(c)]
<1>1. Sent(h, cs) = [inflight EXCEPT ![h] = row]
  BY DEF Sent
<1>2. \A c \in Commands : add(c) \in Nat /\ inflight[h][c] \in Nat
  OBVIOUS
<1>3. row \in [Commands -> Nat]
  BY <1>2
<1>4. \A k \in Settings : k \in Commands /\ add(k) = 0
  BY SettingIsCommand, OtherCommand
<1>5. \A k \in Settings : row[k] = inflight[h][k]
  BY <1>2, <1>4
<1> HIDE DEF row
<1> QED BY <1>1, <1>3, <1>5

\* An answer takes one command out of flight.
LEMMA AnsweredOnce ==
  ASSUME NEW h \in Handles, NEW c \in Commands, inflight \in [Handles -> [Commands -> Nat]],
         inflight[h][c] > 0
  PROVE  /\ Answered(h, c) \in [Handles -> [Commands -> Nat]]
         /\ \A g \in Handles, k \in Settings : Answered(h, c)[g][k] > 0 => inflight[g][k] > 0
BY SettingIsCommand DEF Answered

----------------------------------------------------------------------------
(* The inductive invariant. *)

DeviceTypes ==
  /\ index \in [Handles -> SlotIds \union {None}]
  /\ config \in [SlotIds -> [handle : Handles \union {Zero}, keys : SUBSET Settings]]
  /\ setBits \in [SlotIds -> SUBSET Settings]
  /\ conn \in [SlotIds -> BOOLEAN]
  /\ inflight \in [Handles -> [Commands -> Nat]]
  /\ acked \in [Handles -> SUBSET Settings]
  /\ todo \subseteq Settings
  /\ filled \in Nat /\ mutex \in BOOLEAN

\* LidarInfoChangeCallback holds config_mutex_ exactly while it sends settings.
CallbackOwnsMutex ==
  /\ mutex <=> ipc = "settings"
  /\ ipc \in {"settings", "mode"} => ilidar \in Handles /\ index[ilidar] # None
  /\ ipc # "settings" => todo = {}
  /\ ipc # "idle" => Registered

Outstanding(h) == \E k \in Settings : inflight[h][k] > 0

\* A slot without a lidar and a lidar without a slot are as they were made, and
\* so is everything before the callback is registered.
Untouched ==
  /\ \A h \in Handles : index[h] = None \/ ~Registered => ~Outstanding(h)
  /\ \A s \in SlotIds :
       (\A h \in Handles : index[h] # s) \/ ~Registered => ~conn[s] /\ setBits[s] = {}

\* The settings of a lidar are being sent, or have been.
Started(h) ==
  conn[index[h]] \/ setBits[index[h]] # {} \/ Outstanding(h) \/ (ipc = "settings" /\ ilidar = h)

\* Each setting of such a lidar was acknowledged, or has its bit set, or is
\* about to be sent by the callback that holds the mutex.
SettingsTracked ==
  \A h \in Handles :
    index[h] # None /\ Started(h) =>
      config[index[h]].keys \subseteq
        setBits[index[h]] \union acked[h] \union (IF ilidar = h THEN todo ELSE {})

DeviceInv ==
  /\ DeviceTypes /\ DistinctSlots /\ CallbackOwnsMutex /\ Untouched /\ SettingsTracked
  /\ SamplingIsConfigured

\* Before InitLivoxLidar all slots are free and nothing was sent.
LEMMA DeviceInit == Init => DeviceInv
<1> SUFFICES ASSUME Init PROVE DeviceInv
  OBVIOUS
<1> USE DEF Init
<1>1. DeviceTypes
  BY DEF DeviceTypes
<1>2. CallbackOwnsMutex /\ \A h \in Handles : index[h] = None
  BY DEF CallbackOwnsMutex
<1>3. Untouched
  BY DEF Untouched, Outstanding, Commands
<1> QED BY <1>1, <1>2, <1>3 DEF DeviceInv, DistinctSlots, SettingsTracked, SamplingIsConfigured, Sampling

\* Handing out slots keeps the invariant.
LEMMA SlotKeepsDevice == DeviceInv /\ (FillDevice \/ \E h \in Handles : AddDevice(h)) => DeviceInv'
<1> SUFFICES ASSUME DeviceInv, FillDevice \/ \E h \in Handles : AddDevice(h) PROVE DeviceInv'
  OBVIOUS
<1>0. None \notin SlotIds
  BY DeviceAssumption DEF None, SlotIds
<1> USE DEF DeviceInv, DeviceTypes, DistinctSlots, CallbackOwnsMutex, Untouched, SettingsTracked,
            SamplingIsConfigured, Sampling, Started, Outstanding, Registered
<1>1. CASE FillDevice
  <2> DEFINE c == UserConfigs[filled + 1]
             s == GetFreeIndex(c.handle)
  <2>0. filled < Len(UserConfigs) /\ filled \in Nat /\ Len(UserConfigs) \in Nat
    BY <1>1, DeviceAssumption DEF FillDevice
  <2>1. c \in [handle : Handles, keys : SUBSET Settings]
    <3>1. filled + 1 \in 1 .. Len(UserConfigs)
      BY <2>0
    <3> QED BY <3>1, FileEntry
  <2>2. /\ s \in SlotIds \union {None}
        /\ index[c.handle] # None => s = index[c.handle]
        /\ index[c.handle] = None /\ s # None => \A g \in Handles : index[g] # s
    BY <2>1, FreeIndex
  <2>3. /\ filled # Len(UserConfigs) /\ filled' \in Nat
        /\ index' = [index EXCEPT ![c.handle] = s]
        /\ config' = IF s = None THEN config ELSE [config EXCEPT ![s] = c]
        /\ UNCHANGED <<setBits, conn, mutex, ipc, ilidar, todo, inflight, acked>>
    BY <1>1, DeviceAssumption DEF FillDevice, infoVars, history
  <2> HIDE DEF c, s
  <2>4. DeviceTypes'
    BY <2>1, <2>2, <2>3
  <2>5. DistinctSlots'
    BY <1>0, <2>1, <2>2, <2>3
  <2>6. /\ \A h \in Handles : ~Outstanding(h)
        /\ \A t \in SlotIds : ~conn[t] /\ setBits[t] = {}
        /\ ipc = "idle"
    BY <2>3
  <2>7. (CallbackOwnsMutex /\ Untouched)'
    BY <2>3, <2>6
  <2>8. (SettingsTracked /\ SamplingIsConfigured)'
    BY <2>3, <2>4, <2>6
  <2> QED BY <2>4, <2>5, <2>7, <2>8
<1>2. ASSUME NEW h \in Handles, AddDevice(h) PROVE DeviceInv'
  <2> DEFINE s == GetFreeIndex(h)
  <2>1. /\ s \in SlotIds \union {None} /\ index[h] = None /\ ipc = "idle" /\ filled = Len(UserConfigs)
        /\ s # None => \A g \in Handles : index[g] # s
    BY <1>2, FreeIndex DEF AddDevice, GetIndex
  <2>2. /\ index' = [index EXCEPT ![h] = s] /\ ilidar' = h
        /\ ipc' = IF s = None THEN "idle" ELSE "mode"
        /\ UNCHANGED <<config, setBits, conn, filled, mutex, todo, inflight, acked>>
    BY <1>2 DEF AddDevice, history
  <2> HIDE DEF s
  <2>3. DeviceTypes' /\ DistinctSlots' /\ CallbackOwnsMutex'
    BY <1>0, <2>1, <2>2
  <2>4. Untouched'
    BY <1>0, <2>1, <2>2
  <2>5. \A g \in Handles : g # h => index'[g] = index[g]
    BY <2>2
  <2>6. s # None => ~conn[s] /\ setBits[s] = {} /\ ~Outstanding(h)
    BY <2>1
  <2>7. index'[h] = s /\ todo = {}
    BY <2>1, <2>2
  <2>8. SettingsTracked'
    BY <2>2, <2>5, <2>6, <2>7
  <2>9. SamplingIsConfigured'
    BY <2>2, <2>5, <2>6, <2>7
  <2> QED BY <2>3, <2>4, <2>8, <2>9
<1> QED BY <1>1, <1>2

\* Sending settings keeps the invariant.
LEMMA SendKeepsDevice == DeviceInv /\ ((\E h \in Handles : BeginSettings(h)) \/ InfoStep) => DeviceInv'
<1> SUFFICES ASSUME DeviceInv, (\E h \in Handles : BeginSettings(h)) \/ InfoStep PROVE DeviceInv'
  OBVIOUS
<1> USE DEF DeviceInv, DeviceTypes, DistinctSlots, CallbackOwnsMutex, Untouched, SettingsTracked,
            SamplingIsConfigured, Sampling, Started, Outstanding, Registered, GetIndex
<1>1. ASSUME NEW h \in Handles, BeginSettings(h) PROVE DeviceInv'
  <2>1. /\ index[h] # None /\ ipc = "idle" /\ filled = Len(UserConfigs)
        /\ ilidar' = h /\ mutex' = TRUE /\ todo' = config[index[h]].keys /\ ipc' = "settings"
        /\ UNCHANGED <<index, config, setBits, conn, filled, inflight, acked>>
    BY <1>1 DEF BeginSettings, history
  <2>2. todo' \subseteq Settings /\ todo = {}
    BY <2>1
  <2> QED BY <2>1, <2>2
<1>2. CASE SendSetting
  <2> DEFINE k == NextSetting
             s == index[ilidar]
  <2>1. k \in todo /\ k \in Settings /\ ilidar \in Handles /\ s \in SlotIds
    BY <1>2, NextSettingLeft DEF SendSetting
  <2>2. /\ setBits' = [setBits EXCEPT ![s] = @ \union {k}]
        /\ inflight' = Sent(ilidar, {k}) /\ todo' = todo \ {k}
        /\ ipc = "settings" /\ filled = Len(UserConfigs)
        /\ UNCHANGED <<index, config, conn, filled, mutex, ipc, ilidar, acked>>
    BY <1>2 DEF SendSetting, NextSetting, history
  <2> HIDE DEF k
  <2>3. inflight' \in [Handles -> [Commands -> Nat]]
    BY <2>1, <2>2 DEF Sent
  <2>4. \A h \in Handles : h # ilidar => inflight'[h] = inflight[h] /\ index[h] # s
    BY <2>1, <2>2 DEF Sent
  <2>5. (DeviceTypes /\ DistinctSlots /\ CallbackOwnsMutex /\ SamplingIsConfigured)'
    <3>1. setBits' \in [SlotIds -> SUBSET Settings] /\ todo' \subseteq Settings
      BY <2>1, <2>2
    <3>2. DeviceTypes'
      BY <2>2, <2>3, <3>1
    <3>3. (DistinctSlots /\ CallbackOwnsMutex /\ SamplingIsConfigured)'
      BY <2>2
    <3> QED BY <3>2, <3>3
  <2>6. Untouched'
    BY <2>1, <2>2, <2>4
  <2>7. config[s].keys \subseteq setBits[s] \union acked[ilidar] \union todo
    BY <2>1, <2>2
  <2>8. SettingsTracked'
    <3>1. \A h \in Handles : h # ilidar /\ index[h] # None => setBits'[index[h]] = setBits[index[h]]
      BY <2>1, <2>2, <2>4
    <3>2. \A h \in Handles : h # ilidar /\ index[h] # None /\ Started(h)' => Started(h)
      BY <2>2, <2>4, <3>1
    <3>3. setBits'[s] = setBits[s] \union {k}
      BY <2>1, <2>2
    <3>4. ASSUME NEW h \in Handles, index[h] # None, Started(h)'
          PROVE  config[index[h]].keys \subseteq
                   setBits'[index[h]] \union acked[h] \union (IF ilidar = h THEN todo' ELSE {})
      <4>1. CASE h = ilidar
        BY <2>2, <2>7, <3>3, <4>1
      <4>2. CASE h # ilidar
        BY <3>1, <3>2, <3>4, <4>2
      <4> QED BY <4>1, <4>2
    <3> QED BY <2>2, <3>4
  <2> QED BY <2>5, <2>6, <2>8
<1>3. CASE SendAttitude
  <2> DEFINE target == config[index[ilidar]].handle
  <2>1. ilidar \in Handles /\ index[ilidar] \in SlotIds
    BY <1>3 DEF SendAttitude
  <2>2. target \in Handles \union {Zero}
    BY <2>1
  <2>3. /\ mutex' = FALSE /\ ipc' = "mode" /\ ipc = "settings" /\ todo = {}
        /\ inflight' = IF target = Zero THEN inflight ELSE Sent(target, {"attitude"})
        /\ UNCHANGED <<index, config, setBits, conn, filled, ilidar, todo, acked>>
    BY <1>3 DEF SendAttitude, history
  <2> HIDE DEF target
  <2> DEFINE next == Sent(target, {"attitude"})
  <2>4. target # Zero => /\ next \in [Handles -> [Commands -> Nat]]
                         /\ \A h \in Handles, k \in Settings : next[h][k] = inflight[h][k]
    BY <2>2, SentKeepsSettings
  <2> HIDE DEF next
  <2>5. /\ inflight' \in [Handles -> [Commands -> Nat]]
        /\ \A h \in Handles : (Outstanding(h))' <=> Outstanding(h)
    BY <2>3, <2>4 DEF next
  <2>6. SettingsTracked'
    BY <2>3, <2>5
  <2> QED BY <2>1, <2>3, <2>5, <2>6
<1>4. CASE SendWorkMode
  <2>1. ilidar \in Handles
    BY <1>4 DEF SendWorkMode
  <2>2. /\ ipc' = "idle" /\ ipc = "mode"
        /\ inflight' = Sent(ilidar, {"workMode", "imu"})
        /\ UNCHANGED <<index, config, setBits, conn, filled, mutex, ilidar, todo, acked>>
    BY <1>4 DEF SendWorkMode, history
  <2> DEFINE next == Sent(ilidar, {"workMode", "imu"})
  <2>3. /\ next \in [Handles -> [Commands -> Nat]]
        /\ \A h \in Handles, k \in Settings : next[h][k] = inflight[h][k]
    <3>1. {"workMode", "imu"} \in SUBSET {"attitude", "workMode", "imu"}
      OBVIOUS
    <3> QED BY <2>1, <3>1, SentKeepsSettings
  <2> HIDE DEF next
  <2>4. /\ inflight' \in [Handles -> [Commands -> Nat]]
        /\ \A h \in Handles : (Outstanding(h))' <=> Outstanding(h)
    BY <2>2, <2>3 DEF next
  <2>5. SettingsTracked'
    BY <2>2, <2>4
  <2> QED BY <2>2, <2>4, <2>5
<1> QED BY <1>1, <1>2, <1>3, <1>4 DEF InfoStep

\* Answers keep the invariant.
LEMMA AnswerKeepsDevice == DeviceInv /\ (\E h \in Handles : Answer(h)) => DeviceInv'
<1> SUFFICES ASSUME DeviceInv, NEW h \in Handles, Answer(h) PROVE DeviceInv'
  OBVIOUS
<1> USE DEF DeviceInv, DeviceTypes, DistinctSlots, CallbackOwnsMutex, Untouched, SettingsTracked,
            SamplingIsConfigured, Sampling, Started, Outstanding, Registered, GetIndex
<1>1. ASSUME NEW k \in Settings, SettingSucceeds(h, k) PROVE DeviceInv'
  <2> DEFINE s == index[h]
             left == setBits[s] \ {k}
  <2>1. inflight[h][k] > 0 /\ ~mutex /\ ipc # "settings" /\ todo = {}
    BY <1>1 DEF SettingSucceeds
  <2>2. s \in SlotIds /\ s # None /\ Registered
    BY <2>1
  <2>3. /\ inflight' = Answered(h, k)
        /\ setBits' = [setBits EXCEPT ![s] = left]
        /\ conn' = [conn EXCEPT ![s] = @ \/ left = {}]
        /\ acked' = [acked EXCEPT ![h] = @ \union {k}]
        /\ UNCHANGED <<index, config, filled, mutex, ipc, ilidar, todo>>
    BY <1>1 DEF SettingSucceeds, infoVars
  <2>4. /\ inflight' \in [Handles -> [Commands -> Nat]]
        /\ \A g \in Handles, c \in Settings : inflight'[g][c] > 0 => inflight[g][c] > 0
    BY <2>1, <2>3, SettingIsCommand, AnsweredOnce
  <2>5. config[s].keys \subseteq setBits[s] \union acked[h]
    BY <2>1, <2>2
  <2>6. /\ conn'[s] = (conn[s] \/ left = {}) /\ setBits'[s] = left /\ acked'[h] = acked[h] \union {k}
        /\ \A t \in SlotIds : t # s => conn'[t] = conn[t] /\ setBits'[t] = setBits[t]
        /\ \A g \in Handles : g # h => acked'[g] = acked[g]
    BY <2>2, <2>3
  <2>7. \A g \in Handles : g # h => index[g] # s
    BY <2>2
  <2>8. config[s].keys \subseteq left \union acked'[h]
    BY <2>5, <2>6
  <2>9. conn[s] => config[s].keys \subseteq acked[h]
    BY <2>2
  <2> HIDE DEF s, left
  <2>10. left \subseteq Settings /\ (left = {}) \in BOOLEAN
    BY <2>2 DEF left
  <2>11. setBits' \in [SlotIds -> SUBSET Settings] /\ conn' \in [SlotIds -> BOOLEAN]
    BY <2>2, <2>3, <2>10
  <2>12. (DeviceTypes /\ DistinctSlots /\ CallbackOwnsMutex)'
    <3>1. acked' \in [Handles -> SUBSET Settings]
      BY <2>3
    <3>2. DeviceTypes'
      BY <2>3, <2>4, <2>11, <3>1
    <3>3. (DistinctSlots /\ CallbackOwnsMutex)'
      BY <2>3
    <3> QED BY <3>2, <3>3
  <2>13. Untouched'
    BY <2>2, <2>3, <2>4, <2>6, <2>7 DEF s
  <2>14. SettingsTracked'
    BY <2>2, <2>3, <2>4, <2>6, <2>7, <2>8 DEF s
  <2>15. SamplingIsConfigured'
    BY <2>2, <2>3, <2>6, <2>7, <2>8, <2>9 DEF s
  <2> QED BY <2>12, <2>13, <2>14, <2>15
<1>2. ASSUME NEW c \in Commands, inflight[h][c] > 0, inflight' \in {Answered(h, c), inflight},
             UNCHANGED <<index, config, setBits, conn, filled, mutex, ipc, ilidar, todo, acked>>
      PROVE  DeviceInv'
  <2>1. /\ Answered(h, c) \in [Handles -> [Commands -> Nat]]
        /\ \A g \in Handles, d \in Settings : Answered(h, c)[g][d] > 0 => inflight[g][d] > 0
    BY <1>2, AnsweredOnce
  <2>2. /\ inflight' \in [Handles -> [Commands -> Nat]]
        /\ \A g \in Handles, d \in Settings : inflight'[g][d] > 0 => inflight[g][d] > 0
    BY <1>2, <2>1
  <2> QED BY <1>2, <2>2
<1>3. CASE \E k \in Settings : SettingTimesOut(h, k) \/ SettingRefused(h, k)
  BY <1>2, <1>3, SettingIsCommand DEF SettingTimesOut, SettingRefused, infoVars, history
<1>4. CASE \E c \in {"attitude", "imu"} : AttitudeOrImuAnswered(h, c)
  BY <1>2, <1>4, SettingIsCommand DEF AttitudeOrImuAnswered, infoVars, history
<1>5. CASE WorkModeAnswered(h)
  BY <1>2, <1>5, SettingIsCommand DEF WorkModeAnswered, infoVars
<1> QED BY <1>1, <1>3, <1>4, <1>5 DEF Answer

\* Every step keeps the invariant.
LEMMA DeviceStep == DeviceInv /\ [Next]_vars => DeviceInv'
<1> SUFFICES ASSUME DeviceInv, [Next]_vars PROVE DeviceInv'
  OBVIOUS
<1>1. CASE FillDevice \/ \E h \in Handles : AddDevice(h)
  BY <1>1, SlotKeepsDevice
<1>2. CASE (\E h \in Handles : BeginSettings(h)) \/ InfoStep
  BY <1>2, SendKeepsDevice
<1>3. CASE \E h \in Handles : Answer(h)
  BY <1>3, AnswerKeepsDevice
<1>4. CASE UNCHANGED vars
  BY <1>4 DEF vars, infoVars, history, DeviceInv, DeviceTypes, DistinctSlots, CallbackOwnsMutex,
       Untouched, SettingsTracked, SamplingIsConfigured, Sampling, Started, Outstanding, Registered
<1> QED BY <1>1, <1>2, <1>3, <1>4 DEF Next, InfoChange

\* The invariant holds in every reachable state.
LEMMA DeviceInvariant == Spec => []DeviceInv
BY DeviceInit, DeviceStep, PTL DEF Spec

----------------------------------------------------------------------------
(* Results. *)

\* InitLivoxLidar and LidarInfoChangeCallback never give two lidars one slot
\* of lidars_[], whatever the file repeats and whoever is reported first.
THEOREM SlotsAreDistinct == Spec => []DistinctSlots
<1>1. DeviceInv => DistinctSlots
  BY DEF DeviceInv
<1> QED BY <1>1, DeviceInvariant, PTL

\* A lidar becomes Sampling only after it acknowledged each setting the file
\* gives it, although its answers race the callback that is still sending.
THEOREM SamplingNeedsSettings == Spec => []SamplingIsConfigured
<1>1. DeviceInv => SamplingIsConfigured
  BY DEF DeviceInv
<1> QED BY <1>1, DeviceInvariant, PTL
============================================================================
