---------------------------- MODULE DeviceConfig ----------------------------
(***************************************************************************)
(* How a lidar gets its slot, its settings and its Sampling state          *)
(* (lds_lidar.cpp InitLivoxLidar, comm/cache_index.cpp and                 *)
(* call_back/livox_lidar_callback.cpp).  The SDK reports a lidar, possibly *)
(* several times, on one thread; its answers to commands arrive on others, *)
(* and may be a success, a timeout or a refusal.  A setting the user's     *)
(* configuration leaves out is -1 there; a slot that no configuration      *)
(* filled is all zeroes, which is not -1.                                  *)
(***************************************************************************)
EXTENDS Integers, Sequences, FiniteSetsExt

CONSTANTS
  UserConfigs,   \* user_configs: a sequence of [handle, keys] records
  Handles,       \* the lidars on the network
  Slots,         \* kMaxSourceLidar
  MaxInfos,      \* bound: info-change callbacks
  MaxFaults      \* bound: timeouts and refusals

\* The settings in the order LidarInfoChangeCallback goes through them, and
\* the commands that carry no bit in set_bits.
SettingOrder == <<"dataType", "scanPattern", "blindSpot", "dualEmit">>
Settings == {SettingOrder[i] : i \in 1 .. 4}
Commands == Settings \union {"attitude", "workMode", "imu"}
Zero == "zero"   \* the handle of a slot no configuration filled
None == -1       \* no slot

ASSUME DeviceAssumption ==
  /\ UserConfigs \in Seq([handle : Handles, keys : SUBSET Settings])
  /\ Slots \in Nat \ {0} /\ MaxInfos \in Nat /\ MaxFaults \in Nat
  /\ Zero \notin Handles

VARIABLES
  index,      \* map_index_
  config,     \* livox_config of each slot: its handle and the keys that are not -1
  setBits,    \* livox_config.set_bits
  conn,       \* connect_state = kConnectStateSampling
  filled,     \* configurations InitLivoxLidar has put into slots
  mutex,      \* config_mutex_ is held by LidarInfoChangeCallback
  ipc, ilidar, todo,  \* where that callback is, for which lidar, what is left
  inflight,   \* commands sent to each lidar and not answered
  infos, faults,      \* bounds
  seen,       \* history: lidars the SDK has reported
  acked, refused, normal  \* history: settings acknowledged, settings refused,
                          \* lidars whose Normal mode was acknowledged

infoVars == <<mutex, ipc, ilidar, todo, infos, seen>>
history  == <<acked, refused, normal>>
vars == <<index, config, setBits, conn, filled, infoVars, inflight, faults, history>>

SlotIds == 0 .. Slots - 1
Listed  == {UserConfigs[i].handle : i \in 1 .. Len(UserConfigs)}

Init ==
  /\ index = [h \in Handles |-> None]
  /\ config = [s \in SlotIds |-> [handle |-> Zero, keys |-> Settings]]
  /\ setBits = [s \in SlotIds |-> {}]
  /\ conn = [s \in SlotIds |-> FALSE]
  /\ filled = 0
  /\ mutex = FALSE /\ ipc = "idle" /\ ilidar = Zero /\ todo = {}
  /\ inflight = [h \in Handles |-> [c \in Commands |-> 0]]
  /\ infos = 0 /\ faults = 0 /\ seen = {}
  /\ acked = [h \in Handles |-> {}]
  /\ refused = [h \in Handles |-> {}]
  /\ normal = {}

----------------------------------------------------------------------------
(* CacheIndex. *)

\* Mutant of FreeSlots: a slot is not marked.
FreeSlotsUnmarked == SlotIds
FreeSlots == SlotIds \ {index[h] : h \in Handles}

\* GetFreeIndex: the slot the key already has, else the lowest free one.
GetFreeIndex(h) ==
  IF index[h] # None THEN index[h]
  ELSE IF FreeSlots = {} THEN None ELSE Min(FreeSlots)

\* GetIndex: the slot of a known key.
GetIndex(h) == index[h]

----------------------------------------------------------------------------
\* InitLivoxLidar puts the next configuration into its slot, or passes over
\* it when no slot is free.  The callback is registered after the last one.
FillDevice ==
  LET c == UserConfigs[filled + 1]
      s == GetFreeIndex(c.handle) IN
  /\ filled < Len(UserConfigs)
  /\ filled' = filled + 1
  /\ index' = [index EXCEPT ![c.handle] = s]
  /\ config' = IF s = None THEN config ELSE [config EXCEPT ![s] = c]
  /\ UNCHANGED <<setBits, conn, infoVars, inflight, faults, history>>

Registered == filled = Len(UserConfigs)

\* LidarInfoChangeCallback for a lidar without a slot: it gets one, and no
\* settings; when no slot is free the callback returns.
AddDevice(h) ==
  LET s == GetFreeIndex(h) IN
  /\ Registered /\ ipc = "idle" /\ infos < MaxInfos
  /\ GetIndex(h) = None
  /\ infos' = infos + 1 /\ seen' = seen \union {h}
  /\ index' = [index EXCEPT ![h] = s]
  /\ ilidar' = h
  /\ ipc' = IF s = None THEN "idle" ELSE "mode"
  /\ UNCHANGED <<config, setBits, conn, filled, mutex, todo, inflight, faults, history>>

\* LidarInfoChangeCallback for a lidar with a slot: under config_mutex_ it
\* sends each setting whose key is not -1.
BeginSettings(h) ==
  /\ Registered /\ ipc = "idle" /\ infos < MaxInfos
  /\ GetIndex(h) # None
  /\ infos' = infos + 1 /\ seen' = seen \union {h}
  /\ ilidar' = h
  /\ mutex' = TRUE
  /\ todo' = config[GetIndex(h)].keys
  /\ ipc' = "settings"
  /\ UNCHANGED <<index, config, setBits, conn, filled, inflight, faults, history>>

Sent(h, cs) == [inflight EXCEPT ![h] = [c \in Commands |-> @[c] + IF c \in cs THEN 1 ELSE 0]]

SendSetting ==
  LET k == SettingOrder[Min({i \in 1 .. 4 : SettingOrder[i] \in todo})] IN
  /\ ipc = "settings" /\ todo # {}
  /\ setBits' = [setBits EXCEPT ![GetIndex(ilidar)] = @ \union {k}]
  /\ inflight' = Sent(ilidar, {k})
  /\ todo' = todo \ {k}
  /\ UNCHANGED <<index, config, conn, filled, mutex, ipc, ilidar, infos, seen, faults, history>>

\* The lock is released and the attitude goes to config.handle.
SendAttitude ==
  LET target == config[GetIndex(ilidar)].handle IN
  /\ ipc = "settings" /\ todo = {}
  /\ mutex' = FALSE
  /\ inflight' = IF target = Zero THEN inflight ELSE Sent(target, {"attitude"})
  /\ ipc' = "mode"
  /\ UNCHANGED <<index, config, setBits, conn, filled, ilidar, todo, infos, seen, faults, history>>

\* Both branches end by switching to Normal and enabling the IMU.
SendWorkMode ==
  /\ ipc = "mode"
  /\ inflight' = Sent(ilidar, {"workMode", "imu"})
  /\ ipc' = "idle"
  /\ UNCHANGED <<index, config, setBits, conn, filled, mutex, ilidar, todo, infos, seen, faults, history>>

----------------------------------------------------------------------------
(* Answers of the SDK. *)

Answered(h, c) == [inflight EXCEPT ![h][c] = @ - 1]
Fault == faults < MaxFaults /\ faults' = faults + 1

\* Mutant of SettingSucceeds: config_mutex_ is not taken.
SettingSucceedsUnlocked(h, k) ==
  LET s == GetIndex(h)
      left == setBits[s] \ {k} IN
  /\ inflight[h][k] > 0
  /\ inflight' = Answered(h, k)
  /\ setBits' = [setBits EXCEPT ![s] = left]
  /\ conn' = [conn EXCEPT ![s] = @ \/ left = {}]
  /\ acked' = [acked EXCEPT ![h] = @ \union {k}]
  /\ UNCHANGED <<index, config, filled, infoVars, faults, refused, normal>>

\* Success in SetDataTypeCallback, SetPatternModeCallback,
\* SetBlindSpotCallback and SetDualEmitCallback.
SettingSucceeds(h, k) ==
  LET s == GetIndex(h)
      left == setBits[s] \ {k} IN
  /\ inflight[h][k] > 0 /\ ~mutex
  /\ inflight' = Answered(h, k)
  /\ setBits' = [setBits EXCEPT ![s] = left]
  /\ conn' = [conn EXCEPT ![s] = @ \/ left = {}]
  /\ acked' = [acked EXCEPT ![h] = @ \union {k}]
  /\ UNCHANGED <<index, config, filled, infoVars, faults, refused, normal>>

\* Mutant of SettingTimesOut: the setting is not sent again.
SettingTimesOutForGood(h, k) ==
  /\ inflight[h][k] > 0 /\ Fault
  /\ inflight' = Answered(h, k)
  /\ UNCHANGED <<index, config, setBits, conn, filled, infoVars, history>>

\* Timeout in the same callbacks: the setting is sent again, so that one
\* command replaces another.
SettingTimesOut(h, k) ==
  /\ inflight[h][k] > 0 /\ Fault
  /\ UNCHANGED <<index, config, setBits, conn, filled, infoVars, inflight, history>>

\* Any other status: the callback gives up and the bit stays set.
SettingRefused(h, k) ==
  /\ inflight[h][k] > 0 /\ Fault
  /\ inflight' = Answered(h, k)
  /\ refused' = [refused EXCEPT ![h] = @ \union {k}]
  /\ UNCHANGED <<index, config, setBits, conn, filled, infoVars, acked, normal>>

\* SetAttitudeCallback and EnableLivoxLidarImuDataCallback: done on success,
\* on a refusal, and for the IMU on a missing response; retried on timeout.
\* The attitude is retried to config.handle.
AttitudeOrImuAnswered(h, c) ==
  /\ inflight[h][c] > 0
  /\ \/ inflight' = Answered(h, c) /\ UNCHANGED faults
     \/ Fault /\ inflight' \in {Answered(h, c), inflight}
  /\ UNCHANGED <<index, config, setBits, conn, filled, infoVars, history>>

\* WorkModeChangedCallback: any failure sleeps and sends the mode again.
WorkModeAnswered(h) ==
  /\ inflight[h]["workMode"] > 0
  /\ \/ /\ inflight' = Answered(h, "workMode")
        /\ normal' = normal \union {h}
        /\ UNCHANGED faults
     \/ Fault /\ UNCHANGED <<inflight, normal>>
  /\ UNCHANGED <<index, config, setBits, conn, filled, infoVars, acked, refused>>

----------------------------------------------------------------------------
Answer(h) ==
  \/ \E k \in Settings : SettingSucceeds(h, k) \/ SettingTimesOut(h, k) \/ SettingRefused(h, k)
  \/ \E c \in {"attitude", "imu"} : AttitudeOrImuAnswered(h, c)
  \/ WorkModeAnswered(h)

InfoChange(h) == AddDevice(h) \/ BeginSettings(h)
InfoStep == SendSetting \/ SendAttitude \/ SendWorkMode

Next ==
  \/ FillDevice
  \/ \E h \in Handles : InfoChange(h) \/ Answer(h)
  \/ InfoStep

Spec == Init /\ [][Next]_vars

\* A callback that has begun goes on, and the SDK keeps answering commands, if
\* only with timeouts; faults and info changes are finitely many by their
\* bounds.
Fairness ==
  WF_vars(FillDevice) /\ WF_vars(InfoStep) /\ WF_vars(\E h \in Handles : Answer(h))

FairSpec == Spec /\ Fairness

----------------------------------------------------------------------------
(* Properties. *)

\* Two lidars never share a slot of lidars_[], however the configuration file
\* repeats handles and in whatever order lidars are reported.
DistinctSlots ==
  \A h, g \in Handles : h # g /\ index[h] # None => index[h] # index[g]

Sampling(h) == index[h] # None /\ conn[index[h]]

\* A lidar is Sampling only when it has acknowledged every setting of its
\* configuration at least once: no answer can start it half configured, not
\* even one that comes while LidarInfoChangeCallback is still sending.
SamplingIsConfigured ==
  \A h \in Handles :
    Sampling(h) => config[index[h]].keys \subseteq acked[h]

\* Every lidar that is reported and has a slot is switched to Normal in the
\* end, and one that the file lists with settings starts Sampling, unless it
\* refuses one: no timeout and no order of answers loses a command.
LidarsStart ==
  \A h \in Handles :
    h \in seen /\ index[h] # None
      ~> /\ h \in normal
         /\ h \in Listed /\ config[index[h]].keys # {} => Sampling(h) \/ refused[h] # {}

\* What the comment in LidarInfoChangeCallback says of the branch that sends
\* settings: it sets the lidar "according to the user-defined config".
OnlyUserConfigIsSent ==
  \A h \in Handles : h \notin Listed => \A k \in Settings : inflight[h][k] = 0
============================================================================
