--------------------------- MODULE NodeLifecycle ---------------------------
(***************************************************************************)
(* The life of DriverNode: its constructor (livox_ros_driver2.cpp), the    *)
(* initialisation of the LdsLidar singleton and of the SDK (lds_lidar.cpp),*)
(* the two polling threads, and its destructor with the destructors of its *)
(* members (driver_node.cpp, Lddc::~Lddc, LdsLidar::DeInitLdsLidar).       *)
(* A component container may create a node again after the first is gone:  *)
(* the singleton and everything in it outlive the node.                    *)
(*                                                                         *)
(* The module composes ImuDelivery and DeviceIdentity, whose objects it    *)
(* creates, feeds and destroys.  The point-cloud thread is reduced to its  *)
(* semaphore and its loop; FrameDelivery has its rings.  The executor runs *)
(* no callback of the node while it is constructed or destroyed.           *)
(***************************************************************************)
EXTENDS ImuDelivery, DeviceIdentity

CONSTANTS
  MaxNodes,  \* bound: nodes of one process that get a data source
  Launches   \* how a node may be started

\* heartbeat: the functional_safety.* parameters, absent, valid or refused;
\* dtc and role: dtc.enabled, and a role in [0, 3] with usable limits;
\* identity: device_info.role absent, valid or refused; raw: data_src is
\* kSourceRawLidar.  Of the file at user_config_path, summary:
\* lidar_summary_info can be read; livox: lidar_type has the Livox bit; users:
\* usable entries of lidar_configs.  log: a recorder can be made in
\* LIVOX_DIAGNOSTIC_LOG_DIR.
LaunchType == [heartbeat : {"off", "valid", "invalid"}, dtc : BOOLEAN, role : BOOLEAN,
               identity : {"off", "valid", "invalid"}, raw : BOOLEAN,
               summary : BOOLEAN, livox : BOOLEAN, users : Nat, log : BOOLEAN]

ASSUME LifecycleAssumption == MaxNodes \in Nat /\ Launches \subseteq LaunchType

VARIABLES
  \* the node
  npc,           \* the thread in its constructor or destructor
  node,          \* nodes that got a data source, the current one included
  launch,        \* how it was started
  heartbeat,     \* heartbeat_: "none", its state, or "stopped"
  timers,        \* diagnostic_timer_, diagnostic_query_timer_
  ppc,           \* PointCloudDataPollThread
  \* the singletons
  initialized,   \* LdsLidar::is_initialized_
  livox,         \* the Livox bit of LdsLidar::lidar_summary_info_
  monitor,       \* LdsLidar::diagnostic_monitor_ is not null
  recorder,      \* LdsLidar::diagnostic_recorder_
  pcdCount,      \* pcd_semaphore_
  sdk,           \* "up" while the threads of the SDK run, "stopping" in its uninit
  callbacks,     \* registered with the SDK and the packet handler
  failedBefore   \* history: an earlier InitLdsLidar failed

nodeVars == <<node, launch, heartbeat, timers>>
ldsVars  == <<initialized, livox, monitor, recorder, sdk, callbacks, failedBefore>>
lifeVars == <<npc, nodeVars, ldsVars, ppc, pcdCount>>
vars     == <<lifeVars, imuVars, exitVars, idVars>>

NoLaunch == [heartbeat |-> "off", dtc |-> FALSE, role |-> FALSE, identity |-> "off", raw |-> FALSE,
             summary |-> FALSE, livox |-> FALSE, users |-> 0, log |-> FALSE]

Init ==
  /\ npc = "absent" /\ node = 0 /\ launch = NoLaunch
  /\ heartbeat = "none" /\ timers = {} /\ ppc = "none"
  /\ initialized = FALSE /\ livox = FALSE /\ monitor = FALSE /\ recorder = "none"
  /\ pcdCount = 0 /\ sdk = "down" /\ callbacks = {} /\ failedBefore = FALSE
  /\ ldsSet = FALSE /\ requestExit = FALSE /\ exitSignal = FALSE
  /\ ImuInit /\ IdInit

----------------------------------------------------------------------------
(* The constructor.  An exception destroys the members made so far: the    *)
(* heartbeat stops, and Lddc has no data source to release yet.            *)

Abandon ==
  /\ npc' = "absent" /\ launch' = NoLaunch
  /\ heartbeat' = "none" /\ timers' = {}
  /\ UNCHANGED node

\* The parameters, and LoadHeartbeatConfig: absent, refused, or a heartbeat.
CreateNode(l) ==
  /\ npc = "absent" /\ node < MaxNodes
  /\ launch' = IF l.heartbeat = "invalid" THEN NoLaunch ELSE l
  /\ npc' = IF l.heartbeat = "invalid" THEN "absent" ELSE "dtc"
  /\ heartbeat' = IF l.heartbeat = "valid" THEN "NotReady" ELSE "none"
  /\ UNCHANGED <<node, timers, ppc, ldsVars, pcdCount, imuVars, exitVars, idVars>>

\* dtc.enabled needs a heartbeat and a role; the timer then reports.
CreateMonitor ==
  /\ npc = "dtc"
  /\ \/ /\ launch.dtc /\ (heartbeat = "none" \/ ~launch.role)
        /\ Abandon
     \/ /\ launch.dtc => heartbeat # "none" /\ launch.role
        /\ timers' = IF launch.dtc THEN {"diagnostic"} ELSE {}
        /\ npc' = "source"
        /\ UNCHANGED <<node, launch, heartbeat>>
  /\ UNCHANGED <<ldsVars, ppc, pcdCount, imuVars, exitVars, idVars>>

ToFault == IF heartbeat = "none" THEN "none" ELSE "Fault"

\* The data source is not the lidar: Lddc keeps lds_ = nullptr.
InvalidSource ==
  /\ npc = "source" /\ ~launch.raw
  /\ heartbeat' = ToFault /\ npc' = "threads"
  /\ UNCHANGED <<node, launch, timers, ppc, ldsVars, pcdCount, imuVars, exitVars, idVars>>

\* identity::Parameters refuses its role; the monitor has been handed over.
RefuseIdentity ==
  /\ npc = "source" /\ launch.raw /\ launch.identity = "invalid"
  /\ monitor' = launch.dtc
  /\ Abandon
  /\ UNCHANGED <<initialized, livox, recorder, sdk, callbacks, failedBefore, ppc, pcdCount, imuVars, exitVars, idVars>>

\* SetDiagnosticMonitor, SetIdentityParameters, RegisterLds.
RegisterLds ==
  /\ npc = "source" /\ launch.raw /\ launch.identity # "invalid"
  /\ node' = node + 1 /\ monitor' = launch.dtc
  /\ SetIdentityParameters(IF launch.identity = "valid" THEN node + 1 ELSE 0)
  /\ ldsSet' = TRUE /\ npc' = "init"
  /\ UNCHANGED <<launch, heartbeat, timers, initialized, livox, recorder, sdk, callbacks, failedBefore,
                 ppc, pcdCount, imuVars, requestExit, exitSignal>>

----------------------------------------------------------------------------
(* InitLdsLidar. *)

\* StartDiagnosticRecorder: nothing without a monitor or a directory, or when
\* there is one; a recorder that cannot be created is done without.
StartDiagnosticRecorder ==
  recorder' = IF recorder = "none" /\ monitor /\ launch.log THEN "on" ELSE recorder

\* ParseSummaryInfo: the file can be opened and parsed and has a lidar_type.
ParseSummaryInfo == launch.summary

\* A monitor or identity parameters need exactly one lidar in the file.
RoleHasOneLidar == monitor \/ idNode # 0 => launch.users = 1

AlreadyInited ==
  /\ npc = "init" /\ initialized
  /\ npc' = "failed"
  /\ UNCHANGED <<nodeVars, ldsVars, ppc, pcdCount, imuVars, exitVars, idVars>>

\* ParseSummaryInfo fails, or a role finds no or several lidars in the file.
InitLidarsFails ==
  /\ npc = "init" /\ ~initialized
  /\ \/ ~ParseSummaryInfo /\ UNCHANGED livox
     \/ /\ ParseSummaryInfo /\ launch.livox /\ livox' = TRUE
        /\ ~RoleHasOneLidar
  /\ StartDiagnosticRecorder
  /\ npc' = "failed"
  /\ UNCHANGED <<nodeVars, initialized, monitor, sdk, callbacks, failedBefore,
                 ppc, pcdCount, imuVars, exitVars, idVars>>

\* A file without the Livox bit in lidar_type succeeds without the SDK.
SkipLivoxLidar ==
  /\ npc = "init" /\ ~initialized /\ ParseSummaryInfo /\ ~launch.livox
  /\ livox' = FALSE /\ npc' = "handlers"
  /\ UNCHANGED <<nodeVars, initialized, monitor, recorder, sdk, callbacks, failedBefore, ppc, pcdCount, imuVars, exitVars, idVars>>

\* InitLivoxLidar up to the SDK: Configure, then the recorder.
PrepareLivoxLidar ==
  /\ npc = "init" /\ ~initialized /\ ParseSummaryInfo /\ launch.livox
  /\ RoleHasOneLidar
  /\ livox' = TRUE
  /\ IF idNode # 0 THEN Configure ELSE UNCHANGED idVars
  /\ StartDiagnosticRecorder
  /\ npc' = "sdk"
  /\ UNCHANGED <<nodeVars, initialized, monitor, sdk, callbacks, failedBefore,
                 ppc, pcdCount, imuVars, exitVars>>

\* LivoxLidarSdkInit fails, for instance when a port is in use.
SdkInitFails ==
  /\ npc = "sdk"
  /\ StartDiagnosticRecorder
  /\ npc' = "failed"
  /\ UNCHANGED <<nodeVars, initialized, livox, monitor, sdk, callbacks, failedBefore,
                 ppc, pcdCount, imuVars, exitVars, idVars>>

SdkInit ==
  /\ npc = "sdk"
  /\ sdk' = "up" /\ npc' = "register"
  /\ UNCHANGED <<nodeVars, initialized, livox, monitor, recorder, callbacks, failedBefore,
                 ppc, pcdCount, imuVars, exitVars, idVars>>

\* The slots are filled, then LidarInfoChangeCallback is registered ...
RegisterInfoChange ==
  /\ npc = "register"
  /\ callbacks' = callbacks \union {"info"} /\ npc' = "observers"
  /\ UNCHANGED <<nodeVars, initialized, livox, monitor, recorder, sdk, failedBefore,
                 ppc, pcdCount, imuVars, exitVars, idVars>>

\* ... then, for a monitored role, the status callback and packet observer.
RegisterDiagnostics ==
  /\ npc = "observers"
  /\ callbacks' = IF monitor THEN callbacks \union {"status"} ELSE callbacks
  /\ npc' = "handlers"
  /\ UNCHANGED <<nodeVars, initialized, livox, monitor, recorder, sdk, failedBefore,
                 ppc, pcdCount, imuVars, exitVars, idVars>>

\* SetLidarPubHandle, in three steps that the SDK can see: packets are taken
\* first, an IMU packet has nowhere to go before the second ...
SetPointCloudsCallback ==
  /\ npc = "handlers" /\ npc' = "imu"
  /\ callbacks' = callbacks \union {"packets"}
  /\ UNCHANGED <<nodeVars, initialized, livox, monitor, recorder, sdk, failedBefore,
                 ppc, pcdCount, imuVars, exitVars, idVars>>

SetImuDataCallback ==
  /\ npc = "imu" /\ npc' = "framing"
  /\ callbacks' = callbacks \union {"imu"}
  /\ UNCHANGED <<nodeVars, initialized, livox, monitor, recorder, sdk, failedBefore,
                 ppc, pcdCount, imuVars, exitVars, idVars>>

\* ... and SetPointCloudConfig starts the framing thread of the process unless
\* it runs.  Start does nothing and InitLdsLidar succeeds.
SetPointCloudConfig ==
  /\ npc = "framing" /\ npc' = "succeeded"
  /\ callbacks' = callbacks \union {"frames"}
  /\ initialized' = TRUE
  /\ UNCHANGED <<nodeVars, livox, monitor, recorder, sdk, failedBefore,
                 ppc, pcdCount, imuVars, exitVars, idVars>>

InitSucceeded ==
  /\ npc = "succeeded"
  /\ heartbeat' = IF heartbeat = "none" THEN "none" ELSE "Idle"
  /\ timers' = IF launch.dtc THEN timers \union {"query"} ELSE timers
  /\ npc' = "threads"
  /\ UNCHANGED <<node, launch, ldsVars, ppc, pcdCount, imuVars, exitVars, idVars>>

InitFailed ==
  /\ npc = "failed"
  /\ heartbeat' = ToFault /\ failedBefore' = TRUE
  /\ npc' = "threads"
  /\ UNCHANGED <<node, launch, timers, initialized, livox, monitor, recorder, sdk, callbacks,
                 ppc, pcdCount, imuVars, exitVars, idVars>>

\* Both polling threads start, whatever the outcome.
StartThreads ==
  /\ npc = "threads" /\ npc' = "up"
  /\ ppc' = "sleep" /\ ipc' = "sleep" /\ exitSignal' = FALSE
  /\ UNCHANGED <<nodeVars, ldsVars, pcdCount, imuQueue, imuCount, sampling, storeVars,
                 ilidar, lastImu, imuPolled, ldsSet, requestExit, idVars>>

----------------------------------------------------------------------------
(* The SDK, and the framing thread, which outlives it. *)

Delivers(c) == sdk = "up" /\ c \in callbacks

\* The framing thread has pushed a frame and signals unless the count is set;
\* packets may be left when the SDK is gone.
PushFrame ==
  /\ "frames" \in callbacks /\ livox
  /\ pcdCount' = IF pcdCount <= 0 THEN pcdCount + 1 ELSE pcdCount
  /\ UNCHANGED <<npc, nodeVars, ldsVars, ppc, imuVars, exitVars, idVars>>

ReceiveImu(l) == Delivers("imu") /\ StorageImuData(l) /\ UNCHANGED <<lifeVars, idVars>>
StoreImu == StoreStep /\ UNCHANGED <<lifeVars, idVars>>
AcknowledgeSettings(l) == Delivers("info") /\ StartSampling(l) /\ UNCHANGED <<lifeVars, idVars>>

\* LidarInfoChangeCallback reports a lidar; the executor serves parameter
\* clients once the node is constructed.
ChangeInfo(r) == Delivers("info") /\ Observe(r) /\ UNCHANGED <<lifeVars, imuVars, exitVars>>
FinishObserve == ObserveStep /\ UNCHANGED <<lifeVars, imuVars, exitVars>>
SetByClient(s) == npc = "up" /\ ExternalSet(s) /\ UNCHANGED <<lifeVars, imuVars, exitVars>>

----------------------------------------------------------------------------
(* PointCloudDataPollThread around DistributePointCloudData. *)

PollTo(s) == ppc' = s /\ UNCHANGED <<npc, nodeVars, ldsVars, imuVars, exitVars, idVars>>

WakePcdThread == ppc = "sleep" /\ PollTo("enter") /\ UNCHANGED pcdCount
EnterDistribute ==
  ppc = "enter" /\ PollTo(IF ~ldsSet \/ requestExit THEN "future" ELSE "wait") /\ UNCHANGED pcdCount
WaitPcd == ppc = "wait" /\ pcdCount > 0 /\ pcdCount' = pcdCount - 1 /\ PollTo("publish")
TestPcdFuture ==
  ppc = "future" /\ PollTo(IF exitSignal THEN "done" ELSE "enter") /\ UNCHANGED pcdCount

\* The rings of the lidars that are Sampling are drained; every cloud calls
\* the published callback, which records work and sets Running.
PublishClouds ==
  /\ ppc = "publish" /\ ppc' = "future"
  /\ heartbeat' \in IF heartbeat \in {"none", "stopped"} \/ ~(\E l \in Slots : sampling[l])
                      THEN {heartbeat} ELSE {heartbeat, "Running"}
  /\ UNCHANGED <<npc, node, launch, timers, ldsVars, pcdCount, imuVars, exitVars, idVars>>

PcdThreadStep == WakePcdThread \/ EnterDistribute \/ WaitPcd \/ PublishClouds \/ TestPcdFuture
PollImu == ImuThreadStep /\ UNCHANGED <<lifeVars, idVars>>

----------------------------------------------------------------------------
(* ~DriverNode, then its members in reverse order of declaration. *)

ResetTimers ==
  /\ npc = "up" /\ npc' = "heartbeat"
  /\ timers' = {}
  /\ UNCHANGED <<node, launch, heartbeat, ldsVars, ppc, pcdCount, imuVars, exitVars, idVars>>

StopHeartbeat ==
  /\ npc = "heartbeat" /\ npc' = "request"
  /\ heartbeat' = IF heartbeat = "none" THEN "none" ELSE "stopped"
  /\ UNCHANGED <<node, launch, timers, ldsVars, ppc, pcdCount, imuVars, exitVars, idVars>>

\* lddc_ptr_->lds_->RequestExit() does not test lds_.
RequestExit ==
  /\ npc = "request"
  /\ npc' = IF ldsSet THEN "signal" ELSE "crashed"
  /\ requestExit' = (requestExit \/ ldsSet)
  /\ UNCHANGED <<nodeVars, ldsVars, ppc, pcdCount, imuVars, ldsSet, exitSignal, idVars>>

\* Mutant of SetExitSignal: the SDK is stopped before the threads are joined.
SetExitSignalSdkStopped ==
  /\ npc = "signal" /\ npc' = "join"
  /\ exitSignal' = TRUE /\ sdk' = IF sdk = "up" THEN "stopping" ELSE sdk
  /\ UNCHANGED <<nodeVars, initialized, livox, monitor, recorder, callbacks, failedBefore,
                 ppc, pcdCount, imuVars, ldsSet, requestExit, idVars>>

\* exit_signal_.set_value(): both threads will see the future ready.
SetExitSignal ==
  /\ npc = "signal" /\ npc' = "join"
  /\ exitSignal' = TRUE
  /\ UNCHANGED <<nodeVars, ldsVars, ppc, pcdCount, imuVars, ldsSet, requestExit, idVars>>

\* Mutant of JoinThreads: the IMU thread is not waited for.
JoinThreadsOne ==
  /\ npc = "join" /\ ppc = "done"
  /\ npc' = "members" /\ ppc' = "none"
  /\ UNCHANGED <<nodeVars, ldsVars, pcdCount, imuVars, exitVars, idVars>>

\* Both threads are joined.
JoinThreads ==
  /\ npc = "join" /\ ppc = "done" /\ ipc = "done"
  /\ npc' = "members" /\ ppc' = "none" /\ ipc' = "none"
  /\ UNCHANGED <<nodeVars, ldsVars, pcdCount, imuQueue, imuCount, sampling, storeVars,
                 ilidar, lastImu, imuPolled, exitVars, idVars>>

\* The publisher, the node's reference to the monitor and the heartbeat go.
DestroyMembers ==
  /\ npc = "members" /\ npc' = "lddc"
  /\ heartbeat' = "none"
  /\ UNCHANGED <<node, launch, timers, ldsVars, ppc, pcdCount, imuVars, exitVars, idVars>>

\* ~Lddc, PrepareExit, DeInitLdsLidar: without a successful initialisation it
\* returns -1; else the diagnostic callbacks are withdrawn first.
PrepareExit ==
  /\ npc = "lddc"
  /\ npc' = IF initialized /\ livox THEN "uninit" ELSE "base"
  /\ callbacks' = IF initialized /\ livox /\ monitor THEN callbacks \ {"status"} ELSE callbacks
  /\ UNCHANGED <<nodeVars, initialized, livox, monitor, recorder, sdk, failedBefore,
                 ppc, pcdCount, imuVars, exitVars, idVars>>

\* LivoxLidarSdkUninit asks the threads of the SDK to end, and no further
\* callback begins ...  A node made after a successful one calls it again.
SdkStop ==
  /\ npc = "uninit" /\ npc' = "drain"
  /\ sdk' = IF sdk = "up" THEN "stopping" ELSE sdk
  /\ UNCHANGED <<nodeVars, initialized, livox, monitor, recorder, callbacks, failedBefore,
                 ppc, pcdCount, imuVars, exitVars, idVars>>

\* ... and returns when none of them is in a callback any more.
SdkUninit ==
  /\ npc = "drain" /\ npc' = "recorder"
  /\ spc = "idle" /\ opc = "idle"
  /\ sdk' = "down"
  /\ UNCHANGED <<nodeVars, initialized, livox, monitor, recorder, callbacks, failedBefore,
                 ppc, pcdCount, imuVars, exitVars, idVars>>

\* Mutant of ReleaseLds: the singleton can be initialised again, but
\* request_exit_ is forgotten.
ReleaseLdsReset ==
  /\ npc = "recorder" /\ npc' = "base"
  /\ recorder' = "none" /\ initialized' = FALSE
  /\ SetIdentityParameters(0)
  /\ UNCHANGED <<nodeVars, livox, monitor, sdk, callbacks, failedBefore,
                 ppc, pcdCount, imuVars, exitVars>>

\* The recorder stops and identity_parameters_ is released; is_initialized_
\* stays set.
ReleaseLds ==
  /\ npc = "recorder" /\ npc' = "base"
  /\ recorder' = IF recorder = "on" THEN "stopped" ELSE recorder
  /\ SetIdentityParameters(0)
  /\ UNCHANGED <<nodeVars, initialized, livox, monitor, sdk, callbacks, failedBefore,
                 ppc, pcdCount, imuVars, exitVars>>

\* lds_ = nullptr, and rclcpp::Node is destroyed.
DestroyNode ==
  /\ npc = "base" /\ npc' = "absent"
  /\ ldsSet' = FALSE /\ launch' = NoLaunch
  /\ UNCHANGED <<node, heartbeat, timers, ldsVars, ppc, pcdCount, imuVars, requestExit, exitSignal, idVars>>

----------------------------------------------------------------------------
ConstructorStep ==
  \/ CreateMonitor \/ InvalidSource \/ RefuseIdentity \/ RegisterLds \/ AlreadyInited
  \/ InitLidarsFails \/ SkipLivoxLidar \/ PrepareLivoxLidar \/ SdkInitFails \/ SdkInit
  \/ RegisterInfoChange \/ RegisterDiagnostics \/ SetPointCloudsCallback \/ SetImuDataCallback
  \/ SetPointCloudConfig \/ InitSucceeded
  \/ InitFailed \/ StartThreads

DestructorStep ==
  \/ StopHeartbeat \/ RequestExit \/ SetExitSignal \/ JoinThreads \/ DestroyMembers
  \/ PrepareExit \/ SdkStop \/ SdkUninit \/ ReleaseLds \/ DestroyNode

LidarStep == \E l \in Slots : ReceiveImu(l) \/ AcknowledgeSettings(l)

Next ==
  \/ \E l \in Launches : CreateNode(l)
  \/ ConstructorStep \/ ResetTimers \/ DestructorStep
  \/ PcdThreadStep \/ PollImu
  \/ PushFrame \/ LidarStep \/ StoreImu
  \/ (\E r \in Reports : ChangeInfo(r)) \/ FinishObserve
  \/ \E s \in Serials : SetByClient(s)

Spec == Init /\ [][Next]_vars

\* Every thread is scheduled, and a lidar that the SDK serves keeps sending
\* clouds and IMU samples.  Nothing obliges a node to be made or destroyed.
Fairness ==
  /\ WF_vars(ConstructorStep) /\ WF_vars(DestructorStep)
  /\ WF_vars(PcdThreadStep) /\ WF_vars(PollImu)
  /\ WF_vars(StoreImu) /\ WF_vars(FinishObserve)
  /\ WF_vars(sdk = "up" /\ PushFrame) /\ WF_vars(\E l \in Slots : ReceiveImu(l))

FairSpec == Spec /\ Fairness

----------------------------------------------------------------------------
(* Properties. *)

Joining == {"up", "heartbeat", "request", "signal", "join"}

\* Nobody uses what is not there: while the SDK calls back, the node behind
\* identity_parameters_ exists and the recorder has not been stopped; the
\* diagnostic timer finds a heartbeat; the polling threads, which use Lddc and
\* the heartbeat, run only until they are joined; and lds_ is null in the
\* destructor only after an invalid data_src.
OnlyLiveObjectsUsed ==
  /\ sdk # "down" => npc # "absent" /\ idNode \in {0, node} /\ recorder # "stopped"
  /\ "diagnostic" \in timers => heartbeat \notin {"none", "stopped"}
  /\ ppc # "none" \/ ipc # "none" => npc \in Joining \union {"crashed"}
  /\ npc = "crashed" => ~launch.raw

\* A node that reports Idle or Running is served: the SDK runs with all
\* callbacks the node needs, and its threads have not been told to exit by an
\* earlier node, unless that node had failed (then is_initialized_ is clear
\* although request_exit_ is set).  A file without the Livox bit is excluded.
IdleIsServed ==
  heartbeat \in {"Idle", "Running"} /\ launch.livox =>
    /\ sdk = "up" /\ {"info", "packets", "imu", "frames"} \subseteq callbacks
    /\ launch.dtc => "status" \in callbacks
    /\ requestExit => failedBefore

\* Once ~DriverNode begins on a node whose SDK is up, it ends: the lidar keeps
\* waking both polling threads because the SDK is stopped only after the join.
DestructorReturns == (npc = "heartbeat" /\ sdk = "up") ~> npc = "absent"
============================================================================
