--------------------------- MODULE LifecycleProofs ---------------------------
(***************************************************************************)
(* Proofs about NodeLifecycle and the two modules it composes, for any     *)
(* number of nodes, lidars, samples and ways to start a node.              *)
(***************************************************************************)
EXTENDS NodeLifecycle, TLAPS

----------------------------------------------------------------------------
(* The inductive invariants. *)

\* The constructor between LivoxLidarSdkInit and the end of InitLdsLidar.
Registering == {"register", "observers", "handlers", "imu", "framing"}
\* From there to LivoxLidarSdkUninit.
Served == {"succeeded", "threads", "up", "heartbeat", "request", "signal", "join",
           "members", "lddc", "uninit", "drain", "crashed"}
\* The diagnostic timer may run.
Timed == {"source", "init", "sdk", "succeeded", "failed", "threads", "up"} \union Registering

\* Who has started the SDK still has to stop it, and who is about to start it
\* does so for the first time.
SdkOwned ==
  /\ sdk # "down" => /\ livox /\ npc \in Registering \union Served
                     /\ npc \in Served => initialized
  /\ npc \in {"sdk"} \union Registering => ~initialized
  /\ npc = "sdk" => livox
  /\ npc \in {"uninit", "drain", "recorder"} => initialized
  /\ sdk = "down" => opc = "idle"
  /\ idNode \in {0, node}
  /\ recorder = "stopped" => initialized /\ sdk = "down"

\* The diagnostic timer exists only together with the heartbeat.
TimerOwned ==
  /\ "diagnostic" \in timers => heartbeat \notin {"none", "stopped"}
  /\ npc \notin Timed => timers = {}
  /\ npc = "dtc" => heartbeat \in {"none", "NotReady"}

\* The polling threads belong to a constructed node.
ThreadsOwned == ppc # "none" \/ ipc # "none" => npc \in Joining \union {"crashed"}

\* A node whose data_src is the lidar has a data source until it is destroyed.
SourceOwned ==
  /\ npc \in {"init", "sdk", "succeeded", "failed", "threads", "up", "heartbeat", "request"}
             \union Registering => (launch.raw => ldsSet)
  /\ npc = "crashed" => ~launch.raw

LifeInv == SdkOwned /\ TimerOwned /\ ThreadsOwned /\ SourceOwned

----------------------------------------------------------------------------
(* Objects and their users. *)

\* The process starts without a node, threads or SDK.
LEMMA LifeInit == Init => LifeInv
BY DEF Init, IdInit, ImuInit, LifeInv, SdkOwned, TimerOwned, ThreadsOwned, SourceOwned, Registering,
       Served, Timed, Joining, NoLaunch

\* The steps of the constructor keep the owners.
LEMMA LifeConstruct == LifeInv /\ ((\E l \in Launches : CreateNode(l)) \/ ConstructorStep) => LifeInv'
<1> SUFFICES ASSUME LifeInv, (\E l \in Launches : CreateNode(l)) \/ ConstructorStep
             PROVE  LifeInv'
  OBVIOUS
<1> USE DEF LifeInv, SdkOwned, TimerOwned, ThreadsOwned, SourceOwned, Registering, Served, Timed, Joining,
            lifeVars, nodeVars, ldsVars, imuVars, storeVars, pollVars, exitVars, idVars
<1>1. ASSUME NEW l \in Launches, CreateNode(l) PROVE LifeInv'
  BY <1>1 DEF CreateNode
<1>2. CASE CreateMonitor
  BY <1>2 DEF CreateMonitor, Abandon
<1>3. CASE InvalidSource
  BY <1>3 DEF InvalidSource, ToFault
<1>4. CASE RefuseIdentity
  BY <1>4 DEF RefuseIdentity, Abandon
<1>5. CASE RegisterLds
  BY <1>5 DEF RegisterLds, SetIdentityParameters
<1>6. CASE AlreadyInited
  BY <1>6 DEF AlreadyInited
<1>7. CASE InitLidarsFails
  BY <1>7 DEF InitLidarsFails, StartDiagnosticRecorder
<1>8. CASE SkipLivoxLidar
  BY <1>8 DEF SkipLivoxLidar
<1>9. CASE PrepareLivoxLidar
  BY <1>9 DEF PrepareLivoxLidar, StartDiagnosticRecorder, Configure
<1>10. CASE SdkInitFails
  BY <1>10 DEF SdkInitFails, StartDiagnosticRecorder
<1>11. CASE SdkInit
  BY <1>11 DEF SdkInit
<1>12. CASE RegisterInfoChange
  BY <1>12 DEF RegisterInfoChange
<1>13. CASE RegisterDiagnostics
  BY <1>13 DEF RegisterDiagnostics
<1>14. CASE SetPointCloudsCallback
  BY <1>14 DEF SetPointCloudsCallback
<1>15. CASE SetImuDataCallback
  BY <1>15 DEF SetImuDataCallback
<1>16. CASE SetPointCloudConfig
  BY <1>16 DEF SetPointCloudConfig
<1>17. CASE InitSucceeded
  BY <1>17 DEF InitSucceeded
<1>18. CASE InitFailed
  BY <1>18 DEF InitFailed, ToFault
<1>19. CASE StartThreads
  BY <1>19 DEF StartThreads
<1> QED
  BY <1>1, <1>2, <1>3, <1>4, <1>5, <1>6, <1>7, <1>8, <1>9, <1>10, <1>11, <1>12, <1>13, <1>14, <1>15, <1>16,
     <1>17, <1>18, <1>19
  DEF ConstructorStep

\* The steps of the destructor keep the owners.
LEMMA LifeDestroy == LifeInv /\ (ResetTimers \/ DestructorStep) => LifeInv'
<1> SUFFICES ASSUME LifeInv, ResetTimers \/ DestructorStep PROVE LifeInv'
  OBVIOUS
<1> USE DEF LifeInv, SdkOwned, TimerOwned, ThreadsOwned, SourceOwned, Registering, Served, Timed, Joining,
            lifeVars, nodeVars, ldsVars, imuVars, storeVars, pollVars, exitVars, idVars
<1>1. CASE ResetTimers
  BY <1>1 DEF ResetTimers
<1>2. CASE StopHeartbeat
  BY <1>2 DEF StopHeartbeat
<1>3. CASE RequestExit
  BY <1>3 DEF RequestExit
<1>4. CASE SetExitSignal
  BY <1>4 DEF SetExitSignal
<1>5. CASE JoinThreads
  BY <1>5 DEF JoinThreads
<1>6. CASE DestroyMembers
  BY <1>6 DEF DestroyMembers
<1>7. CASE PrepareExit
  BY <1>7 DEF PrepareExit
<1>8. CASE SdkStop
  BY <1>8 DEF SdkStop
<1>9. CASE SdkUninit
  BY <1>9 DEF SdkUninit
<1>10. CASE ReleaseLds
  BY <1>10 DEF ReleaseLds, SetIdentityParameters
<1>11. CASE DestroyNode
  BY <1>11 DEF DestroyNode
<1> QED
  BY <1>1, <1>2, <1>3, <1>4, <1>5, <1>6, <1>7, <1>8, <1>9, <1>10, <1>11 DEF DestructorStep

\* The threads of the node and of the SDK, and the executor.
Threads ==
  \/ PcdThreadStep \/ PollImu \/ PushFrame \/ LidarStep \/ StoreImu
  \/ (\E r \in Reports : ChangeInfo(r)) \/ FinishObserve \/ \E s \in Serials : SetByClient(s)

\* What runs beside the constructor and the destructor keeps the owners.
LEMMA LifeThreads == LifeInv /\ (Threads \/ UNCHANGED vars) => LifeInv'
<1> SUFFICES ASSUME LifeInv, Threads \/ UNCHANGED vars PROVE LifeInv'
  OBVIOUS
<1> USE DEF LifeInv, SdkOwned, TimerOwned, ThreadsOwned, SourceOwned, Registering, Served, Timed, Joining,
            lifeVars, nodeVars, ldsVars, imuVars, storeVars, pollVars, exitVars, idVars, PollTo
<1>1. CASE WakePcdThread
  BY <1>1 DEF WakePcdThread
<1>2. CASE EnterDistribute
  BY <1>2 DEF EnterDistribute
<1>3. CASE WaitPcd
  BY <1>3 DEF WaitPcd
<1>4. CASE PublishClouds
  BY <1>4 DEF PublishClouds
<1>5. CASE TestPcdFuture
  BY <1>5 DEF TestPcdFuture
<1>6. CASE PollImu
  <2>1. ipc # "none" /\ UNCHANGED exitVars
    BY <1>6 DEF PollImu, ImuThreadStep, WakeImuThread, EnterDistributeImu, WaitImu, ScanImuLidar,
       PollImuLidar, PublishImuData, TestImuFuture
  <2> QED BY <1>6, <2>1 DEF PollImu
<1>7. CASE PushFrame
  BY <1>7 DEF PushFrame
<1>8. ASSUME NEW l \in Slots, ReceiveImu(l) \/ AcknowledgeSettings(l) PROVE LifeInv'
  BY <1>8 DEF ReceiveImu, StorageImuData, AcknowledgeSettings, StartSampling
<1>9. CASE StoreImu
  BY <1>9 DEF StoreImu, StoreStep, TestImuQueue, TestImuCount, SignalImu
<1>10. ASSUME NEW r \in Reports, ChangeInfo(r) PROVE LifeInv'
  BY <1>10 DEF ChangeInfo, Delivers, Observe
<1>11. CASE FinishObserve
  BY <1>11 DEF FinishObserve, ObserveStep, SetParameters, UnmarkWriter
<1>12. ASSUME NEW s \in Serials, SetByClient(s) PROVE LifeInv'
  BY <1>12 DEF SetByClient, ExternalSet
<1>13. CASE UNCHANGED vars
  BY <1>13 DEF vars
<1> QED
  BY <1>1, <1>2, <1>3, <1>4, <1>5, <1>6, <1>7, <1>8, <1>9, <1>10, <1>11, <1>12, <1>13
  DEF Threads, PcdThreadStep, LidarStep

\* Every step of the process keeps the owners.
LEMMA LifeStep == LifeInv /\ [Next]_vars => LifeInv'
BY LifeConstruct, LifeDestroy, LifeThreads DEF Next, Threads

\* No callback, timer or thread ever uses a node, heartbeat, recorder or data
\* source that is not there, however often a node is made and destroyed.
THEOREM UsersHaveObjects == Spec => []OnlyLiveObjectsUsed
<1>1. LifeInv => OnlyLiveObjectsUsed
  BY DEF LifeInv, SdkOwned, TimerOwned, ThreadsOwned, SourceOwned, OnlyLiveObjectsUsed, Registering, Served
<1> QED BY LifeInit, LifeStep, <1>1, PTL DEF Spec

----------------------------------------------------------------------------
(* The identity parameters. *)

\* The parameters say what the configured lidar reported last.
Matches ==
  /\ params.sn = IF reported = Never THEN NoSerial ELSE reported
  /\ params.valid <=> reported \in Serials
  /\ params.confirmed <=> reported # Never

\* Only the SDK thread ever carries the mark, and it does while it writes;
\* until then the members already hold what it is about to write.
IdInv ==
  /\ members \in [configured : BOOLEAN, sn : Serials \union {NoSerial}]
  /\ params \in [sn : Serials \union {NoSerial}, valid : BOOLEAN, confirmed : BOOLEAN]
  /\ reported \in Serials \union {NoSerial, Never}
  /\ opc \in {"idle", "set", "unmark"}
  /\ writer \subseteq {"sdk"}
  /\ opc # "idle" => "sdk" \in writer
  /\ npc = "init" => reported = Never
  /\ opc \in {"idle", "unmark"} /\ members.configured => Matches
  /\ opc = "set" => members.configured /\ members.sn = reported /\ reported # Never

\* Without identity parameters nothing is configured or reported.
LEMMA IdInvInit == Init => IdInv
BY IdentityAssumption DEF Init, IdInit, IdInv, NoMembers, NoParams

\* The identity moves only when a node is registered, configured, observed,
\* written to or released; a client never gets past the mark.
LEMMA IdStep == LifeInv /\ IdInv /\ [Next]_vars => IdInv'
<1> SUFFICES ASSUME LifeInv, IdInv, [Next]_vars PROVE IdInv'
  OBVIOUS
<1> USE IdentityAssumption DEF IdInv, Matches, idVars
<1>1. CASE RegisterLds
  BY <1>1 DEF RegisterLds, SetIdentityParameters, NoMembers, NoParams, LifeInv, SdkOwned, Registering, Served
<1>2. CASE PrepareLivoxLidar
  <2>1. opc = "idle" /\ reported = Never /\ npc' = "sdk"
    BY <1>2 DEF PrepareLivoxLidar, LifeInv, SdkOwned, Registering, Served
  <2>2. CASE idNode = 0
    BY <1>2, <2>1, <2>2 DEF PrepareLivoxLidar
  <2>3. CASE idNode # 0
    <3>1. members' = [configured |-> TRUE, sn |-> NoSerial] /\ params' = NoParams /\ UNCHANGED <<opc, writer, reported>>
      BY <1>2, <2>3 DEF PrepareLivoxLidar, Configure
    <3>2. Matches'
      BY <2>1, <3>1 DEF NoParams
    <3> QED BY <2>1, <3>1, <3>2 DEF NoParams
  <2> QED BY <2>2, <2>3
<1>3. CASE ReleaseLds
  BY <1>3 DEF ReleaseLds, SetIdentityParameters, NoMembers, NoParams, LifeInv, SdkOwned, Registering, Served
<1>4. ASSUME NEW r \in Reports, ChangeInfo(r) PROVE IdInv'
  BY <1>4 DEF ChangeInfo, Observe, Accepts, Reports, Delivers, lifeVars, LifeInv, SdkOwned, Registering, Served
<1>5. CASE FinishObserve
  <2>1. CASE SetParameters
    BY <1>5, <2>1 DEF FinishObserve, SetParameters, MayWrite, lifeVars
  <2>2. CASE UnmarkWriter
    BY <1>5, <2>2 DEF FinishObserve, UnmarkWriter, lifeVars
  <2> QED BY <1>5, <2>1, <2>2 DEF FinishObserve, ObserveStep
<1>6. ASSUME NEW s \in Serials, SetByClient(s) PROVE IdInv'
  BY <1>6 DEF SetByClient, ExternalSet, MayWrite, lifeVars
<1>7. CASE UNCHANGED idVars /\ npc' # "init"
  BY <1>7
<1>8. CASE UNCHANGED <<npc, idVars>>
  BY <1>8
<1>9. ASSUME NEW l \in Launches, CreateNode(l) PROVE UNCHANGED idVars /\ npc' # "init"
  BY <1>9 DEF CreateNode
<1>10. ConstructorStep => RegisterLds \/ PrepareLivoxLidar \/ (UNCHANGED idVars /\ npc' # "init")
  BY DEF ConstructorStep, CreateMonitor, InvalidSource, RefuseIdentity, AlreadyInited, InitLidarsFails,
     SkipLivoxLidar, SdkInitFails, SdkInit, RegisterInfoChange, RegisterDiagnostics, SetPointCloudsCallback,
     SetImuDataCallback, SetPointCloudConfig, InitSucceeded, InitFailed, StartThreads, Abandon
<1>11. ResetTimers \/ DestructorStep => ReleaseLds \/ (UNCHANGED idVars /\ npc' # "init")
  BY DEF DestructorStep, ResetTimers, StopHeartbeat, RequestExit, SetExitSignal, JoinThreads, DestroyMembers,
     PrepareExit, SdkStop, SdkUninit, DestroyNode
<1>12. PcdThreadStep \/ PollImu \/ PushFrame \/ LidarStep \/ StoreImu => UNCHANGED <<npc, idVars>>
  BY DEF PcdThreadStep, WakePcdThread, EnterDistribute, WaitPcd, PublishClouds, TestPcdFuture, PollTo,
     PollImu, PushFrame, LidarStep, ReceiveImu, AcknowledgeSettings, StoreImu, lifeVars
<1>13. CASE UNCHANGED vars
  BY <1>13, <1>8 DEF vars, lifeVars
<1> QED
  BY <1>1, <1>2, <1>3, <1>4, <1>5, <1>6, <1>7, <1>8, <1>9, <1>10, <1>11, <1>12, <1>13 DEF Next

\* For any lidars, serial numbers, reports and clients, and any number of
\* nodes: the parameters hold the latest report of the configured lidar.
THEOREM LatestIdentity == Spec => []IdentityIsLatest
<1>1. LifeInv /\ IdInv /\ [Next]_vars => (LifeInv /\ IdInv)'
  BY LifeStep, IdStep
<1>2. IdInv => IdentityIsLatest
  BY DEF IdInv, Matches, IdentityIsLatest
<1> QED BY LifeInit, IdInvInit, <1>1, <1>2, PTL DEF Spec

----------------------------------------------------------------------------
(* The IMU lists. *)

ImuTypes ==
  /\ imuQueue \in [Slots -> Seq(Nat)]
  /\ nextSample \in [Slots -> Nat] /\ lastImu \in [Slots -> Nat]
  /\ sampling \in [Slots -> BOOLEAN]
  /\ imuCount \in Nat
  /\ slidar \in Slots /\ ilidar \in 0 .. NumLidars
  /\ ipc \in {"poll", "publish"} => ilidar \in Slots

\* A list that was polled and is not empty has somebody who will look at it:
\* a signal that was given, or the SDK thread about to give it, or the polling
\* thread before it in its loop; or the node is exiting.
ListWatched ==
  /\ \A l \in imuPolled : l \in Slots /\ sampling[l]
  /\ \A l \in imuPolled : imuQueue[l] # <<>> =>
       \/ imuCount > 0
       \/ spc # "idle" /\ slidar = l
       \/ ipc \in {"scan", "poll", "publish"} /\ ilidar <= l
       \/ requestExit /\ ipc # "wait"

\* Samples are numbered modulo W.
Number(n) == n % W

\* The samples of a list are numbered from the one published last to the one
\* that comes next, and the thread pops only from a list that has one.
ListOrdered ==
  /\ \A l \in Slots :
       /\ lastImu[l] < W
       /\ Len(imuQueue[l]) <= MaxQueue
       /\ \A i \in 1 .. Len(imuQueue[l]) : imuQueue[l][i] = Number(lastImu[l] + i)
       /\ nextSample[l] = Number(lastImu[l] + (Len(imuQueue[l]) + 1))
  /\ ipc = "publish" => imuQueue[ilidar] # <<>>

ImuInv == ImuTypes /\ ListWatched /\ ListOrdered

\* Sample numbers stay below W.
LEMMA NumberRange == \A n \in Nat : Number(n) \in Nat /\ Number(n) < W
BY ImuAssumption DEF Number

\* Adding before or after taking the remainder makes no difference as long as
\* the sum goes at most once around.
LEMMA NextNumber ==
  ASSUME NEW a \in Nat, a < W, NEW i \in Nat, i <= MaxQueue
  PROVE  /\ Number(Number(a + 1) + i) = Number(a + (i + 1))
         /\ Number(Number(a + i) + 1) = Number(a + (i + 1))
BY ImuAssumption DEF Number

\* Empty lists need no watcher and have nothing out of order.
LEMMA ImuInvInit == Init => ImuInv
<1> SUFFICES ASSUME Init PROVE ImuInv
  OBVIOUS
<1>1. NumLidars \in Nat \ {0} /\ MaxQueue \in Nat /\ W \in Nat /\ W > 0 /\ Number((W - 1) + (0 + 1)) = 0
  BY ImuAssumption DEF Number
<1>2. \A l \in Slots : imuQueue[l] = <<>> /\ lastImu[l] = W - 1 /\ nextSample[l] = 0
  BY DEF Init, ImuInit
<1>3. ImuTypes
  BY <1>1 DEF Init, ImuInit, ImuTypes, Slots
<1>4. ListWatched
  BY DEF Init, ImuInit, ListWatched
<1>5. ListOrdered
  BY <1>1, <1>2 DEF Init, ImuInit, ListOrdered
<1> QED BY <1>3, <1>4, <1>5 DEF ImuInv

\* What Push of LidarImuDataQueue adds and leaves.
LEMMA PushElements ==
  ASSUME NEW q \in Seq(Nat), NEW x \in Nat
  PROVE  /\ Append(q, x) \in Seq(Nat) /\ Append(q, x) # <<>>
         /\ Len(Append(q, x)) = Len(q) + 1
         /\ \A i \in 1 .. Len(q) : Append(q, x)[i] = q[i]
         /\ Append(q, x)[Len(q) + 1] = x
OBVIOUS

\* What Pop of LidarImuDataQueue takes and leaves.
LEMMA PopElements ==
  ASSUME NEW q \in Seq(Nat), q # <<>>
  PROVE  /\ Head(q) = q[1] /\ Head(q) \in Nat
         /\ Tail(q) \in Seq(Nat) /\ Len(Tail(q)) = Len(q) - 1
         /\ \A i \in 1 .. Len(q) - 1 : Tail(q)[i] = q[i + 1]
OBVIOUS

\* The push of StorageImuData keeps the numbers of its list in order.
LEMMA StoreKeepsImu ==
  ASSUME ImuInv, NEW l \in Slots, StorageImuData(l)
  PROVE  ImuInv'
<1> USE DEF ImuInv
<1>1. /\ UNCHANGED <<lastImu, ipc, ilidar, sampling, imuCount, imuPolled, requestExit>>
      /\ spc' = "empty" /\ slidar' = l
  BY DEF StorageImuData, pollVars, exitVars
<1>2. CASE UNCHANGED <<imuQueue, nextSample>>
  <2>1. ImuTypes' /\ ListOrdered'
    BY <1>1, <1>2 DEF ImuTypes, ListOrdered
  <2>2. ListWatched'
    BY <1>1, <1>2 DEF ListWatched, StorageImuData
  <2> QED BY <2>1, <2>2
<1>3. CASE /\ Len(imuQueue[l]) < MaxQueue
           /\ imuQueue' = [imuQueue EXCEPT ![l] = Push(@, nextSample[l])]
           /\ nextSample' = [nextSample EXCEPT ![l] = (@ + 1) % W]
  <2> DEFINE n == Len(imuQueue[l])
             a == lastImu[l]
  <2>1. /\ n \in Nat /\ n < MaxQueue /\ MaxQueue \in Nat
        /\ a \in Nat /\ a < W /\ nextSample[l] \in Nat /\ nextSample[l] = Number(a + (n + 1))
    BY <1>3, ImuAssumption DEF ImuTypes, ListOrdered
  <2>2. /\ imuQueue'[l] = Append(imuQueue[l], nextSample[l])
        /\ nextSample'[l] = Number(nextSample[l] + 1)
        /\ nextSample' = [nextSample EXCEPT ![l] = Number(nextSample[l] + 1)]
        /\ \A k \in Slots \ {l} : imuQueue'[k] = imuQueue[k] /\ nextSample'[k] = nextSample[k]
    BY <1>3 DEF Push, Number, ImuTypes
  <2>3. /\ imuQueue'[l] \in Seq(Nat)
        /\ Len(imuQueue'[l]) = n + 1 /\ imuQueue'[l] # <<>>
        /\ \A i \in 1 .. n : imuQueue'[l][i] = imuQueue[l][i]
        /\ imuQueue'[l][n + 1] = nextSample[l]
    <3>1. imuQueue[l] \in Seq(Nat) /\ nextSample[l] \in Nat
      BY DEF ImuTypes
    <3> QED BY <2>2, <3>1, PushElements
  <2>4. nextSample'[l] = Number(a + ((n + 1) + 1))
    <3>1. n + 1 \in Nat /\ n + 1 <= MaxQueue
      BY <2>1
    <3>2. Number(Number(a + (n + 1)) + 1) = Number(a + ((n + 1) + 1))
      <4> HIDE DEF a, n
      <4> QED BY <2>1, <3>1, NextNumber
    <3> QED BY <2>1, <2>2, <3>2
  <2>5. \A i \in 1 .. n + 1 : imuQueue'[l][i] = Number(a + i)
    <3>1. \A i \in 1 .. n : imuQueue'[l][i] = Number(a + i)
      BY <2>3 DEF ListOrdered
    <3> QED BY <2>1, <2>3, <3>1
  <2>6. ImuTypes'
    <3>1. nextSample[l] + 1 \in Nat
      BY <2>1
    <3>2. Number(nextSample[l] + 1) \in Nat
      BY <3>1, NumberRange
    <3>3. imuQueue' \in [Slots -> Seq(Nat)]
      BY <1>3, <2>2, <2>3 DEF ImuTypes
    <3>4. nextSample' \in [Slots -> Nat]
      BY <2>2, <3>2 DEF ImuTypes
    <3> QED BY <1>1, <3>3, <3>4 DEF ImuTypes
  <2>7. ListWatched'
    <3>1. ASSUME NEW k \in imuPolled', imuQueue'[k] # <<>>, k # l
          PROVE  \/ imuCount' > 0
                 \/ spc' # "idle" /\ slidar' = k
                 \/ ipc' \in {"scan", "poll", "publish"} /\ ilidar' <= k
                 \/ requestExit' /\ ipc' # "wait"
      BY <1>1, <2>2, <3>1 DEF ListWatched, StorageImuData
    <3> QED BY <1>1, <3>1 DEF ListWatched
  <2>8. ASSUME NEW k \in Slots
        PROVE  /\ lastImu'[k] < W
               /\ Len(imuQueue'[k]) <= MaxQueue
               /\ \A i \in 1 .. Len(imuQueue'[k]) : imuQueue'[k][i] = Number(lastImu'[k] + i)
               /\ nextSample'[k] = Number(lastImu'[k] + (Len(imuQueue'[k]) + 1))
    <3>1. CASE k = l
      <4>1. \A i \in 1 .. Len(imuQueue'[k]) : imuQueue'[k][i] = Number(lastImu'[k] + i)
        BY <1>1, <2>3, <2>5, <3>1
      <4>2. nextSample'[k] = Number(lastImu'[k] + (Len(imuQueue'[k]) + 1))
        BY <1>1, <2>3, <2>4, <3>1
      <4>3. lastImu'[k] < W /\ Len(imuQueue'[k]) <= MaxQueue
        BY <1>1, <2>1, <2>3, <3>1
      <4> QED BY <4>1, <4>2, <4>3
    <3>2. CASE k # l
      BY <1>1, <2>2, <3>2 DEF ListOrdered
    <3> QED BY <3>1, <3>2
  <2>9. ipc' = "publish" => imuQueue'[ilidar'] # <<>>
    <3>1. CASE ilidar = l
      BY <1>1, <2>3, <3>1
    <3>2. CASE ilidar # l
      BY <1>1, <2>2, <3>2 DEF ImuTypes, ListOrdered
    <3> QED BY <3>1, <3>2
  <2> QED BY <2>6, <2>7, <2>8, <2>9 DEF ListOrdered
<1> QED BY <1>2, <1>3 DEF StorageImuData

\* The pop of PublishImuData takes the next number.
LEMMA PublishKeepsImu ==
  ASSUME ImuInv, PublishImuData
  PROVE  /\ ImuInv'
         /\ lastImu' = [lastImu EXCEPT ![ilidar] = (@ + 1) % W]
<1> USE DEF ImuInv
<1> DEFINE p == ilidar
           q == imuQueue[p]
           n == Len(q)
           a == lastImu[p]
<1>1. /\ p \in Slots /\ q \in Seq(Nat) /\ q # <<>> /\ n \in Nat /\ n >= 1 /\ n <= MaxQueue
      /\ a \in Nat /\ a < W /\ MaxQueue \in Nat
      /\ \A i \in 1 .. n : q[i] = Number(a + i)
      /\ nextSample[p] = Number(a + (n + 1))
  BY ImuAssumption DEF PublishImuData, ImuTypes, ListOrdered
<1>2. /\ lastImu' = [lastImu EXCEPT ![p] = Head(q)]
      /\ imuQueue' = [imuQueue EXCEPT ![p] = Tail(q)]
      /\ UNCHANGED <<nextSample, spc, slidar, sampling, imuCount, ilidar, imuPolled, requestExit>>
      /\ ipc = "publish" /\ ipc' = "poll"
  BY DEF PublishImuData, Pop, storeVars, exitVars
<1>3. Head(q) = Number(a + 1) /\ Head(q) \in Nat /\ Head(q) < W
  <2>1. Head(q) = Number(a + 1) /\ a + 1 \in Nat
    <3> HIDE DEF q
    <3> QED BY <1>1, PopElements
  <2> QED BY <2>1, NumberRange
<1>4. /\ lastImu'[p] = Number(a + 1)
      /\ imuQueue'[p] = Tail(q)
      /\ \A k \in Slots \ {p} : imuQueue'[k] = imuQueue[k] /\ lastImu'[k] = lastImu[k]
  BY <1>1, <1>2, <1>3 DEF ImuTypes
<1>5. /\ Tail(q) \in Seq(Nat) /\ Len(Tail(q)) = n - 1
      /\ \A i \in 1 .. n - 1 : Tail(q)[i] = q[i + 1]
  <2> HIDE DEF q
  <2> QED BY <1>1, PopElements
<1>6. ASSUME NEW i \in 1 .. n - 1 PROVE imuQueue'[p][i] = Number(lastImu'[p] + i)
  <2>1. imuQueue'[p][i] = Number(a + (i + 1)) /\ i \in Nat /\ i <= MaxQueue
    <3>1. i + 1 \in 1 .. n /\ i \in Nat /\ i <= MaxQueue
      BY <1>1
    <3>2. imuQueue'[p][i] = q[i + 1]
      BY <1>4, <1>5
    <3> QED BY <1>1, <3>1, <3>2
  <2>2. Number(Number(a + 1) + i) = Number(a + (i + 1))
    <3> HIDE DEF a
    <3> QED BY <1>1, <2>1, NextNumber
  <2> QED BY <1>4, <2>1, <2>2
<1>7. nextSample[p] = Number(lastImu'[p] + ((n - 1) + 1))
  <2>1. (n - 1) + 1 = n
    BY <1>1
  <2>2. Number(Number(a + 1) + n) = Number(a + (n + 1))
    <3> HIDE DEF a, n
    <3> QED BY <1>1, NextNumber
  <2> QED BY <1>1, <1>4, <2>1, <2>2
<1>8. ImuTypes'
  BY <1>1, <1>2, <1>3, <1>5 DEF ImuTypes
<1>9. ListWatched'
  BY <1>1, <1>2, <1>4 DEF ListWatched, ImuTypes, Slots
<1>10. ASSUME NEW k \in Slots
       PROVE  /\ lastImu'[k] < W
              /\ Len(imuQueue'[k]) <= MaxQueue
              /\ \A i \in 1 .. Len(imuQueue'[k]) : imuQueue'[k][i] = Number(lastImu'[k] + i)
              /\ nextSample'[k] = Number(lastImu'[k] + (Len(imuQueue'[k]) + 1))
  <2>1. CASE k = p
    <3>1. \A i \in 1 .. Len(imuQueue'[k]) : imuQueue'[k][i] = Number(lastImu'[k] + i)
      BY <1>4, <1>5, <1>6, <2>1
    <3>2. nextSample'[k] = Number(lastImu'[k] + (Len(imuQueue'[k]) + 1))
      BY <1>2, <1>4, <1>5, <1>7, <2>1
    <3>3. lastImu'[k] < W
      BY <1>3, <1>4, <2>1
    <3>4. Len(imuQueue'[k]) <= MaxQueue
      <4>1. n - 1 <= MaxQueue
        BY <1>1
      <4> QED BY <1>4, <1>5, <2>1, <4>1
    <3> QED BY <3>1, <3>2, <3>3, <3>4
  <2>2. CASE k # p
    BY <1>2, <1>4, <2>2 DEF ListOrdered
  <2> QED BY <2>1, <2>2
<1>11. ListOrdered'
  BY <1>2, <1>10 DEF ListOrdered
<1>12. lastImu' = [lastImu EXCEPT ![p] = (@ + 1) % W]
  BY <1>2, <1>3 DEF Number
<1> QED BY <1>8, <1>9, <1>11, <1>12

\* StorageImuData goes idle only after somebody else watches its list.
LEMMA StoreStepKeepsImu == ImuInv /\ StoreStep => ImuInv'
<1> SUFFICES ASSUME ImuInv, StoreStep PROVE ImuInv'
  OBVIOUS
<1> USE DEF ImuInv, ImuTypes, ListWatched, ListOrdered, pollVars, exitVars
<1>1. CASE TestImuQueue
  BY <1>1 DEF TestImuQueue
<1>2. CASE TestImuCount
  BY <1>2 DEF TestImuCount
<1>3. CASE SignalImu
  BY <1>3 DEF SignalImu
<1> QED BY <1>1, <1>2, <1>3 DEF StoreStep

\* The loop of DistributeImuData leaves no polled list behind unwatched.
LEMMA ThreadKeepsImu == ImuInv /\ ImuThreadStep => ImuInv'
<1> SUFFICES ASSUME ImuInv, ImuThreadStep PROVE ImuInv'
  OBVIOUS
<1>1. NumLidars \in Nat \ {0}
  BY ImuAssumption
<1> USE DEF ImuInv, ImuTypes, ListWatched, ListOrdered, storeVars, exitVars
<1>2. CASE WakeImuThread
  BY <1>2 DEF WakeImuThread
<1>3. CASE EnterDistributeImu
  BY <1>3 DEF EnterDistributeImu
<1>4. CASE WaitImu
  BY <1>1, <1>4 DEF WaitImu, Slots
<1>5. CASE ScanImuLidar
  <2>1. CASE ilidar = NumLidars
    <3>1. /\ ipc = "scan" /\ ipc' = "future"
          /\ UNCHANGED <<imuQueue, nextSample, spc, slidar, sampling, imuCount, ilidar, lastImu, imuPolled, requestExit>>
      BY <1>5, <2>1 DEF ScanImuLidar
    <3>2. \A l \in imuPolled : ~(ilidar <= l)
      BY <1>1, <2>1 DEF Slots
    <3> QED BY <3>1, <3>2
  <2>2. CASE ilidar # NumLidars /\ sampling[ilidar]
    <3>1. /\ ipc = "scan" /\ ipc' = "poll" /\ imuPolled' = imuPolled \union {ilidar}
          /\ UNCHANGED <<imuQueue, nextSample, spc, slidar, sampling, imuCount, ilidar, lastImu, requestExit>>
      BY <1>5, <2>2 DEF ScanImuLidar
    <3>2. ilidar \in Slots /\ ilidar <= ilidar
      BY <1>1, <2>2 DEF Slots
    <3> QED BY <2>2, <3>1, <3>2
  <2>3. CASE ilidar # NumLidars /\ ~sampling[ilidar]
    <3>1. ilidar \in Slots /\ ilidar + 1 \in 0 .. NumLidars /\ ilidar \notin imuPolled
      BY <1>1, <2>3 DEF Slots
    <3>2. \A l \in imuPolled : ilidar <= l => ilidar + 1 <= l
      BY <3>1 DEF Slots
    <3> QED BY <1>5, <2>3, <3>1, <3>2 DEF ScanImuLidar
  <2> QED BY <2>1, <2>2, <2>3
<1>6. CASE PollImuLidar
  <2>1. CASE ipc' = "publish"
    BY <1>6, <2>1 DEF PollImuLidar
  <2>2. CASE ipc' = "scan"
    <3>1. /\ ipc = "poll" /\ ilidar' = ilidar + 1
          /\ requestExit \/ imuQueue[ilidar] = <<>>
          /\ UNCHANGED <<imuQueue, nextSample, spc, slidar, sampling, imuCount, lastImu, imuPolled, requestExit>>
      BY <1>6, <2>2 DEF PollImuLidar
    <3>2. ilidar \in Slots /\ ilidar + 1 \in 0 .. NumLidars
      BY <1>1, <3>1 DEF Slots
    <3>3. \A l \in imuPolled : ilidar <= l => l = ilidar \/ ilidar + 1 <= l
      BY <3>2 DEF Slots
    <3> QED BY <2>2, <3>1, <3>2, <3>3
  <2> QED BY <1>6, <2>1, <2>2 DEF PollImuLidar
<1>7. CASE PublishImuData
  BY <1>7, PublishKeepsImu
<1>8. CASE TestImuFuture
  BY <1>8 DEF TestImuFuture
<1> QED BY <1>2, <1>3, <1>4, <1>5, <1>6, <1>7, <1>8 DEF ImuThreadStep

\* The rest of the node only starts the thread, joins it and asks it to exit.
LEMMA ImuStep == LifeInv /\ ImuInv /\ [Next]_vars => ImuInv'
<1> SUFFICES ASSUME LifeInv, ImuInv, [Next]_vars PROVE ImuInv'
  OBVIOUS
<1>1. ASSUME NEW l \in Slots, ReceiveImu(l) PROVE ImuInv'
  BY <1>1, StoreKeepsImu DEF ReceiveImu
<1>2. CASE StoreImu
  BY <1>2, StoreStepKeepsImu DEF StoreImu
<1>3. CASE PollImu
  BY <1>3, ThreadKeepsImu DEF PollImu
<1> USE DEF ImuInv, ImuTypes, ListWatched, ListOrdered
<1>4. ASSUME NEW l \in Slots, AcknowledgeSettings(l) PROVE ImuInv'
  BY <1>4 DEF AcknowledgeSettings, StartSampling, storeVars, pollVars, exitVars
<1>5. CASE UNCHANGED <<imuQueue, imuCount, nextSample, slidar, spc, sampling, ilidar, lastImu, imuPolled>>
           /\ ipc' \in {ipc, "sleep", "none"} /\ (ipc' # ipc => ipc \in {"none", "done"})
           /\ (requestExit => requestExit')
  BY <1>5
<1>6. ASSUME NEW l \in Launches, CreateNode(l) PROVE UNCHANGED <<imuVars, requestExit>>
  BY <1>6 DEF CreateNode, exitVars
<1>7. ConstructorStep => StartThreads \/ UNCHANGED <<imuVars, requestExit>>
  BY DEF ConstructorStep, CreateMonitor, InvalidSource, RefuseIdentity, RegisterLds, AlreadyInited,
     InitLidarsFails, SkipLivoxLidar, PrepareLivoxLidar, SdkInitFails, SdkInit, RegisterInfoChange,
     RegisterDiagnostics, SetPointCloudsCallback, SetImuDataCallback, SetPointCloudConfig, InitSucceeded,
     InitFailed, exitVars
<1>8. ResetTimers \/ DestructorStep => RequestExit \/ JoinThreads \/ UNCHANGED <<imuVars, requestExit>>
  BY DEF DestructorStep, ResetTimers, StopHeartbeat, SetExitSignal, DestroyMembers, PrepareExit, SdkStop,
     SdkUninit, ReleaseLds, DestroyNode, exitVars
<1>9. PcdThreadStep \/ PushFrame \/ FinishObserve => UNCHANGED <<imuVars, requestExit>>
  BY DEF PcdThreadStep, WakePcdThread, EnterDistribute, WaitPcd, PublishClouds, TestPcdFuture, PollTo,
     PushFrame, FinishObserve, exitVars
<1>10. ASSUME NEW r \in Reports, ChangeInfo(r) PROVE UNCHANGED <<imuVars, requestExit>>
  BY <1>10 DEF ChangeInfo, exitVars
<1>11. ASSUME NEW s \in Serials, SetByClient(s) PROVE UNCHANGED <<imuVars, requestExit>>
  BY <1>11 DEF SetByClient, exitVars
<1>12. CASE UNCHANGED <<imuVars, requestExit>>
  BY <1>5, <1>12 DEF imuVars, storeVars, pollVars
<1>13. CASE StartThreads
  BY <1>5, <1>13 DEF StartThreads, storeVars, LifeInv, ThreadsOwned, Joining
<1>14. CASE JoinThreads
  BY <1>5, <1>14 DEF JoinThreads, storeVars, exitVars
<1>15. CASE RequestExit
  BY <1>5, <1>15 DEF RequestExit, imuVars, storeVars, pollVars
<1>16. CASE UNCHANGED vars
  BY <1>12, <1>16 DEF vars, exitVars
<1> HIDE DEF ImuInv
<1> QED
  BY <1>1, <1>2, <1>3, <1>4, <1>6, <1>7, <1>8, <1>9, <1>10, <1>11, <1>12, <1>13, <1>14, <1>15, <1>16
  DEF Next, LidarStep

\* No sample of a polled lidar waits while the polling thread sleeps with
\* nothing to wake it, for any number of lidars and any interleaving of the
\* unlocked reads of StorageImuData.
THEOREM NoSampleStranded == Spec => []ImuNeverStranded
<1>1. LifeInv /\ ImuInv /\ [Next]_vars => (LifeInv /\ ImuInv)'
  BY LifeStep, ImuStep
<1>2. ImuInv => ImuNeverStranded
  BY DEF ImuInv, ImuTypes, ListWatched, ImuNeverStranded
<1> QED BY LifeInit, ImuInvInit, <1>1, <1>2, PTL DEF Spec

\* Every publication takes the next sample StorageImuData received, for any
\* number of lidars and any length of their lists.
THEOREM SamplesInOrder == Spec => ImuInOrder
<1> DEFINE InOrder == IF ipc = "publish" THEN lastImu' = [lastImu EXCEPT ![ilidar] = (@ + 1) % W]
                                         ELSE lastImu' = lastImu
<1>1. LifeInv /\ ImuInv /\ [Next]_vars => [InOrder]_<<ipc, lastImu>>
  <2> SUFFICES ASSUME LifeInv, ImuInv, [Next]_vars PROVE InOrder \/ UNCHANGED <<ipc, lastImu>>
    OBVIOUS
  <2>1. CASE PollImu
    <3>1. PublishImuData => ipc = "publish"
      BY DEF PublishImuData
    <3>2. PublishImuData \/ (ipc # "publish" /\ UNCHANGED lastImu)
      BY <2>1 DEF PollImu, ImuThreadStep, WakeImuThread, EnterDistributeImu, WaitImu, ScanImuLidar,
         PollImuLidar, TestImuFuture
    <3> QED BY <3>1, <3>2, PublishKeepsImu
  <2>2. CASE StartThreads \/ JoinThreads
    BY <2>2 DEF StartThreads, JoinThreads, LifeInv, ThreadsOwned, Joining
  <2>3. (\E l \in Launches : CreateNode(l)) \/ ConstructorStep \/ ResetTimers \/ DestructorStep
          => StartThreads \/ JoinThreads \/ UNCHANGED <<ipc, lastImu>>
    BY DEF CreateNode, ConstructorStep, CreateMonitor, InvalidSource, RefuseIdentity, RegisterLds, AlreadyInited,
       InitLidarsFails, SkipLivoxLidar, PrepareLivoxLidar, SdkInitFails, SdkInit, RegisterInfoChange,
       RegisterDiagnostics, SetPointCloudsCallback, SetImuDataCallback, SetPointCloudConfig, InitSucceeded,
       InitFailed, ResetTimers, DestructorStep, StopHeartbeat, RequestExit, SetExitSignal,
       DestroyMembers, PrepareExit, SdkStop, SdkUninit, ReleaseLds, DestroyNode, imuVars, pollVars
  <2>4. PcdThreadStep \/ PushFrame \/ LidarStep \/ StoreImu => UNCHANGED <<ipc, lastImu>>
    BY DEF PcdThreadStep, WakePcdThread, EnterDistribute, WaitPcd, PublishClouds, TestPcdFuture, PollTo,
       PushFrame, LidarStep, ReceiveImu, StorageImuData, AcknowledgeSettings, StartSampling, StoreImu, StoreStep,
       TestImuQueue, TestImuCount, SignalImu, imuVars, pollVars
  <2>5. (\E r \in Reports : ChangeInfo(r)) \/ FinishObserve \/ (\E s \in Serials : SetByClient(s))
          => UNCHANGED <<ipc, lastImu>>
    BY DEF ChangeInfo, FinishObserve, SetByClient, imuVars, pollVars
  <2>6. CASE UNCHANGED vars
    BY <2>6 DEF vars, imuVars, pollVars
  <2> QED BY <2>1, <2>2, <2>3, <2>4, <2>5, <2>6 DEF Next
<1>2. LifeInv /\ ImuInv /\ [Next]_vars => (LifeInv /\ ImuInv)'
  BY LifeStep, ImuStep
<1> QED BY LifeInit, ImuInvInit, <1>1, <1>2, PTL DEF Spec, ImuInOrder

----------------------------------------------------------------------------
(* What Idle and Running promise. *)

\* The constructor after LoadHeartbeatConfig, up to the result of InitLdsLidar.
Building == {"dtc", "source", "init", "sdk", "succeeded", "failed"} \union Registering
\* The node is constructed, its heartbeat beats.
Beating == {"threads", "up", "heartbeat"}

Connected ==
  /\ sdk = "up" /\ {"info", "packets", "imu", "frames"} \subseteq callbacks
  /\ launch.dtc => "status" \in callbacks
  /\ requestExit => failedBefore

\* The callbacks registered so far.
RegisteredInOrder ==
  launch.livox =>
    /\ npc \in Registering \union {"succeeded"} => sdk = "up"
    /\ npc \in (Registering \ {"register"}) \union {"succeeded"} => "info" \in callbacks
    /\ npc \in {"handlers", "imu", "framing", "succeeded"} /\ monitor => "status" \in callbacks
    /\ npc \in {"imu", "framing", "succeeded"} => "packets" \in callbacks
    /\ npc \in {"framing", "succeeded"} => "imu" \in callbacks
    /\ npc = "succeeded" => "frames" \in callbacks

\* An earlier node either failed or left the singleton initialised with the
\* exit request set; a node that fails has no lidar to publish for.
PastRemembered ==
  /\ npc \in {"init", "sdk", "succeeded"} \union Registering => monitor = launch.dtc
  /\ npc \in {"absent", "dtc", "source"} => ~ldsSet
  /\ npc = "succeeded" => initialized /\ (requestExit => failedBefore)
  /\ requestExit => failedBefore \/ initialized
  /\ npc \in {"threads", "up", "heartbeat", "request"} /\ ldsSet => failedBefore \/ initialized
  /\ npc \in {"absent", "dtc", "source", "init"} /\ initialized => requestExit
  /\ npc \in {"signal", "join", "members", "lddc", "uninit", "drain", "recorder", "base"} => requestExit
  /\ \A l \in Slots : sampling[l] => sdk # "down" \/ initialized
  /\ npc = "failed" \/ (heartbeat = "Fault" /\ ldsSet) =>
       requestExit \/ \A l \in Slots : ~sampling[l]

\* The heartbeat follows the constructor, and only a thread that may publish
\* goes on to Running.
HeartbeatFollows ==
  /\ heartbeat \in {"none", "stopped", "NotReady", "Fault", "Idle", "Running"}
  /\ heartbeat = "NotReady" => npc \in Building
  /\ heartbeat = "Fault" => npc \in Beating /\ sdk = "down"
  /\ heartbeat \in {"Idle", "Running"} => npc \in Beating /\ (launch.livox => Connected)
  /\ ppc \in {"wait", "publish"} => ldsSet /\ (requestExit => npc \notin {"up", "heartbeat", "request"})

ServedInv == sampling \in [Slots -> BOOLEAN] /\ RegisteredInOrder /\ PastRemembered /\ HeartbeatFollows

\* A new process has nothing to serve.
LEMMA ServedInit == Init => ServedInv
BY DEF Init, ImuInit, ServedInv, RegisteredInOrder, PastRemembered, HeartbeatFollows, Registering, Building,
       Beating

\* The constructor reports Idle only after everything is registered.
LEMMA ServedConstruct ==
  LifeInv /\ ServedInv /\ ((\E l \in Launches : CreateNode(l)) \/ ConstructorStep) => ServedInv'
<1> SUFFICES ASSUME LifeInv, ServedInv, (\E l \in Launches : CreateNode(l)) \/ ConstructorStep
             PROVE  ServedInv'
  OBVIOUS
<1>0. SdkOwned /\ ThreadsOwned
  BY DEF LifeInv
<1> USE <1>0 DEF ServedInv, RegisteredInOrder, PastRemembered, HeartbeatFollows, Connected, Registering, Building,
            Beating, SdkOwned, ThreadsOwned, Served, Joining, nodeVars, ldsVars, imuVars, exitVars
<1>1. ASSUME NEW l \in Launches, CreateNode(l) PROVE ServedInv'
  BY <1>1 DEF CreateNode
<1>2. CASE CreateMonitor
  BY <1>2 DEF CreateMonitor, Abandon
<1>3. CASE InvalidSource
  BY <1>3 DEF InvalidSource, ToFault
<1>4. CASE RefuseIdentity
  BY <1>4 DEF RefuseIdentity, Abandon
<1>5. CASE RegisterLds
  BY <1>5 DEF RegisterLds
<1>6. CASE AlreadyInited
  BY <1>6 DEF AlreadyInited
<1>7. CASE InitLidarsFails
  BY <1>7 DEF InitLidarsFails
<1>8. CASE SkipLivoxLidar
  BY <1>8 DEF SkipLivoxLidar
<1>9. CASE PrepareLivoxLidar
  BY <1>9 DEF PrepareLivoxLidar
<1>10. CASE SdkInitFails
  BY <1>10 DEF SdkInitFails
<1>11. CASE SdkInit
  BY <1>11 DEF SdkInit
<1>12. CASE RegisterInfoChange
  BY <1>12 DEF RegisterInfoChange
<1>13. CASE RegisterDiagnostics
  BY <1>13 DEF RegisterDiagnostics
<1>14. CASE SetPointCloudsCallback
  BY <1>14 DEF SetPointCloudsCallback
<1>15. CASE SetImuDataCallback
  BY <1>15 DEF SetImuDataCallback
<1>16. CASE SetPointCloudConfig
  BY <1>16 DEF SetPointCloudConfig
<1>17. CASE InitSucceeded
  BY <1>17 DEF InitSucceeded
<1>18. CASE InitFailed
  BY <1>18 DEF InitFailed, ToFault
<1>19. CASE StartThreads
  BY <1>19 DEF StartThreads
<1> QED
  BY <1>1, <1>2, <1>3, <1>4, <1>5, <1>6, <1>7, <1>8, <1>9, <1>10, <1>11, <1>12, <1>13, <1>14, <1>15, <1>16,
     <1>17, <1>18, <1>19
  DEF ConstructorStep

\* The destructor stops the heartbeat before it withdraws anything.
LEMMA ServedDestroy == LifeInv /\ ServedInv /\ (ResetTimers \/ DestructorStep) => ServedInv'
<1> SUFFICES ASSUME LifeInv, ServedInv, ResetTimers \/ DestructorStep PROVE ServedInv'
  OBVIOUS
<1>0. SdkOwned /\ ThreadsOwned
  BY DEF LifeInv
<1> USE <1>0 DEF ServedInv, RegisteredInOrder, PastRemembered, HeartbeatFollows, Connected, Registering, Building,
            Beating, SdkOwned, ThreadsOwned, Served, Joining, nodeVars, ldsVars, imuVars, exitVars
<1>1. CASE ResetTimers
  BY <1>1 DEF ResetTimers
<1>2. CASE StopHeartbeat
  BY <1>2 DEF StopHeartbeat
<1>3. CASE RequestExit
  BY <1>3 DEF RequestExit
<1>4. CASE SetExitSignal
  BY <1>4 DEF SetExitSignal
<1>5. CASE JoinThreads
  BY <1>5 DEF JoinThreads
<1>6. CASE DestroyMembers
  BY <1>6 DEF DestroyMembers
<1>7. CASE PrepareExit
  BY <1>7 DEF PrepareExit
<1>8. CASE SdkStop
  BY <1>8 DEF SdkStop
<1>9. CASE SdkUninit
  BY <1>9 DEF SdkUninit
<1>10. CASE ReleaseLds
  BY <1>10 DEF ReleaseLds
<1>11. CASE DestroyNode
  BY <1>11 DEF DestroyNode
<1> QED
  BY <1>1, <1>2, <1>3, <1>4, <1>5, <1>6, <1>7, <1>8, <1>9, <1>10, <1>11 DEF DestructorStep

\* A published cloud sets Running only where Idle was deserved.
LEMMA ServedThreads == LifeInv /\ ServedInv /\ (Threads \/ UNCHANGED vars) => ServedInv'
<1> SUFFICES ASSUME LifeInv, ServedInv, Threads \/ UNCHANGED vars PROVE ServedInv'
  OBVIOUS
<1>0. SdkOwned /\ ThreadsOwned
  BY DEF LifeInv
<1> USE <1>0 DEF ServedInv, RegisteredInOrder, PastRemembered, HeartbeatFollows, Connected, Registering, Building,
            Beating, SdkOwned, ThreadsOwned, Served, Joining, nodeVars, ldsVars, lifeVars, imuVars, exitVars, PollTo
<1>1. CASE WakePcdThread
  BY <1>1 DEF WakePcdThread
<1>2. CASE EnterDistribute
  BY <1>2 DEF EnterDistribute
<1>3. CASE WaitPcd
  BY <1>3 DEF WaitPcd
<1>4. CASE PublishClouds
  BY <1>4 DEF PublishClouds
<1>5. CASE TestPcdFuture
  BY <1>5 DEF TestPcdFuture
<1>6. CASE PollImu
  <2>1. UNCHANGED <<sampling, exitVars>>
    BY <1>6 DEF PollImu, ImuThreadStep, WakeImuThread, EnterDistributeImu, WaitImu, ScanImuLidar,
       PollImuLidar, PublishImuData, TestImuFuture
  <2> QED BY <1>6, <2>1 DEF PollImu
<1>7. CASE PushFrame
  BY <1>7 DEF PushFrame
<1>8. ASSUME NEW l \in Slots, ReceiveImu(l) PROVE ServedInv'
  BY <1>8 DEF ReceiveImu, StorageImuData
<1>9. ASSUME NEW l \in Slots, AcknowledgeSettings(l) PROVE ServedInv'
  BY <1>9 DEF AcknowledgeSettings, StartSampling, Delivers
<1>10. CASE StoreImu
  BY <1>10 DEF StoreImu, StoreStep, TestImuQueue, TestImuCount, SignalImu
<1>11. ASSUME NEW r \in Reports, ChangeInfo(r) PROVE ServedInv'
  BY <1>11 DEF ChangeInfo
<1>12. CASE FinishObserve
  BY <1>12 DEF FinishObserve
<1>13. ASSUME NEW s \in Serials, SetByClient(s) PROVE ServedInv'
  BY <1>13 DEF SetByClient
<1>14. CASE UNCHANGED vars
  BY <1>14 DEF vars
<1> QED
  BY <1>1, <1>2, <1>3, <1>4, <1>5, <1>6, <1>7, <1>8, <1>9, <1>10, <1>11, <1>12, <1>13, <1>14
  DEF Threads, PcdThreadStep, LidarStep

\* A node that reports Idle or Running is connected to the SDK, and its
\* threads can only have been told to exit if an earlier node had failed, for
\* any sequence of nodes and any way to start them.
THEOREM IdleNodeIsServed == Spec => []IdleIsServed
<1>1. LifeInv /\ ServedInv /\ [Next]_vars => (LifeInv /\ ServedInv)'
  BY LifeStep, ServedConstruct, ServedDestroy, ServedThreads DEF Next, Threads
<1>2. ServedInv => IdleIsServed
  BY DEF ServedInv, HeartbeatFollows, Connected, IdleIsServed
<1> QED BY LifeInit, ServedInit, <1>1, <1>2, PTL DEF Spec
============================================================================
