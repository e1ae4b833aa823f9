---------------------------- MODULE ImuDelivery ----------------------------
(***************************************************************************)
(* The IMU path: the SDK thread appends samples to one locked list per     *)
(* lidar (Lds::StorageImuData, comm/lidar_imu_data_queue.cpp) and wakes    *)
(* ImuDataPollThread through a semaphore whose count it reads without the  *)
(* lock; the thread drains the lists of the lidars that are Sampling       *)
(* (Lddc::DistributeImuData).  NodeLifecycle creates and joins the thread  *)
(* and decides when the SDK delivers samples.                              *)
(*                                                                         *)
(* The lists are unbounded in the code.  MaxQueue bounds the samples the   *)
(* model tells apart: a push on a longer list runs every step of           *)
(* StorageImuData but adds no numbered sample.                             *)
(***************************************************************************)
EXTENDS Integers, Sequences

CONSTANTS
  NumLidars,  \* the entries of lidars_[] in use
  MaxQueue,   \* bound: samples told apart in one list
  W           \* samples of a lidar are numbered modulo W

ASSUME ImuAssumption ==
  NumLidars \in Nat \ {0} /\ MaxQueue \in Nat \ {0} /\ W \in Nat /\ W > MaxQueue

VARIABLES
  imuQueue,     \* imu_data_queue_ of each lidar
  nextSample,   \* number of the next sample of each lidar
  sampling,     \* connect_state = kConnectStateSampling
  imuCount,     \* imu_semaphore_
  spc, slidar,  \* the SDK thread inside StorageImuData
  ipc, ilidar,  \* ImuDataPollThread
  lastImu,      \* history: number published last, per lidar
  imuPolled,    \* history: lidars some pass of the thread found Sampling
  ldsSet,       \* Lddc::lds_ is not null
  requestExit,  \* Lds::request_exit_
  exitSignal    \* exit_signal_ is set

storeVars == <<nextSample, spc, slidar>>
pollVars  == <<ipc, ilidar, lastImu, imuPolled>>
exitVars  == <<ldsSet, requestExit, exitSignal>>
imuVars   == <<imuQueue, imuCount, sampling, storeVars, pollVars>>

Slots == 0 .. NumLidars - 1

ImuInit ==
  /\ imuQueue = [l \in Slots |-> <<>>]
  /\ nextSample = [l \in Slots |-> 0]
  /\ sampling = [l \in Slots |-> FALSE]
  /\ imuCount = 0
  /\ spc = "idle" /\ slidar = 0
  /\ ipc = "none" /\ ilidar = 0
  /\ lastImu = [l \in Slots |-> W - 1]
  /\ imuPolled = {}

----------------------------------------------------------------------------
(* The SDK thread. *)

\* LidarImuDataQueue::Push, one critical section of the list's mutex.
Push(q, sample) == Append(q, sample)

\* LidarImuDataCallback and StorageImuData up to the push: GetIndex finds the
\* slot of the lidar, and the sample goes to the end of its list.
StorageImuData(l) ==
  /\ spc = "idle"
  /\ slidar' = l /\ spc' = "empty"
  /\ \/ /\ Len(imuQueue[l]) < MaxQueue
        /\ imuQueue' = [imuQueue EXCEPT ![l] = Push(@, nextSample[l])]
        /\ nextSample' = [nextSample EXCEPT ![l] = (@ + 1) % W]
     \/ Len(imuQueue[l]) = MaxQueue /\ UNCHANGED <<imuQueue, nextSample>>
  /\ UNCHANGED <<sampling, imuCount, pollVars, exitVars>>

\* if (!imu_queue->Empty())
TestImuQueue ==
  /\ spc = "empty"
  /\ spc' = IF imuQueue[slidar] = <<>> THEN "idle" ELSE "count"
  /\ UNCHANGED <<imuQueue, nextSample, slidar, sampling, imuCount, pollVars, exitVars>>

\* if (imu_semaphore_.GetCount() <= 0); the list's mutex was released just
\* before, so the read is not older than the test of the list.
TestImuCount ==
  /\ spc = "count"
  /\ spc' = IF imuCount <= 0 THEN "signal" ELSE "idle"
  /\ UNCHANGED <<imuQueue, nextSample, slidar, sampling, imuCount, pollVars, exitVars>>

SignalImu ==
  /\ spc = "signal"
  /\ imuCount' = imuCount + 1
  /\ spc' = "idle"
  /\ UNCHANGED <<imuQueue, nextSample, slidar, sampling, pollVars, exitVars>>

StoreStep == TestImuQueue \/ TestImuCount \/ SignalImu

\* The lidar has acknowledged its settings (DeviceConfig).
StartSampling(l) ==
  /\ ~sampling[l]
  /\ sampling' = [sampling EXCEPT ![l] = TRUE]
  /\ UNCHANGED <<imuQueue, imuCount, storeVars, pollVars, exitVars>>

----------------------------------------------------------------------------
(* ImuDataPollThread. *)

\* sleep_for(3 s) ends.
WakeImuThread ==
  /\ ipc = "sleep" /\ ipc' = "enter"
  /\ UNCHANGED <<imuQueue, storeVars, sampling, imuCount, ilidar, lastImu, imuPolled, exitVars>>

\* DistributeImuData returns at once without a data source or after the
\* exit request.
EnterDistributeImu ==
  /\ ipc = "enter"
  /\ ipc' = IF ~ldsSet \/ requestExit THEN "future" ELSE "wait"
  /\ UNCHANGED <<imuQueue, storeVars, sampling, imuCount, ilidar, lastImu, imuPolled, exitVars>>

WaitImu ==
  /\ ipc = "wait" /\ imuCount > 0
  /\ imuCount' = imuCount - 1
  /\ ipc' = "scan" /\ ilidar' = 0
  /\ UNCHANGED <<imuQueue, storeVars, sampling, lastImu, imuPolled, exitVars>>

\* The loop over lidars_[] passes over a lidar that is not Sampling.
ScanImuLidar ==
  /\ ipc = "scan"
  /\ IF ilidar = NumLidars
       THEN ipc' = "future" /\ UNCHANGED <<ilidar, imuPolled>>
       ELSE /\ imuPolled' = IF sampling[ilidar] THEN imuPolled \union {ilidar} ELSE imuPolled
            /\ ipc' = IF sampling[ilidar] THEN "poll" ELSE "scan"
            /\ ilidar' = IF sampling[ilidar] THEN ilidar ELSE ilidar + 1
  /\ UNCHANGED <<imuQueue, storeVars, sampling, imuCount, lastImu, exitVars>>

\* while (!IsRequestExit() && !Empty()) of PollingLidarImuData.
PollImuLidar ==
  /\ ipc = "poll"
  /\ \/ /\ ~requestExit /\ imuQueue[ilidar] # <<>>
        /\ ipc' = "publish" /\ UNCHANGED ilidar
     \/ /\ requestExit \/ imuQueue[ilidar] = <<>>
        /\ ipc' = "scan" /\ ilidar' = ilidar + 1
  /\ UNCHANGED <<imuQueue, storeVars, sampling, imuCount, lastImu, imuPolled, exitVars>>

\* Mutant of Pop: the sample is read and left in the list.
PopKeeps(q) == <<Head(q), q>>

\* LidarImuDataQueue::Pop: the oldest sample and the rest.
Pop(q) == <<Head(q), Tail(q)>>

\* Mutant of PublishImuData: the caller's loop is an if, one sample per signal.
PublishImuDataOnce ==
  /\ ipc = "publish" /\ ipc' = "scan" /\ ilidar' = ilidar + 1
  /\ LET popped == Pop(imuQueue[ilidar]) IN
       /\ lastImu' = [lastImu EXCEPT ![ilidar] = popped[1]]
       /\ imuQueue' = [imuQueue EXCEPT ![ilidar] = popped[2]]
  /\ UNCHANGED <<storeVars, sampling, imuCount, imuPolled, exitVars>>

\* PublishImuData: the sample becomes a message on the lidar's topic, or on
\* the common one, whose publisher is created at its first use.  Pop would
\* fail on an empty list, which cannot be: nobody else takes samples.
PublishImuData ==
  /\ ipc = "publish" /\ ipc' = "poll"
  /\ LET popped == Pop(imuQueue[ilidar]) IN
       /\ lastImu' = [lastImu EXCEPT ![ilidar] = popped[1]]
       /\ imuQueue' = [imuQueue EXCEPT ![ilidar] = popped[2]]
  /\ UNCHANGED <<storeVars, sampling, imuCount, ilidar, imuPolled, exitVars>>

\* future_.wait_for(0) decides whether the thread goes round again.
TestImuFuture ==
  /\ ipc = "future"
  /\ ipc' = IF exitSignal THEN "done" ELSE "enter"
  /\ UNCHANGED <<imuQueue, storeVars, sampling, imuCount, ilidar, lastImu, imuPolled, exitVars>>

ImuThreadStep ==
  \/ WakeImuThread \/ EnterDistributeImu \/ WaitImu \/ ScanImuLidar \/ PollImuLidar
  \/ PublishImuData \/ TestImuFuture

----------------------------------------------------------------------------
(* Properties. *)

\* Every publication, which is the step that leaves "publish", takes the next
\* sample StorageImuData received from its lidar, and nothing else publishes:
\* no sample is lost, repeated or overtaken.
ImuInOrder ==
  [][IF ipc = "publish" THEN lastImu' = [lastImu EXCEPT ![ilidar] = (@ + 1) % W]
                        ELSE lastImu' = lastImu]_<<ipc, lastImu>>

\* When ImuDataPollThread is blocked in Wait() with nothing to wake it and no
\* StorageImuData is under way, no sample waits in a list it has polled: the
\* unlocked GetCount() never hides a wakeup here, because both threads pass
\* the list's mutex between the list and the count.
ImuNeverStranded ==
  ipc = "wait" /\ imuCount = 0 /\ spc = "idle" => \A l \in imuPolled : imuQueue[l] = <<>>
============================================================================
