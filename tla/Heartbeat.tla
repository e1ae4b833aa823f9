----------------------------- MODULE Heartbeat -----------------------------
(***************************************************************************)
(* The node heartbeat (functional_safety_heartbeat.cpp) and the threads    *)
(* that feed it: the DriverNode constructor sets the state after the SDK   *)
(* is initialised, the publishing thread records work, the diagnostic      *)
(* timer replaces faults, the worker publishes periodically and the        *)
(* destructor stops it.  state_ and work_seq_ are relaxed atomics that     *)
(* PublishNow reads one after the other.                                   *)
(***************************************************************************)
EXTENDS Integers

CONSTANTS
  Codes,     \* DTC codes the diagnostic timer owns; zero is not one of them
  W,         \* number of values of heartbeat_seq_ (2^32)
  MaxWork    \* bound: point clouds published, fewer than work_seq_ has values (2^32)

ASSUME HeartbeatAssumption == W \in Nat /\ W > 1 /\ MaxWork \in Nat

States == {"NotReady", "Idle", "Running", "Fault"}
Callers == {"ctor", "worker"}   \* the threads that call PublishNow
None == "none"

VARIABLES
  state, workSeq, heartbeatSeq, activeFaults, stop,  \* the members
  publishMutex, faultMutex,
  cpc,              \* the constructor of DriverNode
  wpc, notified,    \* HeartbeatPublisher::Run, and a wakeup of its wait
  kpc,              \* the published callback of the publishing thread
  tpc, failed, passed,  \* UpdateFaults and its batch
  spc,              \* Stop
  pub, msg,         \* PublishNow: where each caller is, the message it builds
  last,             \* the message published last
  batch             \* history: the codes the last complete batch left active

publishVars == <<publishMutex, pub, msg, last, heartbeatSeq>>
faultVars   == <<activeFaults, faultMutex, tpc, failed, passed, batch>>
stopVars    == <<stop, notified, spc>>
vars == <<state, workSeq, publishVars, faultVars, stopVars, cpc, wpc, kpc>>

NoMessage == [seq |-> 0, work |-> 0, state |-> "NotReady", faults |-> {}]

\* The HeartbeatPublisher exists and its thread runs; the driver initialises.
Init ==
  /\ state = "NotReady" /\ workSeq = 0 /\ heartbeatSeq = 0
  /\ activeFaults = {} /\ stop = FALSE
  /\ publishMutex = None /\ faultMutex = None
  /\ cpc = "init" /\ wpc = "test" /\ notified = FALSE /\ kpc = "off"
  /\ tpc = "idle" /\ failed = {} /\ passed = {} /\ batch = {}
  /\ spc = "no"
  /\ pub = [c \in Callers |-> "idle"]
  /\ msg = [c \in Callers |-> NoMessage] /\ last = NoMessage

----------------------------------------------------------------------------
(* The constructor of DriverNode and the published callback. *)

\* Mutant of InitSucceeds: the polling threads start before the state is set.
InitSucceedsLate ==
  /\ cpc = "init"
  /\ \/ kpc = "off" /\ kpc' = "record" /\ UNCHANGED <<state, cpc>>
     \/ kpc # "off" /\ state' = "Idle" /\ cpc' = "done" /\ UNCHANGED kpc
  /\ UNCHANGED <<workSeq, publishVars, faultVars, stopVars, wpc>>

\* InitLdsLidar succeeded: Idle, then the polling threads start.
InitSucceeds ==
  /\ cpc = "init"
  /\ state' = "Idle" /\ cpc' = "done" /\ kpc' = "record"
  /\ UNCHANGED <<workSeq, publishVars, faultVars, stopVars, wpc>>

\* Mutant of InitFails: the state is not set.
InitFailsSilently ==
  /\ cpc = "init"
  /\ cpc' = "publish"
  /\ pub' = [pub EXCEPT !["ctor"] = "lock"]
  /\ UNCHANGED <<state, workSeq, publishMutex, msg, last, heartbeatSeq, faultVars, stopVars, wpc, kpc>>

\* It failed, or the data source is invalid: Fault, published at once.  No
\* point cloud will come.
InitFails ==
  /\ cpc = "init"
  /\ state' = "Fault" /\ cpc' = "publish"
  /\ pub' = [pub EXCEPT !["ctor"] = "lock"]
  /\ UNCHANGED <<workSeq, publishMutex, msg, last, heartbeatSeq, faultVars, stopVars, wpc, kpc>>

FaultPublished ==
  /\ cpc = "publish" /\ pub["ctor"] = "idle"
  /\ cpc' = "done"
  /\ UNCHANGED <<state, workSeq, publishVars, faultVars, stopVars, wpc, kpc>>

\* A point cloud was published: RecordWork, then SetState(kRunning).  work_seq_
\* is an uint32_t; the model ends before its wrap, which takes years of clouds.
RecordWork ==
  /\ kpc = "record" /\ workSeq < MaxWork
  /\ workSeq' = workSeq + 1
  /\ kpc' = "set"
  /\ UNCHANGED <<state, publishVars, faultVars, stopVars, cpc, wpc>>

SetRunning ==
  /\ kpc = "set"
  /\ state' = "Running"
  /\ kpc' = "record"
  /\ UNCHANGED <<workSeq, publishVars, faultVars, stopVars, cpc, wpc>>

----------------------------------------------------------------------------
(* UpdateFaults, with fault_mutex_ held from its first to its last step. *)

\* The timer runs between the constructor and the destructor, which resets it.
BeginUpdate(f, p) ==
  /\ cpc = "done" /\ spc = "no"
  /\ tpc = "idle" /\ faultMutex = None
  /\ faultMutex' = "timer" /\ tpc' = "erase"
  /\ failed' = f /\ passed' = p
  /\ UNCHANGED <<state, workSeq, publishVars, activeFaults, batch, stopVars, cpc, wpc, kpc>>

ErasePassed ==
  /\ tpc = "erase"
  /\ activeFaults' = activeFaults \ passed
  /\ tpc' = "insert"
  /\ UNCHANGED <<state, workSeq, publishVars, faultMutex, failed, passed, batch, stopVars, cpc, wpc, kpc>>

InsertFailed ==
  /\ tpc = "insert"
  /\ activeFaults' = activeFaults \union failed
  /\ batch' = activeFaults'
  /\ faultMutex' = None /\ tpc' = "idle"
  /\ failed' = {} /\ passed' = {}
  /\ UNCHANGED <<state, workSeq, publishVars, stopVars, cpc, wpc, kpc>>

----------------------------------------------------------------------------
(* PublishNow, called by the worker and by the constructor. *)

\* Mutant of LockPublish: the mutex is missing.
LockPublishDropped(c) ==
  /\ pub[c] = "lock"
  /\ pub' = [pub EXCEPT ![c] = "seq"]
  /\ UNCHANGED <<state, workSeq, publishMutex, msg, last, heartbeatSeq, faultVars, stopVars, cpc, wpc, kpc>>

LockPublish(c) ==
  /\ pub[c] = "lock" /\ publishMutex = None
  /\ publishMutex' = c
  /\ pub' = [pub EXCEPT ![c] = "seq"]
  /\ UNCHANGED <<state, workSeq, msg, last, heartbeatSeq, faultVars, stopVars, cpc, wpc, kpc>>

AdvanceSeq(c) ==
  /\ pub[c] = "seq"
  /\ heartbeatSeq' = (heartbeatSeq + 1) % W
  /\ msg' = [msg EXCEPT ![c].seq = heartbeatSeq']
  /\ pub' = [pub EXCEPT ![c] = "work"]
  /\ UNCHANGED <<state, workSeq, publishMutex, last, faultVars, stopVars, cpc, wpc, kpc>>

LoadWork(c) ==
  /\ pub[c] = "work"
  /\ msg' = [msg EXCEPT ![c].work = workSeq]
  /\ pub' = [pub EXCEPT ![c] = "state"]
  /\ UNCHANGED <<state, workSeq, publishMutex, last, heartbeatSeq, faultVars, stopVars, cpc, wpc, kpc>>

LoadState(c) ==
  /\ pub[c] = "state"
  /\ msg' = [msg EXCEPT ![c].state = state]
  /\ pub' = [pub EXCEPT ![c] = "faults"]
  /\ UNCHANGED <<state, workSeq, publishMutex, last, heartbeatSeq, faultVars, stopVars, cpc, wpc, kpc>>

\* Mutant of CopyFaults: fault_mutex_ is not taken.
CopyFaultsUnlocked(c) ==
  /\ pub[c] = "faults"
  /\ msg' = [msg EXCEPT ![c].faults = activeFaults]
  /\ pub' = [pub EXCEPT ![c] = "publish"]
  /\ UNCHANGED <<state, workSeq, publishMutex, last, heartbeatSeq, faultVars, stopVars, cpc, wpc, kpc>>

CopyFaults(c) ==
  /\ pub[c] = "faults" /\ faultMutex = None
  /\ msg' = [msg EXCEPT ![c].faults = activeFaults]
  /\ pub' = [pub EXCEPT ![c] = "publish"]
  /\ UNCHANGED <<state, workSeq, publishMutex, last, heartbeatSeq, faultVars, stopVars, cpc, wpc, kpc>>

Publish(c) ==
  /\ pub[c] = "publish"
  /\ last' = msg[c]
  /\ msg' = [msg EXCEPT ![c] = NoMessage]
  /\ publishMutex' = None
  /\ pub' = [pub EXCEPT ![c] = "idle"]
  /\ UNCHANGED <<state, workSeq, heartbeatSeq, faultVars, stopVars, cpc, wpc, kpc>>

PublishNow(c) ==
  LockPublish(c) \/ AdvanceSeq(c) \/ LoadWork(c) \/ LoadState(c) \/ CopyFaults(c) \/ Publish(c)

----------------------------------------------------------------------------
(* HeartbeatPublisher::Run and Stop. *)

\* while (!stop_requested_)
TestStop ==
  /\ wpc = "test"
  /\ wpc' = IF stop THEN "done" ELSE "publish"
  /\ pub' = IF stop THEN pub ELSE [pub EXCEPT !["worker"] = "lock"]
  /\ UNCHANGED <<state, workSeq, publishMutex, msg, last, heartbeatSeq, faultVars, stopVars, cpc, kpc>>

BeginWait ==
  /\ wpc = "publish" /\ pub["worker"] = "idle"
  /\ wpc' = "predicate"
  /\ UNCHANGED <<state, workSeq, publishVars, faultVars, stopVars, cpc, kpc>>

\* wait_until tests its predicate; Stop does not hold wait_mutex_, so its
\* notification can fall between the test and the wait.
TestPredicate ==
  /\ wpc = "predicate"
  /\ wpc' = IF stop THEN "test" ELSE "blocking"
  /\ UNCHANGED <<state, workSeq, publishVars, faultVars, stopVars, cpc, kpc>>

Block ==
  /\ wpc = "blocking"
  /\ wpc' = "blocked" /\ notified' = FALSE
  /\ UNCHANGED <<state, workSeq, publishVars, faultVars, stop, spc, cpc, kpc>>

Notified ==
  /\ wpc = "blocked" /\ notified
  /\ wpc' = "predicate"
  /\ UNCHANGED <<state, workSeq, publishVars, faultVars, stopVars, cpc, kpc>>

\* Mutant of Deadline: wait() without a deadline.
DeadlineMissing == FALSE

\* The deadline of wait_until passes.
Deadline ==
  /\ wpc = "blocked" /\ wpc' = "test"
  /\ UNCHANGED <<state, workSeq, publishVars, faultVars, stopVars, cpc, kpc>>

\* Stop, from the destructor: the constructor has returned.
RequestStop ==
  /\ spc = "no" /\ cpc = "done"
  /\ stop' = TRUE /\ spc' = "notify"
  /\ UNCHANGED <<state, workSeq, publishVars, faultVars, notified, cpc, wpc, kpc>>

NotifyAll ==
  /\ spc = "notify"
  /\ notified' = (wpc = "blocked") /\ spc' = "join"
  /\ UNCHANGED <<state, workSeq, publishVars, faultVars, stop, cpc, wpc, kpc>>

Join ==
  /\ spc = "join" /\ wpc = "done"
  /\ spc' = "stopped"
  /\ UNCHANGED <<state, workSeq, publishVars, faultVars, stop, notified, cpc, wpc, kpc>>

----------------------------------------------------------------------------
WorkerStep ==
  \/ TestStop \/ PublishNow("worker") \/ BeginWait \/ TestPredicate \/ Block
  \/ Notified \/ Deadline
CtorStep == InitSucceeds \/ InitFails \/ PublishNow("ctor") \/ FaultPublished
TimerStep == ErasePassed \/ InsertFailed
StopStep == RequestStop \/ NotifyAll \/ Join

\* The diagnostic timer calls UpdateFaults with disjoint sets of codes.
Next ==
  \/ WorkerStep \/ CtorStep \/ TimerStep \/ StopStep
  \/ RecordWork \/ SetRunning
  \/ \E f, p \in SUBSET Codes : f \intersect p = {} /\ BeginUpdate(f, p)

Spec == Init /\ [][Next]_vars

\* Threads run and deadlines pass.  Weak fairness is enough for Stop: the
\* constructor has returned and the timer is off, so nobody else wants the
\* worker's mutexes.
Fairness ==
  WF_vars(TimerStep) /\ WF_vars(NotifyAll \/ Join) /\ WF_vars(WorkerStep)

FairSpec == Spec /\ Fairness

----------------------------------------------------------------------------
(* Properties. *)

\* Each publication, by whichever of the two threads that call PublishNow, has
\* the number after the one published before: none is missing or repeated.
Publishes(c) == pub[c] = "publish" /\ pub'[c] # "publish"
SequenceIsGapless ==
  [][IF \E c \in Callers : Publishes(c)
       THEN last'.seq = (last.seq + 1) % W
       ELSE last' = last]_vars

\* What a subscriber sees never goes back: work_seq grows, for fewer clouds
\* than it has values (it wraps at 2^32), and the state only moves NotReady,
\* Idle, Running or NotReady, Fault.
Before == {<<"NotReady", "Idle">>, <<"NotReady", "Running">>, <<"NotReady", "Fault">>,
           <<"Idle", "Running">>}
NeverGoesBack ==
  [][last'.work >= last.work /\ (last'.state # last.state => <<last.state, last'.state>> \in Before)]_vars

\* A heartbeat shows the faults of a complete batch, never a half-applied one.
CopiedIsComplete ==
  [][\A c \in Callers : pub[c] = "faults" /\ pub'[c] = "publish"
       => msg'[c].faults = batch]_vars

\* A node whose initialisation failed has said so when the constructor
\* returns: no heartbeat the worker began earlier is published after it.
FailureIsReported ==
  cpc = "publish" /\ pub["ctor"] = "idle" => last.state = "Fault"

\* Once Stop has begun it returns, even if its notification is lost.
StopReturns == spc = "notify" ~> spc = "stopped"
============================================================================
