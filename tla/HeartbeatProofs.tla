--------------------------- MODULE HeartbeatProofs ---------------------------
(***************************************************************************)
(* Proofs about Heartbeat, for any set of codes, any width of the sequence *)
(* number and any number of published clouds.                              *)
(***************************************************************************)
EXTENDS Heartbeat, TLAPS

----------------------------------------------------------------------------
(* The inductive invariant. *)

Stages == {"idle", "lock", "seq", "work", "state", "faults", "publish"}
Messages == [seq : Int, work : Nat, state : States, faults : SUBSET Codes]

HeartbeatTypes ==
  /\ state \in States /\ workSeq \in Nat /\ heartbeatSeq \in Int
  /\ activeFaults \subseteq Codes /\ failed \subseteq Codes
  /\ pub \in [Callers -> Stages]
  /\ msg \in [Callers -> Messages] /\ last \in Messages

\* PublishNow holds publish_mutex_ from the sequence number to the publication.
PublishOwned ==
  \A c \in Callers : publishMutex = c <=> pub[c] \notin {"idle", "lock"}

\* The message published last has the last number, unless a caller has drawn
\* the next one and holds it.
NumberDrawn ==
  \/ /\ heartbeatSeq = last.seq
     /\ \A c \in Callers : pub[c] \in {"idle", "lock", "seq"}
  \/ /\ heartbeatSeq = (last.seq + 1) % W
     /\ \E c \in Callers :
          publishMutex = c /\ pub[c] # "seq" /\ msg[c].seq = heartbeatSeq

\* b is a or may follow a.
Follows(a, b) == a = b \/ <<a, b>> \in Before

\* What a message holds lies between the last message and the present.
MessagesOrdered ==
  /\ last.work =< workSeq /\ Follows(last.state, state)
  /\ \A c \in Callers :
       /\ pub[c] \in {"state", "faults", "publish"} =>
            last.work =< msg[c].work /\ msg[c].work =< workSeq
       /\ pub[c] \in {"faults", "publish"} =>
            Follows(last.state, msg[c].state) /\ Follows(msg[c].state, state)

\* The constructor publishes only the failure, and then no cloud comes; the
\* worker publishes only inside its loop.
ConstructorOrder ==
  /\ cpc \in {"init", "publish", "done"}
  /\ cpc = "init" => state = "NotReady" /\ kpc = "off"
  /\ cpc = "publish" => state = "Fault" /\ kpc = "off"
  /\ cpc # "publish" => pub["ctor"] = "idle"
  /\ kpc # "off" => state \in {"Idle", "Running"}
  /\ wpc # "publish" => pub["worker"] = "idle"
  /\ pub["ctor"] \in {"faults", "publish"} => msg["ctor"].state = "Fault"

\* Outside UpdateFaults the active faults are those of a complete batch.
BatchComplete ==
  /\ tpc = "idle" <=> faultMutex = None
  /\ faultMutex = None => activeFaults = batch

HeartbeatInv ==
  /\ HeartbeatTypes /\ PublishOwned /\ NumberDrawn /\ MessagesOrdered
  /\ ConstructorOrder /\ BatchComplete /\ FailureIsReported

\* A change of state_ keeps the order, and nothing follows a fault.
LEMMA FollowsOrder ==
  /\ \A a, b, c \in States : Follows(a, b) /\ Follows(b, c) => Follows(a, c)
  /\ \A a \in States : Follows("Fault", a) => a = "Fault"
  /\ \A a \in States : Follows(a, a) /\ (Follows(a, "NotReady") => a = "NotReady")
  /\ Follows("NotReady", "Fault")
BY DEF Follows, Before, States

\* Before the node does anything the invariant holds.
LEMMA HeartbeatInit == Init => HeartbeatInv
BY DEF Init, HeartbeatInv, HeartbeatTypes, PublishOwned, NumberDrawn, MessagesOrdered,
       ConstructorOrder, BatchComplete, FailureIsReported, Stages, Messages, NoMessage, Callers,
       None, Follows, States

\* A step of PublishNow keeps the invariant.
LEMMA PublishKeepsHeartbeat == HeartbeatInv /\ (\E c \in Callers : PublishNow(c)) => HeartbeatInv'
<1> SUFFICES ASSUME HeartbeatInv, NEW c \in Callers, PublishNow(c) PROVE HeartbeatInv'
  OBVIOUS
<1> USE DEF HeartbeatInv, HeartbeatTypes, PublishOwned, NumberDrawn, MessagesOrdered,
            ConstructorOrder, BatchComplete, FailureIsReported, faultVars, stopVars
<1>1. CASE LockPublish(c)
  BY <1>1 DEF LockPublish, Stages, Callers, None
<1>2. CASE AdvanceSeq(c)
  <2>1. /\ publishMutex = c /\ pub[c] = "seq" /\ heartbeatSeq = last.seq
        /\ \A d \in Callers : d # c => pub[d] \in {"idle", "lock"}
    BY <1>2 DEF AdvanceSeq, Callers
  <2>2. /\ heartbeatSeq' = (last.seq + 1) % W /\ heartbeatSeq' \in Int
        /\ msg' = [msg EXCEPT ![c] = [msg[c] EXCEPT !.seq = heartbeatSeq']]
        /\ pub' = [pub EXCEPT ![c] = "work"]
        /\ UNCHANGED <<state, workSeq, publishMutex, last, cpc, wpc, kpc, activeFaults,
                       faultMutex, tpc, failed, passed, batch>>
    BY <1>2, <2>1, HeartbeatAssumption DEF AdvanceSeq, Messages
  <2>3. HeartbeatTypes'
    BY <2>2 DEF Stages, Messages
  <2>4. (PublishOwned /\ NumberDrawn)'
    BY <2>1, <2>2 DEF Messages
  <2>5. (MessagesOrdered /\ ConstructorOrder /\ BatchComplete /\ FailureIsReported)'
    BY <2>1, <2>2 DEF Callers
  <2> QED BY <2>3, <2>4, <2>5
<1>3. CASE LoadWork(c)
  BY <1>3 DEF LoadWork, Stages, Callers, None, Messages
<1>4. CASE LoadState(c)
  BY <1>4, FollowsOrder DEF LoadState, Stages, Callers, None, Messages
<1>5. CASE CopyFaults(c)
  BY <1>5 DEF CopyFaults, Stages, Callers, None, Messages
<1>6. CASE Publish(c)
  <2>1. /\ publishMutex = c /\ pub[c] = "publish" /\ msg[c] \in Messages
        /\ msg[c].seq = heartbeatSeq
        /\ \A d \in Callers : d # c => pub[d] \in {"idle", "lock"}
    BY <1>6 DEF Publish, Callers
  <2>2. /\ last' = msg[c] /\ publishMutex' = None
        /\ msg' = [msg EXCEPT ![c] = NoMessage]
        /\ pub' = [pub EXCEPT ![c] = "idle"]
        /\ UNCHANGED <<state, workSeq, heartbeatSeq, cpc, wpc, kpc, activeFaults,
                       faultMutex, tpc, failed, passed, batch>>
    BY <1>6 DEF Publish
  <2>3. \A d \in Callers : pub'[d] \in {"idle", "lock"}
    BY <2>1, <2>2
  <2>4. HeartbeatTypes'
    BY <2>1, <2>2 DEF Stages, Messages, NoMessage, States
  <2>5. (PublishOwned /\ NumberDrawn)'
    BY <2>1, <2>2, <2>3 DEF Callers, None
  <2>6. (MessagesOrdered /\ ConstructorOrder /\ BatchComplete)'
    BY <2>1, <2>2, <2>3 DEF Callers, Messages
  <2>7. FailureIsReported'
    <3>1. SUFFICES ASSUME cpc = "publish", pub'["ctor"] = "idle" PROVE msg[c].state = "Fault"
      BY <2>2
    <3>2. CASE c = "ctor"
      BY <2>1, <3>2
    <3>3. CASE c # "ctor"
      <4>1. last.state = "Fault" /\ Follows(last.state, msg[c].state)
        BY <2>1, <2>2, <3>1, <3>3
      <4> QED BY <2>1, <4>1, FollowsOrder DEF Messages
    <3> QED BY <3>2, <3>3
  <2> QED BY <2>4, <2>5, <2>6, <2>7
<1> QED BY <1>1, <1>2, <1>3, <1>4, <1>5, <1>6 DEF PublishNow
\* A step of the constructor, of the polling thread, of the worker's loop, of
\* the diagnostic timer or of Stop keeps the invariant.
LEMMA OthersKeepHeartbeat ==
  HeartbeatInv /\ [Next]_vars /\ ~(\E c \in Callers : PublishNow(c)) => HeartbeatInv'
<1> SUFFICES ASSUME HeartbeatInv, [Next]_vars, ~(\E c \in Callers : PublishNow(c)) PROVE HeartbeatInv'
  OBVIOUS
<1> USE DEF HeartbeatInv, HeartbeatTypes, PublishOwned, NumberDrawn, MessagesOrdered,
            ConstructorOrder, BatchComplete, FailureIsReported, faultVars, stopVars, publishVars
<1>1. CASE InitSucceeds
  BY <1>1 DEF InitSucceeds, Follows, Before, States
<1>2. CASE InitFails
  <2>1. /\ state = "NotReady" /\ state' = "Fault" /\ cpc' = "publish" /\ kpc = "off"
        /\ pub["ctor"] = "idle" /\ pub' = [pub EXCEPT !["ctor"] = "lock"]
        /\ UNCHANGED <<workSeq, publishMutex, msg, last, heartbeatSeq, activeFaults,
                       faultMutex, tpc, failed, passed, batch, wpc, kpc>>
    BY <1>2 DEF InitFails
  <2>2. last.state = "NotReady"
    BY <2>1, FollowsOrder DEF Messages
  <2>3. \A c \in Callers : pub[c] \in {"faults", "publish"} => msg[c].state = "NotReady"
    BY <2>1, FollowsOrder DEF Messages
  <2>4. (HeartbeatTypes /\ PublishOwned /\ NumberDrawn)'
    BY <2>1 DEF Stages, States, Callers, None
  <2>5. MessagesOrdered'
    BY <2>1, <2>2, <2>3, FollowsOrder DEF States, Callers
  <2>6. (ConstructorOrder /\ BatchComplete /\ FailureIsReported)'
    BY <2>1 DEF Callers
  <2> QED BY <2>4, <2>5, <2>6
<1>3. CASE FaultPublished
  BY <1>3 DEF FaultPublished
<1>4. CASE RecordWork
  <2>1. /\ workSeq' = workSeq + 1
        /\ UNCHANGED <<state, publishMutex, pub, msg, last, heartbeatSeq, activeFaults,
                       faultMutex, tpc, failed, passed, batch, cpc, wpc>>
        /\ kpc # "off"
    BY <1>4 DEF RecordWork
  <2>2. workSeq' \in Nat /\ \A n \in Nat : n =< workSeq => n =< workSeq'
    BY <2>1
  <2>3. last.work \in Nat /\ \A c \in Callers : msg[c].work \in Nat
    BY DEF Messages
  <2>4. MessagesOrdered'
    BY <2>1, <2>2, <2>3
  <2>5. (HeartbeatTypes /\ PublishOwned /\ NumberDrawn /\ ConstructorOrder /\ BatchComplete
         /\ FailureIsReported)'
    BY <1>4, <2>1, <2>2 DEF RecordWork
  <2> QED BY <2>4, <2>5
<1>5. CASE SetRunning
  BY <1>5 DEF SetRunning, Follows, Before, States
<1>6. ASSUME NEW f \in SUBSET Codes, NEW p \in SUBSET Codes, BeginUpdate(f, p) PROVE HeartbeatInv'
  BY <1>6 DEF BeginUpdate, None
<1>7. CASE ErasePassed
  BY <1>7 DEF ErasePassed
<1>8. CASE InsertFailed
  BY <1>8 DEF InsertFailed, None
<1>9. CASE TestStop
  BY <1>9 DEF TestStop, Stages, Callers, None
<1>10. CASE BeginWait \/ TestPredicate \/ Block \/ Notified \/ Deadline
  BY <1>10 DEF BeginWait, TestPredicate, Block, Notified, Deadline
<1>11. CASE RequestStop \/ NotifyAll \/ Join
  BY <1>11 DEF RequestStop, NotifyAll, Join
<1>12. CASE UNCHANGED vars
  BY <1>12 DEF vars
<1> QED
  BY <1>1, <1>2, <1>3, <1>4, <1>5, <1>6, <1>7, <1>8, <1>9, <1>10, <1>11, <1>12
  DEF Next, WorkerStep, CtorStep, TimerStep, StopStep, Callers

\* The invariant holds in every reachable state.
LEMMA HeartbeatInvariant == Spec => []HeartbeatInv
<1>1. HeartbeatInv /\ [Next]_vars => HeartbeatInv'
  BY PublishKeepsHeartbeat, OthersKeepHeartbeat
<1> QED BY HeartbeatInit, <1>1, PTL DEF Spec

----------------------------------------------------------------------------
(* Results. *)

\* Only Publish sends a message, and it always does.
LEMMA PublishSteps ==
  ASSUME HeartbeatInv, [Next]_vars
  PROVE  \/ UNCHANGED last /\ \A c \in Callers : ~Publishes(c)
         \/ \E c \in Callers : Publish(c)
<1> USE DEF HeartbeatInv, HeartbeatTypes, Publishes, Stages, Callers, publishVars, faultVars, stopVars
<1>1. ASSUME NEW c \in Callers, PublishNow(c), ~Publish(c)
      PROVE  UNCHANGED last /\ \A d \in Callers : ~Publishes(d)
  <2>1. UNCHANGED last /\ pub[c] # "publish" /\ \A d \in Callers \ {c} : pub'[d] = pub[d]
    BY <1>1 DEF PublishNow, LockPublish, AdvanceSeq, LoadWork, LoadState, CopyFaults
  <2> QED BY <2>1
<1>2. CASE Next /\ ~\E c \in Callers : PublishNow(c)
  BY <1>2 DEF ConstructorOrder, Next, WorkerStep, CtorStep, TimerStep, StopStep, InitSucceeds, InitFails,
         FaultPublished, RecordWork, SetRunning, BeginUpdate, ErasePassed, InsertFailed, TestStop,
         BeginWait, TestPredicate, Block, Notified, Deadline, RequestStop, NotifyAll, Join
<1>3. CASE UNCHANGED vars
  BY <1>3 DEF vars
<1> QED BY <1>1, <1>2, <1>3

\* Only CopyFaults completes a message.
LEMMA CopySteps ==
  ASSUME Next, pub \in [Callers -> Stages], NEW c \in Callers, pub[c] = "faults", pub'[c] = "publish"
  PROVE  CopyFaults(c)
BY DEF Next, WorkerStep, CtorStep, TimerStep, StopStep, PublishNow, LockPublish, AdvanceSeq,
       LoadWork, LoadState, CopyFaults, Publish, InitSucceeds, InitFails, FaultPublished, RecordWork,
       SetRunning, BeginUpdate, ErasePassed, InsertFailed, TestStop, BeginWait, TestPredicate, Block,
       Notified, Deadline, RequestStop, NotifyAll, Join, publishVars, faultVars, stopVars, Callers

\* Each heartbeat that is published has the number after the one published
\* before, through the wrap of heartbeat_seq_ and whichever thread publishes it.
THEOREM NumbersFollow == Spec => SequenceIsGapless
<1> DEFINE Gapless == IF \E c \in Callers : Publishes(c)
                        THEN last'.seq = (last.seq + 1) % W ELSE last' = last
<1>1. HeartbeatInv /\ [Next]_vars => [Gapless]_vars
  <2> SUFFICES ASSUME HeartbeatInv, [Next]_vars PROVE Gapless
    OBVIOUS
  <2>1. CASE UNCHANGED last /\ \A c \in Callers : ~Publishes(c)
    BY <2>1
  <2>2. ASSUME NEW c \in Callers, Publish(c) PROVE Gapless
    <3>1. pub[c] = "publish" /\ last' = msg[c] /\ Publishes(c)
      BY <2>2 DEF Publish, Publishes, HeartbeatInv, HeartbeatTypes
    <3>2. last'.seq = (last.seq + 1) % W
      BY <3>1 DEF HeartbeatInv, NumberDrawn, PublishOwned
    <3> QED BY <3>1, <3>2
  <2> QED BY <2>1, <2>2, PublishSteps
<1> QED BY <1>1, HeartbeatInvariant, PTL DEF Spec, SequenceIsGapless

\* Subscribers never see work_seq shrink, below the 2^32 clouds at which it
\* wraps, or the node's state go back, although PublishNow loads both without a
\* lock while other threads write them.
THEOREM HeartbeatsMoveForward == Spec => NeverGoesBack
<1>1. HeartbeatInv /\ [Next]_vars =>
        [last'.work >= last.work /\ (last'.state # last.state => <<last.state, last'.state>> \in Before)]_vars
  <2> SUFFICES ASSUME HeartbeatInv, UNCHANGED last \/ \E c \in Callers : Publish(c)
               PROVE  last'.work >= last.work /\ Follows(last.state, last'.state)
    BY PublishSteps DEF Follows
  <2>1. last \in Messages /\ \A c \in Callers : msg[c] \in Messages
    BY DEF HeartbeatInv, HeartbeatTypes
  <2>2. CASE UNCHANGED last
    BY <2>1, <2>2 DEF Messages, Follows
  <2>3. ASSUME NEW c \in Callers, Publish(c)
        PROVE  last'.work >= last.work /\ Follows(last.state, last'.state)
    <3>1. pub[c] = "publish" /\ last' = msg[c]
      BY <2>3 DEF Publish
    <3> QED BY <2>1, <3>1 DEF HeartbeatInv, Messages, MessagesOrdered
  <2> QED BY <2>2, <2>3
<1> QED BY <1>1, HeartbeatInvariant, PTL DEF Spec, NeverGoesBack

\* Every heartbeat carries the faults some complete batch of the diagnostic
\* timer left active.
THEOREM FaultsOfOneBatch == Spec => CopiedIsComplete
<1> DEFINE Copied == \A c \in Callers : pub[c] = "faults" /\ pub'[c] = "publish" => msg'[c].faults = batch
<1>1. HeartbeatInv /\ [Next]_vars => [Copied]_vars
  <2> SUFFICES ASSUME HeartbeatInv, Next, NEW c \in Callers, pub[c] = "faults", pub'[c] = "publish"
               PROVE  msg'[c].faults = batch
    OBVIOUS
  <2>1. CopyFaults(c)
    BY CopySteps DEF HeartbeatInv, HeartbeatTypes
  <2> QED BY <2>1 DEF CopyFaults, HeartbeatInv, HeartbeatTypes, BatchComplete, Messages
<1> QED BY <1>1, HeartbeatInvariant, PTL DEF Spec, CopiedIsComplete

\* When a constructor whose initialisation failed returns, the last heartbeat
\* says Fault, even if the worker was in the middle of publishing another.
THEOREM FailureReaches == Spec => []FailureIsReported
<1>1. HeartbeatInv => FailureIsReported
  BY DEF HeartbeatInv
<1> QED BY <1>1, HeartbeatInvariant, PTL
============================================================================
