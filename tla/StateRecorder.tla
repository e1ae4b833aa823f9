--------------------------- MODULE StateRecorder ---------------------------
(***************************************************************************)
(* The raw-state recorder (lidar_state_recorder.cpp): SDK and timer        *)
(* callbacks push rows into a bounded RecordQueue without ever blocking on *)
(* its mutex, one writer thread pops them and writes them out, and Stop    *)
(* closes the queue, clears accepting_ and joins the writer.  Every        *)
(* critical section of mutex_ is two steps, so that a try_lock can fail.   *)
(* What Write does to the files is the module RecorderFiles.               *)
(***************************************************************************)
EXTENDS Integers, Sequences

CONSTANTS
  Producers,    \* callback threads
  Capacity,     \* rows_.size()
  States,       \* contents of a state push, as SameSnapshot tells them apart
  MaxAttempts,  \* bound: calls of RecordObservation
  Query,        \* content of a row that is not a state push
  Lifecycle     \* content of the startup and shutdown rows

ASSUME RecorderAssumption ==
  /\ Capacity \in Nat \ {0}
  /\ MaxAttempts \in Nat
  /\ Query \notin States /\ Lifecycle \notin States /\ Query # Lifecycle
  /\ {"free", "writer", "stop"} \intersect Producers = {}

VARIABLES
  \* RecordQueue
  rows, sequence, closed, mutex, lastPush, dropped, suppressed,
  rateOpen,     \* 200 ms have passed since the last accepted push
  \* Recorder
  accepting, writeErrors,
  \* the callbacks: where each is and what it submits
  ppc, offer,
  \* the writer thread: where it is, the row it holds, the rows it has handed
  \* to Write, and how it ended
  wpc, hand, out, ending,
  \* the thread that runs Stop
  spc,
  \* history: calls of RecordObservation so far
  attempts

queueVars    == <<rows, sequence, closed, lastPush, dropped, suppressed, rateOpen>>
producerVars == <<ppc, offer, attempts>>
writerVars   == <<wpc, hand, out, ending, writeErrors>>
vars == <<queueVars, mutex, accepting, producerVars, writerVars, spc>>

Free == "free"
None == [seq |-> 0, content |-> Lifecycle]

Row(n, c) == [seq |-> n, content |-> c]

\* The constructor has pushed the startup row and started the thread.
Init ==
  /\ rows = <<Row(1, Lifecycle)>> /\ sequence = 1 /\ closed = FALSE
  /\ mutex = Free /\ lastPush = {} /\ dropped = 0 /\ suppressed = 0
  /\ rateOpen = TRUE
  /\ accepting = TRUE /\ writeErrors = 0
  /\ ppc = [p \in Producers |-> "idle"]
  /\ offer = [p \in Producers |-> Query]
  /\ wpc = "config" /\ hand = None /\ out = <<>> /\ ending = "none"
  /\ spc = "run"
  /\ attempts = 0

----------------------------------------------------------------------------
(* Callbacks: RecordObservation, RecordJson, RecordLifecycle. *)

\* if (!accepting_.load()) return false;
RecordObservation(p, c) ==
  /\ ppc[p] = "idle" /\ attempts < MaxAttempts
  /\ attempts' = attempts + 1
  /\ offer' = [offer EXCEPT ![p] = c]
  /\ ppc' = [ppc EXCEPT ![p] = IF accepting THEN "try" ELSE "idle"]
  /\ UNCHANGED <<queueVars, mutex, accepting, writerVars, spc>>

\* Push: the mutex is taken with try_to_lock; contention drops the row.
TryLock(p) ==
  /\ ppc[p] = "try"
  /\ \/ /\ mutex = Free
        /\ mutex' = p
        /\ ppc' = [ppc EXCEPT ![p] = "locked"]
        /\ UNCHANGED dropped
     \/ /\ mutex # Free
        /\ dropped' = dropped + 1
        /\ ppc' = [ppc EXCEPT ![p] = "idle"]
        /\ UNCHANGED mutex
  /\ UNCHANGED <<rows, sequence, closed, lastPush, suppressed, rateOpen, accepting,
                 offer, attempts, writerVars, spc>>

\* Mutant of Suppressed: a changed state that comes too soon counts as identical.
SuppressedTooSoon(c) == c \in States /\ lastPush # {} /\ (c \in lastPush \/ ~rateOpen)

Suppressed(c) == c \in States /\ c \in lastPush
TooSoon(c)    == c \in States /\ lastPush # {} /\ ~rateOpen

Full == Len(rows) = Capacity

\* Mutant of Numbered: the number before the increment.
NumberedEarly(c) == Row(sequence, c)
Numbered(c) == Row(sequence + 1, c)

\* Push with the mutex held, in the order of the code's tests.
Push(p) ==
  LET c == offer[p]
      identical == ~closed /\ Suppressed(c)
      refused   == closed \/ (~identical /\ (TooSoon(c) \/ Full))
      accepted  == ~identical /\ ~refused
  IN
  /\ ppc[p] = "locked"
  /\ suppressed' = IF identical THEN suppressed + 1 ELSE suppressed
  /\ dropped' = IF refused THEN dropped + 1 ELSE dropped
  /\ sequence' = IF accepted THEN sequence + 1 ELSE sequence
  /\ rows' = IF accepted THEN Append(rows, Numbered(c)) ELSE rows
  /\ lastPush' = IF accepted /\ c \in States THEN {c} ELSE lastPush
  /\ rateOpen' = IF accepted /\ c \in States THEN FALSE ELSE rateOpen
  /\ mutex' = Free
  /\ ppc' = [ppc EXCEPT ![p] = "idle"]
  /\ UNCHANGED <<closed, accepting, offer, attempts, writerVars, spc>>

\* 200 ms pass.
RateLimitExpires ==
  /\ ~rateOpen /\ rateOpen' = TRUE
  /\ UNCHANGED <<rows, sequence, closed, lastPush, dropped, suppressed, mutex, accepting,
                 producerVars, writerVars, spc>>

----------------------------------------------------------------------------
(* The writer thread: Recorder::Run. *)

\* ConfigureWriter may find that the thread cannot be kept off the isolated
\* CPUs: the recorder is then disabled and nothing is drained.
ConfigureWriter ==
  /\ wpc = "config"
  /\ \/ wpc' = "pop" /\ UNCHANGED <<accepting, ending, writeErrors>>
     \/ /\ wpc' = "done" /\ ending' = "disabled"
        /\ accepting' = FALSE /\ writeErrors' = writeErrors + 1
  /\ UNCHANGED <<queueVars, mutex, producerVars, hand, out, spc>>

\* queue_.Pop waits for the mutex; "pop" is the first call of the loop and
\* "pop2" the one made after accepting_ was found false.
LockForPop ==
  /\ wpc \in {"pop", "pop2"} /\ mutex = Free
  /\ mutex' = "writer"
  /\ wpc' = IF wpc = "pop" THEN "popping" ELSE "popping2"
  /\ UNCHANGED <<queueVars, accepting, producerVars, hand, out, ending, writeErrors, spc>>

Pop ==
  /\ wpc \in {"popping", "popping2"}
  /\ mutex' = Free
  /\ \/ /\ rows # <<>>
        /\ hand' = Head(rows) /\ rows' = Tail(rows)
        /\ wpc' = "write"
     \/ /\ rows = <<>>
        /\ wpc' = IF wpc = "popping" THEN "test" ELSE "number"
        /\ UNCHANGED <<hand, rows>>
  /\ UNCHANGED <<sequence, closed, lastPush, dropped, suppressed, rateOpen, accepting,
                 producerVars, out, ending, writeErrors, spc>>

\* Write, and WriteError when it fails.
Write ==
  /\ wpc \in {"write", "shutdown"}
  /\ out' = Append(out, hand)
  /\ hand' = None
  /\ \/ UNCHANGED writeErrors
     \/ writeErrors' = writeErrors + 1
  /\ \/ wpc = "write" /\ wpc' = "pop" /\ UNCHANGED ending
     \/ wpc = "shutdown" /\ wpc' = "done" /\ ending' = "normal"
  /\ UNCHANGED <<queueVars, mutex, accepting, producerVars, spc>>

\* Mutant of TestAccepting: the queue is not looked at again.
TestAcceptingOnce ==
  /\ wpc = "test"
  /\ wpc' = IF accepting THEN "wait" ELSE "number"
  /\ UNCHANGED <<queueVars, mutex, accepting, producerVars, hand, out, ending, writeErrors, spc>>

\* if (!accepting_.load()), else wait_for(200 ms) and go round again.
TestAccepting ==
  /\ wpc = "test"
  /\ wpc' = IF accepting THEN "wait" ELSE "pop2"
  /\ UNCHANGED <<queueVars, mutex, accepting, producerVars, hand, out, ending, writeErrors, spc>>

WaitTimesOut ==
  /\ wpc = "wait" /\ wpc' = "pop"
  /\ UNCHANGED <<queueVars, mutex, accepting, producerVars, hand, out, ending, writeErrors, spc>>

\* The shutdown row takes the next sequence number.
NextSequence ==
  /\ wpc = "number" /\ mutex = Free
  /\ sequence' = sequence + 1
  /\ hand' = Row(sequence + 1, Lifecycle)
  /\ wpc' = "shutdown"
  /\ UNCHANGED <<rows, closed, lastPush, dropped, suppressed, rateOpen, mutex, accepting,
                 producerVars, out, ending, writeErrors, spc>>

\* An exception ends the writer, and the row in its hand is lost: a row of the
\* queue, or the shutdown row ("threwLast").
WriterThrows ==
  /\ wpc \in {"write", "shutdown"}
  /\ wpc' = "done" /\ ending' = IF wpc = "write" THEN "threw" ELSE "threwLast"
  /\ writeErrors' = writeErrors + 1 /\ accepting' = FALSE
  /\ UNCHANGED <<queueVars, mutex, producerVars, hand, out, spc>>

----------------------------------------------------------------------------
(* Recorder::Stop. *)

LockForClose ==
  /\ spc = "run" /\ mutex = Free
  /\ mutex' = "stop" /\ spc' = "closing"
  /\ UNCHANGED <<queueVars, accepting, producerVars, writerVars>>

Close ==
  /\ spc = "closing"
  /\ closed' = TRUE /\ mutex' = Free /\ spc' = "closed"
  /\ UNCHANGED <<rows, sequence, lastPush, dropped, suppressed, rateOpen, accepting,
                 producerVars, writerVars>>

\* Mutant of ClearAccepting: accepting_ is left set.
ClearAcceptingForgotten ==
  /\ spc = "closed"
  /\ spc' = "joining"
  /\ UNCHANGED <<queueVars, mutex, accepting, producerVars, writerVars>>

ClearAccepting ==
  /\ spc = "closed"
  /\ accepting' = FALSE /\ spc' = "joining"
  /\ UNCHANGED <<queueVars, mutex, producerVars, writerVars>>

Join ==
  /\ spc = "joining" /\ wpc = "done"
  /\ spc' = "stopped"
  /\ UNCHANGED <<queueVars, mutex, accepting, producerVars, writerVars>>

----------------------------------------------------------------------------
PushStep(p) == TryLock(p) \/ Push(p)
WriterStep ==
  \/ ConfigureWriter \/ LockForPop \/ Pop \/ Write \/ TestAccepting \/ WaitTimesOut
  \/ NextSequence \/ WriterThrows
StopStep == LockForClose \/ Close \/ ClearAccepting \/ Join

Next ==
  \/ \E p \in Producers :
       PushStep(p) \/ \E c \in States \union {Query} : RecordObservation(p, c)
  \/ RateLimitExpires
  \/ WriterStep
  \/ StopStep

Spec == Init /\ [][Next]_vars

\* The threads run; a mutex does not starve a waiter for ever.
Fairness ==
  /\ \A p \in Producers : WF_vars(PushStep(p))
  /\ WF_vars(ConfigureWriter \/ Pop \/ Write \/ TestAccepting \/ WaitTimesOut)
  /\ SF_vars(LockForPop) /\ SF_vars(NextSequence)
  /\ WF_vars(Close \/ ClearAccepting \/ Join)

FairSpec == Spec /\ Fairness

----------------------------------------------------------------------------
(* Properties. *)

\* The rows reach Write in the order they were accepted, with sequence numbers
\* 1, 2, 3, ... and no gap, whatever the callbacks, drops and the close do.
WrittenInOrder == \A i \in 1 .. Len(out) : out[i].seq = i

\* When the writer ends normally, every row a callback saw accepted has been
\* handed to Write and the last row is the shutdown row: no callback can slip
\* a row in between the writer's last look and the close of the queue.
StopFlushesAccepted ==
  ending = "normal" =>
    /\ rows = <<>> /\ closed
    /\ Len(out) = sequence
    /\ out[Len(out)].content = Lifecycle

\* Stop returns: the join of the writer ends once Stop has begun.
StopReturns == spc = "closing" ~> spc = "stopped"
============================================================================
