------------------------------- MODULE RowLog -------------------------------
(***************************************************************************)
(* What the raw-state recorder promises.  Callers submit rows; each        *)
(* submission is answered once: it enters the log, is counted as lost, or  *)
(* is counted as repeating the state recorded last.  The log numbers its   *)
(* rows without a gap, a prefix of it has been handed to Write, at most    *)
(* Bound rows wait, and once it is closed and written it takes one last    *)
(* row, the shutdown row.                                                  *)
(***************************************************************************)
EXTENDS Naturals, Sequences

CONSTANTS
  Producers,  \* callers
  Contents,   \* what they submit
  States,     \* the contents that are device states
  Bound, Lifecycle

VARIABLES
  log,        \* the rows accepted
  written,    \* how many of them Write has been given
  pending,    \* the submission each caller waits for, if any
  recorded,   \* the state accepted last, if any
  lost,       \* submissions counted as lost
  repeated,   \* submissions counted as repetitions
  closed,
  finished    \* the shutdown row is in the log

vars == <<log, written, pending, recorded, lost, repeated, closed, finished>>

Row(c) == [seq |-> Len(log) + 1, content |-> c]
Answer(p) == pending[p] # {} /\ pending' = [pending EXCEPT ![p] = {}]

\* The log begins with the startup row.
Init ==
  /\ log = <<[seq |-> 1, content |-> Lifecycle]>> /\ written = 0
  /\ pending = [p \in Producers |-> {}] /\ recorded = {}
  /\ lost = 0 /\ repeated = 0
  /\ closed = FALSE /\ finished = FALSE

Submit(p, c) ==
  /\ pending[p] = {} /\ pending' = [pending EXCEPT ![p] = {c}]
  /\ UNCHANGED <<log, written, recorded, lost, repeated, closed, finished>>

Accept(p) ==
  /\ ~closed /\ Len(log) - written < Bound
  /\ Answer(p)
  /\ \E c \in pending[p] :
       /\ log' = Append(log, Row(c))
       /\ recorded' = IF c \in States THEN {c} ELSE recorded
  /\ UNCHANGED <<written, lost, repeated, closed, finished>>

Lose(p) ==
  /\ Answer(p)
  /\ lost' = lost + 1
  /\ UNCHANGED <<log, written, recorded, repeated, closed, finished>>

Repeat(p) ==
  /\ Answer(p) /\ pending[p] \subseteq recorded
  /\ repeated' = repeated + 1
  /\ UNCHANGED <<log, written, recorded, lost, closed, finished>>

WriteNext ==
  /\ written < Len(log)
  /\ written' = written + 1
  /\ UNCHANGED <<log, pending, recorded, lost, repeated, closed, finished>>

Close ==
  /\ closed' = TRUE
  /\ UNCHANGED <<log, written, pending, recorded, lost, repeated, finished>>

Finish ==
  /\ closed /\ ~finished /\ written = Len(log)
  /\ log' = Append(log, Row(Lifecycle)) /\ finished' = TRUE
  /\ UNCHANGED <<written, pending, recorded, lost, repeated, closed>>

Next ==
  \/ \E p \in Producers :
       (\E c \in Contents : Submit(p, c)) \/ Accept(p) \/ Lose(p) \/ Repeat(p)
  \/ WriteNext \/ Close \/ Finish

Spec == Init /\ [][Next]_vars
============================================================================
