------------------------- MODULE RecorderRefinement -------------------------
(***************************************************************************)
(* StateRecorder implements RowLog: the log is what was written, then the  *)
(* row the writer has popped, then the queue; a submission is pending from *)
(* the test of accepting_ to the return of the call.                       *)
(***************************************************************************)
EXTENDS StateRecorder

InHand == IF hand = None THEN <<>> ELSE <<hand>>
Submitted == [p \in Producers |-> IF ppc[p] = "idle" THEN {} ELSE {offer[p]}]
ShutdownLogged == wpc = "shutdown" \/ ending \in {"normal", "threwLast"}

\* A writer that is disabled or throws leaves rows in its hand and the queue.
Log == INSTANCE RowLog
         WITH Contents <- States \union {Query},
              Bound <- Capacity + 1,
              log <- out \o InHand \o rows,
              written <- Len(out),
              pending <- Submitted,
              recorded <- lastPush,
              lost <- dropped,
              repeated <- suppressed,
              finished <- ShutdownLogged

\* The callbacks with their try_lock, the writer and Stop together behave as
\* the log: every call that found accepting_ set leaves its row in the log, or
\* is counted as dropped, or is counted as suppressed and repeats the state
\* recorded last; no row is repeated, reordered or numbered twice, none is
\* accepted after the close, and the shutdown row comes last, after every
\* accepted row has been written.
ImplementsLog == Log!Spec
============================================================================
