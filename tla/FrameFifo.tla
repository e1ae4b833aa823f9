----------------------------- MODULE FrameFifo -----------------------------
(***************************************************************************)
(* What the frame path promises: one bounded first-in first-out queue of   *)
(* frames per lidar that refuses a new frame when it is full, and a        *)
(* publisher that takes the oldest frame of one lidar at a time and        *)
(* publishes it.  (docs/modules/data_pipeline.md, section 3: a full queue  *)
(* neither overwrites an old frame nor accepts the new one.)               *)
(***************************************************************************)
EXTENDS Naturals, Sequences

CONSTANTS Lidars, Frames, Capacity

VARIABLES
  q,      \* q[l]: the frames of lidar l that were accepted and not taken
  hand    \* the frames taken and not yet published: at most one <<l, f>>

vars == <<q, hand>>

Init == q = [l \in Lidars |-> <<>>] /\ hand = {}

Accept(l, f) ==
  /\ Len(q[l]) < Capacity
  /\ q' = [q EXCEPT ![l] = Append(@, f)]
  /\ UNCHANGED hand

Take(l) ==
  /\ hand = {} /\ q[l] # <<>>
  /\ hand' = {<<l, Head(q[l])>>}
  /\ q' = [q EXCEPT ![l] = Tail(@)]

Publish ==
  /\ hand # {}
  /\ hand' = {}
  /\ UNCHANGED q

Next ==
  \/ \E l \in Lidars : Take(l) \/ \E f \in Frames : Accept(l, f)
  \/ Publish

Spec == Init /\ [][Next]_vars
============================================================================
