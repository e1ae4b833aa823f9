-------------------------- MODULE FrameRefinement --------------------------
(***************************************************************************)
(* FrameDelivery implements FrameFifo: the indices between rd_idx and      *)
(* wr_idx are the accepted frames, and the packet QueuePop copied is the   *)
(* frame in the publisher's hand.                                          *)
(***************************************************************************)
EXTENDS FrameDelivery, Sequences

Queue(l) ==
  [k \in 1 .. QueueUsedSize(rd[l], wr[l]) |-> (rd[l] + k - 1) % W]

Hand == IF cpc = "publish" THEN {<<clidar, pkg>>} ELSE {}

Fifo == INSTANCE FrameFifo
          WITH Frames <- Idx \union {Torn},
               Capacity <- Size,
               q <- [l \in Lidars |-> Queue(l)],
               hand <- Hand

\* The rings, the semaphore and the two threads together behave as the
\* bounded FIFO that drops new frames.
ImplementsFifo == Fifo!Spec
============================================================================
