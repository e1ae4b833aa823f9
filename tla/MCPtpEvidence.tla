---------------------------- MODULE MCPtpEvidence ----------------------------
(* PtpEvidence with the readings its tests tell apart: good for both kinds  *)
(* of evidence, good for setting warnings aside only, and no PTP at all.    *)
EXTENDS PtpEvidence

MCReadings == {[type |-> 1, offset |-> 0], [type |-> 1, offset |-> 2],
               [type |-> 2, offset |-> 0]}
=============================================================================
