-------------------------- MODULE MCNodeLifecycle --------------------------
(* A process that creates up to two nodes, started in the ways that take   *)
(* every path of the constructor.                                          *)
EXTENDS NodeLifecycle

Plain == [heartbeat |-> "off", dtc |-> FALSE, role |-> FALSE, identity |-> "off", raw |-> TRUE,
          summary |-> TRUE, livox |-> TRUE, users |-> 1, log |-> FALSE]
Deployed == [Plain EXCEPT !.heartbeat = "valid", !.dtc = TRUE, !.role = TRUE, !.identity = "valid",
                             !.log = TRUE]

MCLaunches ==
  { Plain, Deployed,
    [Deployed EXCEPT !.users = 2],
    [Deployed EXCEPT !.summary = FALSE],
    [Deployed EXCEPT !.role = FALSE],
    [Deployed EXCEPT !.identity = "invalid"],
    [Deployed EXCEPT !.heartbeat = "invalid"],
    [Plain EXCEPT !.livox = FALSE],
    [Plain EXCEPT !.raw = FALSE] }
============================================================================
