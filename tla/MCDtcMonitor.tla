---------------------------- MODULE MCDtcMonitor ----------------------------
(* DtcMonitor for three lidars: one whose alarms change, with a warning     *)
(* that may be set aside, one that may be bounded and one that may not; one *)
(* that fails; and one whose streaming and clock change.                    *)
EXTENDS DtcMonitor

MCLidars == {
  [alarms |-> {{}, {"gps", "past"}, {"accuracy"}, {"accuracy", "unknown"}},
   work |-> {1}, streaming |-> {TRUE}, setBacks |-> 0],
  [alarms |-> {{}, {"fatal"}}, work |-> {1, 4}, streaming |-> {TRUE}, setBacks |-> 0],
  [alarms |-> {{}}, work |-> {1, 2}, streaming |-> BOOLEAN, setBacks |-> 1]}
=============================================================================
