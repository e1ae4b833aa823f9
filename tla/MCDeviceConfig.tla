--------------------------- MODULE MCDeviceConfig ---------------------------
(* DeviceConfig for a file that lists one lidar twice and another without  *)
(* settings, and a third lidar it does not list.                           *)
EXTENDS DeviceConfig

\* The second entry of a handle overwrites the first.
ConfigFile == <<[handle |-> "front", keys |-> {"dataType"}],
                [handle |-> "rear", keys |-> {}],
                [handle |-> "front", keys |-> {"dataType", "dualEmit"}]>>

\* One lidar only.
ShortFile == <<[handle |-> "front", keys |-> {"dataType", "blindSpot"}]>>
============================================================================
