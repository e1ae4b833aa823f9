---------------------------- MODULE ConfigParse ----------------------------
(***************************************************************************)
(* LivoxLidarConfigParser::ParseUserConfigs: the entries of lidar_configs  *)
(* become UserLivoxLidarConfig records.  A key that is absent becomes -1;  *)
(* one that is present goes through a C++ narrowing cast before it is      *)
(* stored, and LidarInfoChangeCallback later sends it unless it is -1.     *)
(***************************************************************************)
EXTENDS Integers, Sequences

CONSTANTS
  Absent,         \* a key the JSON object does not have
  MaxEntries,     \* bound: entries of lidar_configs
  PclDataTypes, PatternModes, BlindSpots, DualEmits  \* values found in the file

VARIABLES
  read,      \* the entries read so far
  configs,   \* user_configs
  result     \* "parsing", or what ParseUserConfigs returned

vars == <<read, configs, result>>

\* static_cast<int8_t> of an int.
Int8(v) == ((v + 128) % 256) - 128

\* What each member holds: -1 for a missing key, else the cast value.  The
\* uint8_t cast of dual_emit_en ends in an int8_t member.
Stored(v) == IF v = Absent THEN -1 ELSE Int8(v)

Entry ==
  [ip : BOOLEAN, pcl_data_type : PclDataTypes \union {Absent},
   pattern_mode : PatternModes \union {Absent},
   blind_spot_set : BlindSpots \union {Absent},
   dual_emit_en : DualEmits \union {Absent}]

Init == read = <<>> /\ configs = <<>> /\ result = "parsing"

\* One turn of the loop; an entry without "ip" is passed over.
ParseEntry(e) ==
  /\ result = "parsing" /\ Len(read) < MaxEntries
  /\ read' = Append(read, e)
  /\ configs' = IF e.ip
       THEN Append(configs, [pcl_data_type |-> Stored(e.pcl_data_type),
                             pattern_mode |-> Stored(e.pattern_mode),
                             blind_spot_set |-> Stored(e.blind_spot_set),
                             dual_emit_en |-> Stored(e.dual_emit_en)])
       ELSE configs
  /\ UNCHANGED result

\* return user_configs.size() != 0
EndParse ==
  /\ result = "parsing"
  /\ result' = IF configs = <<>> THEN "false" ELSE "true"
  /\ UNCHANGED <<read, configs>>

Next == (\E e \in Entry : ParseEntry(e)) \/ EndParse

Spec == Init /\ [][Next]_vars

----------------------------------------------------------------------------
(* Properties. *)

\* The entries that ended up in user_configs.
Kept == SelectSeq(read, LAMBDA e : e.ip)

\* The README's "Set blind spot, Range from 50 cm to 200 cm": a value in that
\* range reaches the lidar unchanged.
BlindSpotKept ==
  \A i \in 1 .. Len(configs) :
    Kept[i].blind_spot_set \in 50 .. 200 => configs[i].blind_spot_set = Kept[i].blind_spot_set
============================================================================
