--------------------------- MODULE DeviceIdentity ---------------------------
(***************************************************************************)
(* The device_info.* parameters of the node (lidar_identity.h).  Configure *)
(* names the one lidar of the role before the SDK starts; Observe takes    *)
(* over what the SDK reports of that lidar and writes all parameters in    *)
(* one atomic set.  The same parameters can be set from outside; a         *)
(* callback refuses every write whose thread does not carry the            *)
(* thread_local Writer() mark that Update puts up.                         *)
(***************************************************************************)
EXTENDS Naturals

CONSTANTS
  Devices,     \* lidars the SDK may report, by handle and address
  Configured,  \* the one in the configuration file
  Serials,     \* serial numbers that ValidSerial accepts
  NoSerial,    \* the empty string
  Never        \* no report yet

ASSUME IdentityAssumption == 
  Configured \in Devices /\ NoSerial \notin Serials /\ Never \notin Serials \union {NoSerial}

VARIABLES
  idNode,    \* LdsLidar::identity_parameters_: the node it writes to, or 0
  members,   \* configured_ and sn_ of Parameters
  params,    \* serial_number, identity_valid and confirmed_at of the node
  opc,       \* the SDK thread inside Observe
  writer,    \* threads whose Writer() is this object
  reported   \* history: the serial the configured lidar reported last

idVars == <<idNode, members, params, opc, writer, reported>>

\* A report: which lidar, and its serial number, which may be unusable.
Reports == [device : Devices, sn : Serials \union {NoSerial}]

NoMembers == [configured |-> FALSE, sn |-> NoSerial]
NoParams  == [sn |-> NoSerial, valid |-> FALSE, confirmed |-> FALSE]

IdInit ==
  /\ idNode = 0 /\ members = NoMembers /\ params = NoParams
  /\ opc = "idle" /\ writer = {} /\ reported = Never

\* SetIdentityParameters: a new object for node n, its parameters declared
\* with fixed values whatever the launch file overrides, or none (n = 0).
SetIdentityParameters(n) ==
  /\ idNode' = n /\ members' = NoMembers /\ params' = NoParams
  /\ reported' = Never
  /\ UNCHANGED <<opc, writer>>

\* Configure, from the parsed file and before the SDK starts.
Configure ==
  /\ members' = [configured |-> TRUE, sn |-> NoSerial]
  /\ params' = NoParams
  /\ UNCHANGED <<idNode, opc, writer, reported>>

\* The early return of Observe.
Accepts(r) == members.configured /\ r.device = Configured

\* ObserveIdentity, called by LidarInfoChangeCallback on the SDK thread: with
\* mutex_ held, the members take the serial, or nothing when it is unusable,
\* and Update sets the Writer() of this thread.
Observe(r) ==
  /\ opc = "idle" /\ idNode # 0
  /\ IF Accepts(r)
       THEN /\ opc' = "set"
            /\ members' = [members EXCEPT !.sn = r.sn]
            /\ writer' = writer \union {"sdk"}
       ELSE UNCHANGED <<opc, members, writer>>
  /\ reported' = IF r.device = Configured THEN r.sn ELSE reported
  /\ UNCHANGED <<idNode, params>>

\* Mutant of MayWrite: a mark that all threads share.
MayWriteShared(t) == writer # {}
\* The on-set callback compares the Writer() of the calling thread.
MayWrite(t) == t \in writer

\* set_parameters_atomically: all parameters change together.
SetParameters ==
  /\ opc = "set" /\ opc' = "unmark"
  /\ params' = IF MayWrite("sdk")
                 THEN [sn |-> members.sn, valid |-> members.sn # NoSerial, confirmed |-> TRUE]
                 ELSE params
  /\ UNCHANGED <<idNode, members, writer, reported>>

\* ~Scope restores Writer(), and Observe returns.
UnmarkWriter ==
  /\ opc = "unmark" /\ opc' = "idle"
  /\ writer' = writer \ {"sdk"}
  /\ UNCHANGED <<idNode, members, params, reported>>

\* A parameter client sets a serial number through the node's services.
ExternalSet(s) ==
  /\ idNode # 0
  /\ params' = IF MayWrite("executor") THEN [params EXCEPT !.sn = s, !.valid = TRUE] ELSE params
  /\ UNCHANGED <<idNode, members, opc, writer, reported>>

ObserveStep == SetParameters \/ UnmarkWriter

----------------------------------------------------------------------------
(* Properties. *)

\* Between two reports the parameters say what the configured lidar reported
\* last: no other lidar, no client and no earlier serial number shows
\* through, an unusable serial is never called valid, and nothing counts as
\* confirmed before the first report.
IdentityIsLatest ==
  opc = "idle" /\ members.configured =>
    /\ params.sn = IF reported = Never THEN NoSerial ELSE reported
    /\ params.valid <=> reported \in Serials
    /\ params.confirmed <=> reported # Never
=============================================================================
