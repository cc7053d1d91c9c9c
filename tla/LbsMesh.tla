------------------------------ MODULE LbsMesh ------------------------------
(***************************************************************************)
(* The mesh defaults the firmware keeps over a reboot, read and written    *)
(* through the sysfs attributes of persistcfg.c.  Every open file is a     *)
(* process of its own and no lock joins its commands.                      *)
(***************************************************************************)
EXTENDS Integers, FiniteSets

CONSTANTS
    Writers,     \* the processes with an attribute file open
    Attrs,       \* the attributes they have open, among Attr
    Datums,      \* the numbers they write (an unsigned int in the code)
    MeshIds,     \* the mesh names they write
    InitialId,   \* the name before anybody writes one
    Uninitialized, \* the bytes of a stack variable nobody has written
    MeshFaults   \* \subseteq {"get", "set"}: the commands that may fail

IeAttr   == {"mesh_id", "protocol_id", "metric_id", "capability"}
BootAttr == {"bootflag", "boottime", "channel"}
Attr     == IeAttr \cup BootAttr

ASSUME MeshAssumption == /\ Attrs \subseteq Attr
                         /\ Datums \subseteq Nat
                         /\ {InitialId, Uninitialized} \cap MeshIds = {}

VARIABLES
    defaults,   \* struct mrvl_mesh_defaults, as the firmware keeps it
    wpc,        \* per writer: "idle", "get", "show", "set"
    wattr,      \* per writer: the attribute it has open
    warg,       \* per writer: the value it writes
    ie,         \* per writer: the mesh IE in its cmd.data
    overtaken   \* per writer (history): IE fields written since its get

meshVars == <<defaults, wpc, wattr, warg, ie, overtaken>>

(* bootflag is !!datum, boottime one byte and at least 20 before it is     *)
(* stored there, channel between 1 and 11; the IDs and the capability are  *)
(* bytes of the IE.                                                        *)
Stored(attr, v) ==
    CASE attr = "bootflag" -> IF v = 0 THEN 0 ELSE 1
      [] attr = "boottime" -> (IF v < 20 THEN 20 ELSE v) % 256
      [] attr = "channel"  -> v
      [] attr = "mesh_id"  -> v
      [] OTHER -> v % 256

Acceptable(attr, v) ==
    /\ attr = "channel" => v \in 1..11
    /\ attr = "mesh_id" <=> v \in MeshIds

Ie == [f \in IeAttr |-> defaults[f]]

NoneOpen == [w \in Writers |-> "channel"]

MeshInit ==
    /\ defaults = [a \in Attr |-> IF a = "mesh_id" THEN InitialId
                                  ELSE IF a = "boottime" THEN 30 ELSE 1]
    /\ wpc = [w \in Writers |-> "idle"]
    /\ wattr = NoneOpen
    /\ warg = [w \in Writers |-> 0]
    /\ ie = [w \in Writers |-> <<>>]
    /\ overtaken = [w \in Writers |-> {}]

(* The locals of a call end with it.                                       *)
Return(w) ==
    /\ wpc' = [wpc EXCEPT ![w] = "idle"]
    /\ wattr' = [wattr EXCEPT ![w] = "channel"]
    /\ warg' = [warg EXCEPT ![w] = 0]
    /\ ie' = [ie EXCEPT ![w] = <<>>]

(* The store functions up to their first command: the IE attributes fetch  *)
(* "all other Information Element parameters" first.  A number sscanf      *)
(* cannot read, a channel or a name out of range is refused.               *)
Write(w) ==
    /\ wpc[w] = "idle"
    /\ \E attr \in Attrs, v \in Datums \cup MeshIds :
          /\ Acceptable(attr, v)
          /\ wattr' = [wattr EXCEPT ![w] = attr]
          /\ warg' = [warg EXCEPT ![w] = v]
          /\ wpc' = [wpc EXCEPT ![w] = IF attr \in IeAttr THEN "get" ELSE "set"]
    /\ UNCHANGED <<defaults, ie, overtaken>>

(* The show functions fetch the defaults and print one of them, or return  *)
(* -EOPNOTSUPP.                                                            *)
Read(w) ==
    /\ wpc[w] = "idle"
    /\ \E attr \in Attrs : wattr' = [wattr EXCEPT ![w] = attr]
    /\ wpc' = [wpc EXCEPT ![w] = "show"]
    /\ UNCHANGED <<defaults, warg, ie, overtaken>>

Shown(w) ==
    /\ wpc[w] = "show"
    /\ Return(w)
    /\ UNCHANGED <<defaults, overtaken>>

(* mesh_get_default_parameters fills defs only if the command succeeds,    *)
(* and its result is not looked at: what is on the stack is written back.  *)
Fetched(w) ==
    /\ wpc[w] = "get"
    /\ \/ ie' = [ie EXCEPT ![w] = Ie]
       \/ /\ "get" \in MeshFaults
          /\ ie' = [ie EXCEPT ![w] = [f \in IeAttr |-> Uninitialized]]
    /\ overtaken' = [overtaken EXCEPT ![w] = {}]
    /\ wpc' = [wpc EXCEPT ![w] = "set"]
    /\ UNCHANGED <<defaults, wattr, warg>>

Changed_MetricCleared(copy, attr, v) ==
    [copy EXCEPT ![attr] = Stored(attr, v), !["metric_id"] = 0]
Changed(copy, attr, v) == [copy EXCEPT ![attr] = Stored(attr, v)]

(* CMD_TYPE_MESH_SET_MESH_IE writes the whole IE, the other types a value. *)
Set(w) ==
    /\ wpc[w] = "set"
    /\ defaults' =
          IF wattr[w] \in IeAttr
          THEN LET new == Changed(ie[w], wattr[w], warg[w])
               IN  [a \in Attr |-> IF a \in IeAttr THEN new[a] ELSE defaults[a]]
          ELSE Changed(defaults, wattr[w], warg[w])
    /\ overtaken' = [x \in Writers |->
          IF x = w \/ wpc[x] # "set" \/ wattr[x] \notin IeAttr THEN {}
          ELSE overtaken[x] \cup {f \in IeAttr : defaults'[f] # defaults[f]}]
    /\ Return(w)

SetFails(w) ==
    /\ wpc[w] = "set"
    /\ "set" \in MeshFaults
    /\ overtaken' = [overtaken EXCEPT ![w] = {}]
    /\ Return(w)
    /\ UNCHANGED defaults

MeshNext == \E w \in Writers :
    Write(w) \/ Read(w) \/ Shown(w) \/ Fetched(w) \/ Set(w) \/ SetFails(w)

MeshSpec == MeshInit /\ [][MeshNext]_meshVars
-----------------------------------------------------------------------------
(* As long as the gets succeed, the IE is a record whose fields are        *)
(* changed one at a time by fetching, changing and writing it back.        *)
IeValues == {v % 256 : v \in Datums} \cup MeshIds \cup {InitialId, 1}
Holding == {w \in Writers : wpc[w] = "set" /\ wattr[w] \in IeAttr}
Rmw == INSTANCE ReadModifyWrite WITH
    Clients <- Writers, Fields <- IeAttr, Values <- IeValues,
    cell <- Ie,
    copy <- [w \in Holding |-> ie[w]],
    overtaken <- [w \in Holding |-> overtaken[w]]
IeIsReadModifyWrite == Rmw!Spec
=============================================================================
