----------------------------- MODULE LbsDebugfs -----------------------------
(***************************************************************************)
(* The debugfs files (debugfs.c) that subscribe to events of the firmware  *)
(* and that read and write its registers.  Every open file is a process of *)
(* its own; no lock joins a file's commands, and the readers of registers  *)
(* share priv->offsetvalue.                                                *)
(***************************************************************************)
EXTENDS Integers, FiniteSets

CONSTANTS
    Users,       \* the processes with a file open
    Tlvs,        \* the events: low_rssi, low_snr, ..., beacon_missed
    Levels,      \* the thresholds they write
    Regs,        \* the kinds of register: mac, bbp, rf
    Offsets,     \* the offsets they name
    Words,       \* what registers hold
    DebugFaults  \* \subseteq {"get", "set", "reg"}: the commands that may fail

ASSUME DebugAssumption == Levels # {} /\ Offsets # {} /\ Words # {}

VARIABLES
    subscribed,  \* the firmware's event mask
    threshold,   \* and its thresholds
    reg_mem,     \* and its registers
    reg_offset,  \* mac_offset, bbp_offset, rf_offset
    offsetvalue, \* priv->offsetvalue.value
    dpc,         \* per user: "idle", or the command it waits for, or "show"
    darg,        \* per user: its arguments
    mask,        \* per user: the event mask in its command
    mask_late,   \* per user (history): events changed since its get
    disturbed    \* per user (history): its read was crossed or failed

eventVars == <<subscribed, threshold, mask, mask_late>>
regVars   == <<reg_mem, reg_offset, offsetvalue, disturbed>>
debugVars == <<eventVars, regVars, dpc, darg>>

NoArgs == [file |-> "none"]

DebugInit ==
    /\ subscribed \in {[t \in Tlvs |-> FALSE], [t \in Tlvs |-> TRUE]}
    /\ threshold = [t \in Tlvs |-> CHOOSE l \in Levels : TRUE]
    /\ reg_mem \in {[r \in Regs |-> f] : f \in [Offsets -> Words]}
    /\ reg_offset = [r \in Regs |-> CHOOSE o \in Offsets : TRUE]
    /\ offsetvalue = CHOOSE w \in Words : TRUE
    /\ dpc = [u \in Users |-> "idle"]
    /\ darg = [u \in Users |-> NoArgs]
    /\ mask = [u \in Users |-> <<>>]
    /\ mask_late = [u \in Users |-> {}]
    /\ disturbed = [u \in Users |-> FALSE]

Call(u, pc, args) ==
    /\ dpc[u] = "idle"
    /\ dpc' = [dpc EXCEPT ![u] = pc]
    /\ darg' = [darg EXCEPT ![u] = args]

Done(u) ==
    /\ dpc' = [dpc EXCEPT ![u] = "idle"]
    /\ darg' = [darg EXCEPT ![u] = NoArgs]
-----------------------------------------------------------------------------
(* lbs_threshold_write: CMD_802_11_SUBSCRIBE_EVENT gets the mask, and sets *)
(* it with one event's bit changed and that event's threshold.  A text of  *)
(* fewer than three numbers and a page that cannot be had end it at once.  *)
ThresholdWrite(u) ==
    /\ \E t \in Tlvs, l \in Levels, on \in BOOLEAN :
          Call(u, "get", [file |-> "event", tlv |-> t, level |-> l, on |-> on])
    /\ UNCHANGED <<eventVars, regVars>>

MaskFetched(u) ==
    /\ dpc[u] = "get"
    /\ \/ /\ mask' = [mask EXCEPT ![u] = subscribed]
          /\ dpc' = [dpc EXCEPT ![u] = "set"]
          /\ UNCHANGED darg
       \/ /\ "get" \in DebugFaults
          /\ Done(u)
          /\ UNCHANGED mask
    /\ mask_late' = [mask_late EXCEPT ![u] = {}]
    /\ UNCHANGED <<subscribed, threshold, regVars>>

NewMask_OnlyThis(old, t, on) == [x \in Tlvs |-> x = t /\ on]
NewMask(old, t, on) == [old EXCEPT ![t] = on]

MaskSet(u) ==
    /\ dpc[u] = "set"
    /\ \/ LET a == darg[u]
          IN  /\ subscribed' = NewMask(mask[u], a.tlv, a.on)
              /\ threshold' = [threshold EXCEPT ![a.tlv] = a.level]
       \/ "set" \in DebugFaults /\ UNCHANGED <<subscribed, threshold>>
    /\ mask' = [mask EXCEPT ![u] = <<>>]
    /\ mask_late' = [x \in Users |->
          IF x = u \/ dpc[x] # "set" THEN {}
          ELSE mask_late[x] \cup {t \in Tlvs : subscribed'[t] # subscribed[t]}]
    /\ Done(u)
    /\ UNCHANGED regVars
-----------------------------------------------------------------------------
(* lbs_rdmac_write and its like: the offset to read from.                  *)
Crossed(r) == [u \in Users |->
    disturbed[u] \/ (dpc[u] \in {"read", "show"} /\ darg[u].reg = r)]

OffsetWrite(u) ==
    /\ dpc[u] = "idle"
    /\ \E r \in Regs, o \in Offsets :
          /\ reg_offset' = [reg_offset EXCEPT ![r] = o]
          /\ disturbed' = Crossed(r)
    /\ UNCHANGED <<eventVars, reg_mem, offsetvalue, dpc, darg>>

(* lbs_rdmac_read: the command carries the offset; the answer is left in   *)
(* priv->offsetvalue (lbs_ret_reg_access); 10 ms later the offset and that *)
(* are printed, whatever the command's result.                             *)
RegRead(u) ==
    /\ \E r \in Regs : Call(u, "read", [file |-> "read", reg |-> r,
                                        offset |-> reg_offset[r]])
    /\ disturbed' = [disturbed EXCEPT ![u] = FALSE]
    /\ UNCHANGED <<eventVars, reg_mem, reg_offset, offsetvalue>>

Answered_OtherOffset(a) == reg_mem[a.reg][CHOOSE o \in Offsets : TRUE]
Answered(a) == reg_mem[a.reg][a.offset]

RegReadAnswer(u) ==
    /\ dpc[u] = "read"
    /\ dpc' = [dpc EXCEPT ![u] = "show"]
    /\ \/ /\ offsetvalue' = Answered(darg[u])
          /\ disturbed' = [x \in Users |-> disturbed[x] \/ (x # u /\ dpc[x] = "show")]
       \/ /\ "reg" \in DebugFaults
          /\ disturbed' = [disturbed EXCEPT ![u] = TRUE]
          /\ UNCHANGED offsetvalue
    /\ UNCHANGED <<eventVars, reg_mem, reg_offset, darg>>

RegShown(u) ==
    /\ dpc[u] = "show"
    /\ Done(u)
    /\ UNCHANGED <<eventVars, regVars>>

(* lbs_wrmac_write: its answer goes to priv->offsetvalue, too; that the    *)
(* command failed is not reported.                                         *)
RegWrite(u) ==
    /\ \E r \in Regs, o \in Offsets, w \in Words :
          Call(u, "write", [file |-> "write", reg |-> r, offset |-> o, word |-> w])
    /\ UNCHANGED <<eventVars, regVars>>

RegWritten(u) ==
    /\ dpc[u] = "write"
    /\ \/ LET a == darg[u]
          IN  /\ reg_mem' = [reg_mem EXCEPT ![a.reg][a.offset] = a.word]
              /\ offsetvalue' = a.word
              /\ disturbed' = [x \in Users |-> disturbed[x] \/ dpc[x] = "show"]
       \/ "reg" \in DebugFaults /\ UNCHANGED <<reg_mem, offsetvalue, disturbed>>
    /\ Done(u)
    /\ UNCHANGED <<eventVars, reg_offset>>

EventNext == \E u \in Users : ThresholdWrite(u) \/ MaskFetched(u) \/ MaskSet(u)

RegNext == \E u \in Users :
    \/ OffsetWrite(u) \/ RegRead(u) \/ RegReadAnswer(u) \/ RegShown(u)
    \/ RegWrite(u) \/ RegWritten(u)

DebugNext == EventNext \/ RegNext

DebugSpec == DebugInit /\ [][DebugNext]_debugVars
-----------------------------------------------------------------------------
(* The event mask is a record of bits, changed one at a time by fetching,  *)
(* changing and writing it back; a get that fails ends the call            *)
(* (lbs_threshold_write), so that nothing is ever made up.                 *)
Setting == {u \in Users : dpc[u] = "set"}
RmwMask == INSTANCE ReadModifyWrite WITH
    Clients <- Users, Fields <- Tlvs, Values <- BOOLEAN,
    cell <- subscribed,
    copy <- [u \in Setting |-> mask[u]],
    overtaken <- [u \in Setting |-> mask_late[u]]
MaskIsReadModifyWrite == RmwMask!Spec

(* What a reader of a register is shown is the register at the offset it   *)
(* is shown, unless another file came between (lbs_rdmac_read).            *)
RegisterShown ==
    [][\A u \in Users : dpc[u] = "show" /\ dpc'[u] = "idle" /\ ~disturbed[u]
          => offsetvalue = reg_mem[darg[u].reg][reg_offset[darg[u].reg]]]_debugVars
=============================================================================
