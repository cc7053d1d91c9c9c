----------------------------- MODULE LbsNetdev -----------------------------
(***************************************************************************)
(* The network devices of main.c: opening and closing them, the multicast  *)
(* filter that a work of keventd keeps up with their flags, and monitor    *)
(* mode with its device.  priv->mac_control has another writer, the        *)
(* association worker (assoc_helper_wep_keys); neither holds a lock.       *)
(***************************************************************************)
EXTENDS Integers, Sequences, FiniteSets

CONSTANTS
    Groups,     \* the multicast addresses programs join
    MaxList,    \* MRVDRV_MAX_MULTICAST_LIST_SIZE
    NetFlags,   \* \subseteq {"promisc", "allmulti"}
    LinkStates, \* what an opened device may find: [connected, pending]
    MaxChanges, \* (bound) what programs and the associations change
    NetFaults   \* \subseteq {"memory", "dropped", "refused"}

Devs == {"eth", "mesh"}

VARIABLES
    \* the kernel's side
    present,     \* the devices registered: "mesh" is priv->mesh_dev
    up,          \* IFF_UP is clear when "down", set when "up" or "closing"
    flags,       \* dev->flags, the NetFlags of it
    groups,      \* dev->mc_list
    link_on,     \* the carrier and the queue of each device
    running,
    changes,     \* what MaxChanges bounds
    \* the driver's
    open,        \* infra_open and mesh_open
    mcast_work,  \* the work is queued
    mpc,         \* where it is
    old,         \* old_mac_control, and the value in a register
    mreg,
    filter,      \* mcast_cmd.maclist, and what would make it too long
    mac_control, \* the bits of it two writers set
    apc,         \* assoc_helper_wep_keys at its read, store and command
    areg,
    monitormode,
    rtap,        \* priv->rtap_net_dev is there
    rpc,         \* where lbs_rtap_set is
    \* the firmware's
    cmdq,        \* the commands to it that are not yet carried out
    hw,          \* its MAC control, multicast list and monitor mode
    \* (history)
    behind,      \* the commands of which the last was lost or refused
    overwritten, \* a writer of mac_control undid what the other did
    slipped      \* a device was opened while monitor mode was being set up

kernelVars  == <<present, up, flags, groups, changes>>
netifVars   == <<link_on, running>>
workerVars  == <<mpc, old, mreg, filter>>
controlVars == <<mac_control, overwritten>>
wepVars     == <<apc, areg>>
rtapVars    == <<monitormode, rtap, rpc>>
fwSideVars  == <<cmdq, hw, behind>>
netdevVars  == <<kernelVars, netifVars, open, mcast_work, workerVars,
                 controlVars, wepVars, rtapVars, fwSideVars, slipped>>

Bits == {"promisc", "all", "multi", "wep"}
NoFilter == {}

NetdevInit ==
    /\ present \in {{"eth"}, Devs}
    /\ up = [d \in Devs |-> "down"] /\ open = [d \in Devs |-> FALSE]
    /\ flags = [d \in Devs |-> {}] /\ groups = [d \in Devs |-> {}]
    /\ link_on = [d \in Devs |-> FALSE] /\ running = [d \in Devs |-> FALSE]
    /\ changes = 0
    /\ mcast_work = FALSE /\ mpc = "idle"
    /\ old = {} /\ mreg = {} /\ filter = NoFilter
    /\ mac_control = {} /\ apc = "idle" /\ areg = {}
    /\ monitormode = FALSE /\ rtap = FALSE /\ rpc = "idle"
    /\ cmdq = <<>> /\ hw = [control |-> {}, list |-> {}, monitor |-> FALSE]
    /\ behind = {} /\ overwritten = FALSE /\ slipped = FALSE

(* The kernel calls a device's functions under RTNL, one at a time, and    *)
(* tells the driver of new flags or addresses when the device is up:       *)
(* lbs_set_multicast_list.                                                 *)
Rtnl == \A d \in Devs : up[d] # "closing"
Change == changes < MaxChanges /\ changes' = changes + 1
TellIf(d) == mcast_work' = (mcast_work \/ up'[d] = "up")
-----------------------------------------------------------------------------
(* lbs_dev_open: not in monitor mode.  What it does to the carrier and the *)
(* queue depends on the association and on the packet being sent.          *)
MayOpen_Always == TRUE
MayOpen == ~monitormode

DevOpen(d) ==
    /\ Rtnl /\ d \in present /\ up[d] = "down" /\ MayOpen
    /\ Change
    /\ open' = [open EXCEPT ![d] = TRUE]
    /\ \E l \in LinkStates :
          /\ link_on' = [link_on EXCEPT ![d] = d = "mesh" \/ l.connected]
          /\ running' = [running EXCEPT ![d] = ~l.pending \/ @]
    /\ up' = [up EXCEPT ![d] = "up"] /\ TellIf(d)
    /\ slipped' = (slipped \/ rpc \in {"leave", "add", "store"})
    /\ UNCHANGED <<present, flags, groups, workerVars, controlVars, wepVars,
                   rtapVars, fwSideVars>>

(* lbs_eth_stop, lbs_mesh_stop: the work is scheduled while the flags      *)
(* still say that the device is up.                                        *)
Stopped(d) ==
    /\ open' = [open EXCEPT ![d] = FALSE]
    /\ running' = [running EXCEPT ![d] = FALSE]
    /\ link_on' = [link_on EXCEPT ![d] = @ /\ d # "mesh"]
    /\ mcast_work' = TRUE

DevStop(d) ==
    /\ Rtnl /\ up[d] = "up"
    /\ Stopped(d)
    /\ up' = [up EXCEPT ![d] = "closing"]
    /\ UNCHANGED <<present, flags, groups, changes, workerVars, controlVars,
                   wepVars, rtapVars, fwSideVars, slipped>>

DevDown(d) ==
    /\ up[d] = "closing"
    /\ up' = [up EXCEPT ![d] = "down"]
    /\ UNCHANGED <<present, flags, groups, changes, netifVars, open,
                   mcast_work, workerVars, controlVars, wepVars, rtapVars,
                   fwSideVars, slipped>>

ChangeFlags(d, f) ==
    /\ Rtnl /\ d \in present /\ f # flags[d] /\ Change
    /\ flags' = [flags EXCEPT ![d] = f]
    /\ UNCHANGED up /\ TellIf(d)
    /\ UNCHANGED <<present, groups, netifVars, open, workerVars, controlVars,
                   wepVars, rtapVars, fwSideVars, slipped>>

JoinOrLeave(d, g) ==
    /\ Rtnl /\ d \in present /\ Change
    /\ groups' = [groups EXCEPT ![d] = IF g \in @ THEN @ \ {g} ELSE @ \cup {g}]
    /\ UNCHANGED up /\ TellIf(d)
    /\ UNCHANGED <<present, flags, netifVars, open, workerVars, controlVars,
                   wepVars, rtapVars, fwSideVars, slipped>>

(* lbs_mesh_set, after its command: lbs_add_mesh, or lbs_remove_mesh,      *)
(* which closes the device and waits for that before it forgets it.        *)
MeshAdded ==
    /\ Rtnl /\ "mesh" \notin present /\ Change
    /\ present' = Devs
    /\ UNCHANGED <<up, flags, groups, netifVars, open, mcast_work, workerVars,
                   controlVars, wepVars, rtapVars, fwSideVars, slipped>>

MeshRemoved ==
    /\ "mesh" \in present /\ up["mesh"] = "down" /\ Change
    /\ present' = {"eth"}
    /\ flags' = [flags EXCEPT !["mesh"] = {}]
    /\ groups' = [groups EXCEPT !["mesh"] = {}]
    /\ UNCHANGED <<up, netifVars, open, mcast_work, workerVars, controlVars,
                   wepVars, rtapVars, fwSideVars, slipped>>
-----------------------------------------------------------------------------
(* A command that nobody waits for (lbs_cmd_async), or of which nobody     *)
(* looks at the result: no trace is left of one for which no command node  *)
(* is free.                                                                *)
CmdAsync(c) ==
    \/ /\ cmdq' = Append(cmdq, c)
       /\ behind' = behind \ {c.name}
    \/ /\ "dropped" \in NetFaults /\ UNCHANGED cmdq
       /\ behind' = behind \cup {c.name}

(* lbs_set_mcast_worker.  Promiscuous or all-multicast flags leave the     *)
(* list alone; a list that is too long asks for all multicast as well.     *)
AllFlags == UNION {flags[d] : d \in present}

WorkStarts ==
    /\ mcast_work /\ mpc = "idle"
    /\ mcast_work' = FALSE
    /\ old' = mac_control /\ filter' = NoFilter
    /\ mpc' = IF AllFlags = {} THEN "eth"
              ELSE IF "promisc" \in AllFlags THEN "promisc" ELSE "all"
    /\ UNCHANGED <<kernelVars, netifVars, open, mreg, controlVars, wepVars,
                   rtapVars, fwSideVars, slipped>>

(* lbs_add_mcast_addrs, of a device that is up: an address that another    *)
(* device has already is not added again.                                  *)
Added_Truncated(list, more) ==
    IF Cardinality(list \cup more) > MaxList THEN list ELSE list \cup more
Added(list, more) == list \cup more

AddMcastAddrs(d, next) ==
    /\ mpc = d
    /\ filter' = IF d \in present /\ up[d] # "down"
                 THEN Added(filter, groups[d]) ELSE filter
    /\ mpc' = IF Cardinality(filter') > MaxList THEN "all" ELSE next
    /\ UNCHANGED <<kernelVars, netifVars, open, mcast_work, old, mreg,
                   controlVars, wepVars, rtapVars, fwSideVars, slipped>>

SendList ==
    /\ mpc = "list"
    /\ \/ filter = {} /\ mpc' = "none" /\ UNCHANGED <<cmdq, behind>>
       \/ filter # {} /\ mpc' = "multi" /\ CmdAsync([name |-> "list", list |-> filter])
    /\ UNCHANGED <<kernelVars, netifVars, open, mcast_work, old, mreg, filter,
                   controlVars, wepVars, rtapVars, hw, slipped>>

(* mac_control is read and written back, then sent if it has changed.      *)
ReadControl ==
    /\ mpc \in {"promisc", "all", "multi", "none"}
    /\ mreg' = (mac_control \cap {"wep"}) \cup ({mpc} \cap Bits)
    /\ mpc' = "store"
    /\ UNCHANGED <<kernelVars, netifVars, open, mcast_work, old, filter,
                   controlVars, wepVars, rtapVars, fwSideVars, slipped>>

StoreControl ==
    /\ mpc = "store"
    /\ overwritten' = (overwritten \/ "wep" \in (mreg \ mac_control)
                                   \/ "wep" \in (mac_control \ mreg))
    /\ mac_control' = mreg
    /\ mpc' = "send"
    /\ UNCHANGED <<kernelVars, netifVars, open, mcast_work, old, mreg, filter,
                   wepVars, rtapVars, fwSideVars, slipped>>

Control == [name |-> "control", control |-> mac_control]

SendControl ==
    /\ mpc = "send"
    /\ IF mac_control = old THEN UNCHANGED <<cmdq, behind>> ELSE CmdAsync(Control)
    /\ mpc' = "idle"
    /\ UNCHANGED <<kernelVars, netifVars, open, mcast_work, old, mreg, filter,
                   controlVars, wepVars, rtapVars, hw, slipped>>

(* assoc_helper_wep_keys does the same for its bit.                        *)
KeysRead(wep) ==
    /\ apc = "idle" /\ Change
    /\ areg' = IF wep THEN mac_control \cup {"wep"} ELSE mac_control \ {"wep"}
    /\ apc' = "store"
    /\ UNCHANGED <<present, up, flags, groups, netifVars, open, mcast_work,
                   workerVars, controlVars, rtapVars, fwSideVars, slipped>>

KeysStore ==
    /\ apc = "store"
    /\ overwritten' = (overwritten \/ (areg \ {"wep"}) # (mac_control \ {"wep"}))
    /\ mac_control' = areg
    /\ apc' = "send"
    /\ UNCHANGED <<kernelVars, netifVars, open, mcast_work, workerVars, areg,
                   rtapVars, fwSideVars, slipped>>

KeysSend ==
    /\ apc = "send"
    /\ CmdAsync(Control)
    /\ apc' = "idle"
    /\ UNCHANGED <<kernelVars, netifVars, open, mcast_work, workerVars, areg,
                   controlVars, rtapVars, hw, slipped>>
-----------------------------------------------------------------------------
(* lbs_rtap_set, monitor mode on: refused while a device is open; then the *)
(* network is left, which takes a command, and the device made, of which   *)
(* the result is ignored; only then is the mode set.                       *)
RtapOn ==
    /\ rpc = "idle" /\ ~monitormode
    /\ \A d \in Devs : ~open[d]
    /\ rpc' = "leave"
    /\ UNCHANGED <<kernelVars, netifVars, open, mcast_work, workerVars,
                   controlVars, wepVars, monitormode, rtap, fwSideVars,
                   slipped>>

RtapLeft ==
    /\ rpc = "leave"
    /\ rpc' = "add"
    /\ UNCHANGED <<kernelVars, netifVars, open, mcast_work, workerVars,
                   controlVars, wepVars, monitormode, rtap, fwSideVars,
                   slipped>>

RtapAdded ==
    /\ rpc = "add" /\ Rtnl
    /\ rtap' = TRUE \/ ("memory" \in NetFaults /\ rtap' = rtap)
    /\ rpc' = "store"
    /\ UNCHANGED <<kernelVars, netifVars, open, mcast_work, workerVars,
                   controlVars, wepVars, monitormode, fwSideVars, slipped>>

RtapStored ==
    /\ rpc = "store"
    /\ monitormode' = TRUE
    /\ rpc' = "tell"
    /\ UNCHANGED <<kernelVars, netifVars, open, mcast_work, workerVars,
                   controlVars, wepVars, rtap, fwSideVars, slipped>>

(* Off again: the mode first, then the device.                             *)
RtapOff ==
    /\ rpc = "idle" /\ monitormode
    /\ monitormode' = FALSE
    /\ rpc' = "remove"
    /\ UNCHANGED <<kernelVars, netifVars, open, mcast_work, workerVars,
                   controlVars, wepVars, rtap, fwSideVars, slipped>>

RtapRemoved ==
    /\ rpc = "remove" /\ Rtnl
    /\ rtap' = FALSE
    /\ rpc' = "tell"
    /\ UNCHANGED <<kernelVars, netifVars, open, mcast_work, workerVars,
                   controlVars, wepVars, monitormode, fwSideVars, slipped>>

RtapTell ==
    /\ rpc = "tell"
    /\ CmdAsync([name |-> "monitor", monitor |-> monitormode])
    /\ rpc' = "told"
    /\ UNCHANGED <<kernelVars, netifVars, open, mcast_work, workerVars,
                   controlVars, wepVars, monitormode, rtap, hw, slipped>>

(* It waits for the answer, and does not look at the result.               *)
RtapDone ==
    /\ rpc = "told"
    /\ ~\E i \in DOMAIN cmdq : cmdq[i].name = "monitor"
    /\ rpc' = "idle"
    /\ UNCHANGED <<kernelVars, netifVars, open, mcast_work, workerVars,
                   controlVars, wepVars, monitormode, rtap, fwSideVars,
                   slipped>>

(* The firmware carries out the commands in order, or refuses one, which   *)
(* is of no matter when another of the kind follows.                       *)
FwTakes ==
    /\ cmdq # <<>>
    /\ cmdq' = Tail(cmdq)
    /\ LET c == Head(cmdq)
       IN  \/ /\ hw' = [f \in DOMAIN hw |-> IF f = c.name THEN c[f] ELSE hw[f]]
              /\ UNCHANGED behind
           \/ /\ "refused" \in NetFaults /\ UNCHANGED hw
              /\ behind' = behind \cup
                    ({c.name} \ {cmdq[i].name : i \in 2..Len(cmdq)})
    /\ UNCHANGED <<kernelVars, netifVars, open, mcast_work, workerVars,
                   controlVars, wepVars, rtapVars, slipped>>

NetdevNext ==
    \/ \E d \in Devs :
          \/ DevOpen(d) \/ DevStop(d) \/ DevDown(d)
          \/ \E f \in SUBSET NetFlags : ChangeFlags(d, f)
          \/ \E g \in Groups : JoinOrLeave(d, g)
    \/ MeshAdded \/ MeshRemoved
    \/ WorkStarts \/ AddMcastAddrs("eth", "mesh") \/ AddMcastAddrs("mesh", "list")
    \/ SendList \/ ReadControl \/ StoreControl \/ SendControl
    \/ (\E wep \in BOOLEAN : KeysRead(wep)) \/ KeysStore \/ KeysSend
    \/ FwTakes

MonitorNext ==
    \/ RtapOn \/ RtapLeft \/ RtapAdded \/ RtapStored
    \/ RtapOff \/ RtapRemoved \/ RtapTell \/ RtapDone
    \/ FwTakes \/ (\E d \in Devs : DevOpen(d) \/ DevStop(d) \/ DevDown(d))

NetdevSpec == NetdevInit /\ [][NetdevNext \/ MonitorNext]_netdevVars
-----------------------------------------------------------------------------
(* When all is quiet, the firmware lets through every group that a device  *)
(* which is up has joined, and everything when one of them is promiscuous  *)
(* (lbs_set_mcast_worker): unless a writer of mac_control has undone what  *)
(* the other did.  A command that is lost or refused counts only until the *)
(* next of its kind is carried out; for mac_control that may be never, as  *)
(* the worker sends it only when it changes (SendControl).                 *)
Quiet == ~mcast_work /\ mpc = "idle" /\ apc = "idle" /\ cmdq = <<>>
LetThrough ==
    CASE hw.control \cap {"promisc", "all"} # {} -> Groups
      [] "multi" \in hw.control /\ hw.control \cap {"promisc", "all"} = {}
           -> hw.list
      [] OTHER -> {}

GroupsLetThrough ==
    Quiet /\ ~overwritten /\ "control" \notin behind =>
        /\ hw.control = mac_control
        /\ \A d \in present : up[d] = "up" =>
              /\ "promisc" \in flags[d] => "promisc" \in hw.control
              /\ "allmulti" \in flags[d] => LetThrough = Groups
              /\ "list" \notin behind \/ "multi" \notin hw.control
                 => groups[d] \subseteq LetThrough

(* No device is open in monitor mode (lbs_dev_open, lbs_rtap_set), but one *)
(* that was opened while monitor mode was being set up.                    *)
MonitorOrOpen ==
    monitormode /\ (\E d \in Devs : open[d]) => slipped
=============================================================================
