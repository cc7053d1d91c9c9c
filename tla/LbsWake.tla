------------------------------- MODULE LbsWake -------------------------------
(***************************************************************************)
(* Wake on wireless: the criteria ethtool sets (ethtool.c), the firmware   *)
(* keeps (lbs_host_sleep_cfg) and ethtool shows.  The SDIO glue neither    *)
(* configures them nor suspends the card, so that lbs_ethtool_set_wol is   *)
(* the only one to call lbs_host_sleep_cfg.                                *)
(***************************************************************************)
EXTENDS Naturals, FiniteSets

CONSTANTS
    Options,     \* what ethtool may ask for, of the bits of wolopts
    WakeFaults   \* \subseteq {"refused", "lost"}

VARIABLES
    wol_criteria,  \* priv->wol_criteria; Unset is 0xffffffff
    fw_criteria,   \* the firmware's
    wol_known,     \* history: the last HOST_SLEEP_CFG sent was not lost
    wol_asked      \* history: what the last call that succeeded asked for

wakeVars == <<wol_criteria, fw_criteria, wol_known, wol_asked>>

Unset == {"unset"}

(* The bits of wolopts, and the firmware's for each.                       *)
Ehs == [WAKE_UCAST |-> "UNICAST_DATA", WAKE_MCAST |-> "MULTICAST_DATA",
        WAKE_BCAST |-> "BROADCAST_DATA", WAKE_PHY |-> "MAC_EVENT"]

WakeInit ==
    /\ wol_criteria = Unset /\ fw_criteria = {}
    /\ wol_known = TRUE /\ wol_asked = {}

Criteria(opts) == {Ehs[o] : o \in opts}

(* lbs_host_sleep_cfg: the driver keeps what the firmware has accepted.    *)
WolKept(ok, criteria) == IF ok THEN criteria ELSE wol_criteria

HostSleepCfg(criteria) ==
    \/ /\ fw_criteria' = criteria
       /\ wol_criteria' = WolKept(TRUE, criteria)
       /\ wol_known' = TRUE
    \/ /\ "refused" \in WakeFaults
       /\ wol_criteria' = WolKept(FALSE, criteria)
       /\ UNCHANGED <<fw_criteria, wol_known>>
    \/ /\ "lost" \in WakeFaults
       /\ fw_criteria' \in {fw_criteria, criteria}
       /\ wol_criteria' = WolKept(FALSE, criteria)
       /\ wol_known' = FALSE

(* lbs_ethtool_set_wol: asked for nothing, it does not care whether wake   *)
(* was configured.                                                         *)
SetWol(opts) ==
    /\ opts \subseteq DOMAIN Ehs
    /\ wol_criteria = Unset => opts = {}
    /\ HostSleepCfg(Criteria(opts))
    /\ wol_asked' = IF wol_criteria' = Criteria(opts) THEN opts ELSE wol_asked

WakeNext == \E opts \in Options : SetWol(opts)

(* lbs_ethtool_get_wol.                                                    *)
Supported == IF wol_criteria = Unset THEN {} ELSE DOMAIN Ehs
WolOpts == {o \in Supported : Ehs[o] \in wol_criteria}
-----------------------------------------------------------------------------
(* What lbs_ethtool_get_wol shows is what the firmware has been told       *)
(* (lbs_host_sleep_cfg), unless that was lost, whatever it has refused;    *)
(* and the bits come back as they were asked for.                          *)
WolIsReal ==
    /\ wol_known => fw_criteria = {Ehs[o] : o \in WolOpts}
    /\ WolOpts = wol_asked
=============================================================================
