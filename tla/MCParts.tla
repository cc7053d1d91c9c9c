------------------------------ MODULE MCParts ------------------------------
(* Small instances, for TLC, of the parts of the driver that share none of *)
(* the state modelled here: a behaviour is one of one of them, and leaves  *)
(* the others in their first state.                                        *)
EXTENDS LbsScan, LbsAssoc, LbsMesh, LbsDebugfs, LbsRx, LbsSettings,
        LbsFirmware, LbsProbe, TLC
CONSTANTS Parts, na, nb, nc, s1, s2, w1, w2, u1, u2, mesh

VARIABLE part

wlanVars  == <<scanVars, assocVars>>
filesVars == <<meshVars, debugVars>>
cardVars  == <<firmwareVars, probeVars>>
dataVars  == <<rxVars, settingsVars>>
allVars   == <<part, wlanVars, filesVars, cardVars, dataVars>>

(* Three networks in reach, on the three channels of the region.           *)
ThreeChannels == na :> 1 @@ nb :> 2 @@ nc :> 3

(* An infrastructure network without security and an ad-hoc one with WEP.  *)
TwoNets == {[ssid |-> "x", bssid |-> "b1", mode |-> "infra", channel |-> 1,
             security |-> "none"],
            [ssid |-> "y", bssid |-> "b2", mode |-> "adhoc", channel |-> 2,
             security |-> "wep"]}

(* Bound: at any time two items are in use, a command left behind is one.  *)
FewItems == Cardinality({i \in Items : drv'[i] # 0 \/ i \in unsure'})
            + Cardinality(left') <= 2

Init ==
    /\ part \in Parts
    /\ ScanInit  /\ (part # "scan" => link)
    /\ AssocInit /\ cur.CHANNEL = 1
    /\ part # "assoc" => connected /\ ~cur.SECINFO.wep
    /\ MeshInit
    /\ DebugInit /\ ~\E t \in Tlvs : subscribed[t]
    /\ \A r \in Regs, o \in Offsets : reg_mem[r][o] = 0
    /\ FirmwareInit /\ ProbeInit /\ RxInit /\ SettingsInit

Next ==
    \/ /\ UNCHANGED <<filesVars, cardVars, dataVars>>
       /\ \/ part = "scan" /\ ScanNext /\ UNCHANGED <<now, assocVars>>
          \/ /\ part = "table" /\ ScanNext
             /\ UNCHANGED <<link, tx_pending_len, assocVars>>
          \/ part = "assoc" /\ AssocNext /\ UNCHANGED scanVars
    \/ /\ UNCHANGED <<wlanVars, cardVars, dataVars>>
       /\ \/ part = "mesh" /\ MeshNext /\ UNCHANGED debugVars
          \/ part = "events" /\ EventNext /\ UNCHANGED meshVars
          \/ part = "registers" /\ RegNext /\ UNCHANGED meshVars
    \/ /\ UNCHANGED <<wlanVars, filesVars, dataVars>>
       /\ \/ part = "firmware" /\ FirmwareNext /\ UNCHANGED probeVars
          \/ part = "probe" /\ ProbeNext /\ UNCHANGED firmwareVars
    \/ /\ UNCHANGED <<wlanVars, filesVars, cardVars>>
       /\ \/ part = "receive" /\ RxNext /\ UNCHANGED settingsVars
          \/ /\ UNCHANGED rxVars
             /\ \/ part = "items" /\ ItemNext /\ FewItems
                \/ part = "rates" /\ RateNext

Spec ==
    Init /\ [][Next /\ UNCHANGED part]_allVars /\ ScanFairness /\ AssocFairness
=============================================================================
