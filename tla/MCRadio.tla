------------------------------ MODULE MCRadio -------------------------------
(* Small instances, for TLC, of the parts of the driver that set up the    *)
(* radio and its filters: a behaviour is one of one of them.               *)
EXTENDS LbsCountry, LbsRadio, LbsKeys, LbsWake, LbsNetdev
CONSTANTS RadioParts, m1, m2, g1, g2

VARIABLE part

everything == <<part, regionVars, countryVars, radioVars, keysVars, wakeVars,
                netdevVars>>

(* Requests by number, in and out of the region, by frequency, on and off  *)
(* the channels, and neither.                                              *)
Requests ==
    {[m |-> m, e |-> 0] : m \in {-1, 0, 1, 11, 14, 15, 257, 1001, 65537}} \cup
    {[m |-> f * 100000, e |-> 1] : f \in {2407, 2412, 2414, 2462, 2477, 2484}} \cup
    {[m |-> 1, e |-> 2]}

(* Country elements of up to two sub-bands, in any order, that overlap or  *)
(* not, with channels that are unknown or not of the region; and of three. *)
Subbands ==
    [first : {0, 1, 3, 4, 12, 14, 36}, nr : {0, 1, 3, 13}, pwr : {10, 20}]
Countries == {"", "US", "JP", "FR", "DE"}
CountryElements ==
    [country : Countries, subbands : UNION {[1 .. n -> Subbands] : n \in 0 .. 2}] \cup
    [country : {"JP"},
     subbands : [1 .. 3 -> [first : {1, 4, 5, 12}, nr : {1, 3}, pwr : {10, 20}]]]

WakeOptions == SUBSET {"WAKE_UCAST", "WAKE_MCAST", "WAKE_BCAST", "WAKE_PHY", "WAKE_MAGIC"}

(* A device is opened when connected and idle, or in neither state.         *)
TwoLinks == {[connected |-> TRUE, pending |-> FALSE],
             [connected |-> FALSE, pending |-> TRUE]}

(* Bound: what a call finds there it clears first.                         *)
FirstCall == domainreg = <<>> /\ heard_in = Nobody

Codes == {0, 16, 32, 48, 49, 50, 64, 99, 272, 354}

Init ==
    /\ part \in RadioParts
    /\ RegionInit
    /\ CountryInit /\ RadioInit /\ KeysInit /\ WakeInit
    /\ NetdevInit /\ present = Devs
    /\ part # "channel" => mesh_dev /\ channel = 6

Next ==
    /\ UNCHANGED part
    /\ \/ part = "region" /\ RegionNext
       \/ part # "region" /\ UNCHANGED regionVars
    /\ \/ part = "country" /\ FirstCall /\ CountryNext
       \/ part # "country" /\ UNCHANGED countryVars
    /\ \/ part = "channel" /\ ChannelNext
       \/ part # "channel" /\ UNCHANGED radioVars
    /\ \/ part = "keys" /\ KeysNext
       \/ part # "keys" /\ UNCHANGED keysVars
    /\ \/ part = "wake" /\ WakeNext
       \/ part # "wake" /\ UNCHANGED wakeVars
    /\ \/ part = "netdev" /\ NetdevNext
       \/ part = "monitor" /\ MonitorNext
       \/ part \notin {"netdev", "monitor"} /\ UNCHANGED netdevVars

Spec == Init /\ [][Next]_everything
-----------------------------------------------------------------------------
(* What a user is shown is in force: every channel that is listed can be   *)
(* set (lbs_get_range, lbs_set_freq), for every region the firmware may    *)
(* report, and the wake criteria are the firmware's (lbs_ethtool_get_wol). *)
ShownIsReal == RegionIsSet /\ RangeIsSettable /\ WolIsReal
=============================================================================
