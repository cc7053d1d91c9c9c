---------------------------- MODULE LbsSettings ----------------------------
(***************************************************************************)
(* The settings that wext.c passes on to the firmware at once: thresholds, *)
(* retries, transmit power, and the data rate, which every received packet *)
(* sets as well while the firmware chooses it (rx.c).  The kernel runs one *)
(* ioctl at a time; packets come at any time, and so do the answers to     *)
(* other commands, whose results one variable holds, priv->cur_cmd_retcode:*)
(* lbs_prepare_and_send_command, which the items go through, takes it for  *)
(* the result of its own.  __lbs_cmd, for the rate, has its own.           *)
(***************************************************************************)
EXTENDS Integers, TLC

CONSTANTS
    Thresholds,    \* what a caller asks for, for rts and frag
    Retries,
    Powers,
    NewRates,      \* in units of 500 kb/s; 0 is one of them
    RxIndexes,     \* the rates of received packets, as firmware indices
    SettingsFaults \* \subseteq {"error", "lost", "shared", "signal"}

Items == {"rts", "frag", "retry", "txpow"}

(* fw_data_rates, which has no rate at index 4.                            *)
RateOf == 0 :> 2 @@ 1 :> 4 @@ 2 :> 11 @@ 3 :> 22 @@ 4 :> 0 @@ 5 :> 12 @@
          6 :> 18 @@ 7 :> 24 @@ 8 :> 36 @@ 9 :> 48 @@ 10 :> 72 @@ 11 :> 96 @@
          12 :> 108 @@ 13 :> 0
DataRate(i) == IF i \in DOMAIN RateOf THEN RateOf[i] ELSE RateOf[0]
IndexOf(rate) == IF rate \in {RateOf[i] : i \in DOMAIN RateOf} \ {0}
                 THEN CHOOSE i \in DOMAIN RateOf : RateOf[i] = rate ELSE 0
RateIndices == DOMAIN RateOf \ {4, 13}

VARIABLES
    drv,         \* rtsthsd, fragthsd, txretrycount, txpowerlevel
    fw,          \* what the firmware has for each of them
    radioon,
    cur_rate,    \* priv->cur_rate, and priv->enablehwauto
    enablehwauto,
    fw_rate,     \* the firmware's [auto, mask]
    spc,         \* the ioctl: "idle", "rate" between its store and its
                 \* command, "wait" for an answer, "answered" before it has
                 \* looked at the result
    scall,       \* what it is for
    retcode,     \* cur_cmd_retcode is not 0
    left,        \* commands of callers that a signal took away
    rxp,         \* the packet being received: its index, and whether the
                 \* rate was automatic when it was looked at
    set_to,      \* (history) what the last set that succeeded asked for
    jumbled,     \* (history) retcode is not, or not only, the caller's own
    unsure,      \* (history) the items of which the last caller was told
                 \* another result, or the firmware's answer was lost
    fixed_to,    \* (history) the rate fixed last, 0 when there is none
    crossed      \* (history) a packet looked at before then wrote the rate

settingVars == <<drv, fw, radioon, set_to>>
resultVars  == <<retcode, left, jumbled, unsure>>
rateVars    == <<cur_rate, enablehwauto, fw_rate, rxp, fixed_to, crossed>>
settingsVars == <<settingVars, resultVars, rateVars, spc, scall>>

NoPacket == [index |-> -1, auto |-> FALSE]
NoCall == [op |-> "none"]
NoRate == 0

(* Try counts and retry counts: wext counts retries, the firmware tries.   *)
Told(item, v) == IF item = "retry" THEN v + 1 ELSE v
Untold(item, v) == IF item = "retry" THEN v - 1 ELSE v

SettingsInit ==
    /\ fw = [i \in Items |-> IF i \in {"rts", "frag"} THEN 2346 ELSE 5]
    /\ drv = [i \in Items |-> 0]
    /\ set_to = [i \in Items |-> Untold(i, fw[i])]
    /\ radioon = TRUE
    /\ cur_rate = 0 /\ enablehwauto = TRUE
    /\ fw_rate = [auto |-> TRUE, mask |-> RateIndices]
    /\ spc = "idle" /\ scall = NoCall
    /\ retcode = FALSE /\ left = {} /\ jumbled = FALSE /\ unsure = {}
    /\ rxp = NoPacket
    /\ fixed_to = NoRate /\ crossed = FALSE

Await(pc, call) ==
    /\ spc' = pc
    /\ scall' = call

Finish == spc' = "idle" /\ scall' = NoCall
-----------------------------------------------------------------------------
(* lbs_set_rts, lbs_set_frag, lbs_set_retry.  The driver's own value is    *)
(* stored whether or not the command succeeds; others are refused.         *)
Allowed == [rts |-> 0 .. 2347, frag |-> 256 .. 2346, retry |-> 0 .. 14]

SetItem(item, v) ==
    /\ spc = "idle" /\ v \in Allowed[item]
    /\ drv' = [drv EXCEPT ![item] = Told(item, v)]
    /\ Await("wait", [op |-> "set", item |-> item, v |-> v])
    /\ UNCHANGED <<fw, radioon, set_to, resultVars, rateVars>>

(* lbs_set_txpow turns the radio on first; the driver's level comes with   *)
(* the answer.  RADIO_CONTROL is no legacy command: lbs_radio_ioctl only   *)
(* notes what the next association will tell the firmware.                 *)
SetTxpow(v) ==
    /\ spc = "idle"
    /\ radioon' = TRUE
    /\ Await("wait", [op |-> "set", item |-> "txpow", v |-> v])
    /\ UNCHANGED <<drv, fw, set_to, resultVars, rateVars>>

RadioOff ==
    /\ spc = "idle"
    /\ radioon' = FALSE
    /\ UNCHANGED <<drv, fw, set_to, resultVars, rateVars, spc, scall>>

(* lbs_get_rts and its like clear the driver's value, for the answer, and  *)
(* show what it then is.                                                   *)
ShownAs(item) == Untold(item, drv[item])

GetItem(item) ==
    /\ spc = "idle"
    /\ drv' = IF item = "txpow" THEN drv ELSE [drv EXCEPT ![item] = 0]
    /\ Await("wait", [op |-> "get", item |-> item])
    /\ UNCHANGED <<fw, radioon, set_to, resultVars, rateVars>>

(* A command of an item is carried out, and the answer handled by the main *)
(* thread; or it is refused; or carried out and never answered, so that it *)
(* is given up.                                                            *)
Taken(c) ==
    fw' = IF c.op = "set" THEN [fw EXCEPT ![c.item] = Told(c.item, c.v)] ELSE fw

ForItem == scall.op \in {"set", "get"}
NotKnown(c) == IF c.op = "set" THEN unsure \cup {c.item} ELSE unsure

Handled(c) ==
    \/ /\ Taken(c)
       /\ drv' = IF c.op = "get" \/ c.item = "txpow"
                 THEN [drv EXCEPT ![c.item] = fw'[c.item]] ELSE drv
       /\ retcode' = FALSE /\ UNCHANGED unsure
    \/ /\ "error" \in SettingsFaults
       /\ UNCHANGED <<fw, drv, unsure>> /\ retcode' = TRUE
    \/ /\ "lost" \in SettingsFaults
       /\ Taken(c) /\ UNCHANGED drv /\ retcode' = TRUE
       /\ unsure' = NotKnown(c)

(* The commands given up before it come first.                             *)
ItemAnswered ==
    /\ spc = "wait" /\ ForItem /\ left = {}
    /\ Handled(scall)
    /\ spc' = "answered" /\ jumbled' = FALSE
    /\ UNCHANGED <<radioon, set_to, left, rateVars, scall>>

(* The wait ends with a signal too, which lbs_prepare_and_send_command does*)
(* not notice: the command stays in the queue.                             *)
ItemSignalled ==
    /\ spc = "wait" /\ ForItem /\ "signal" \in SettingsFaults
    /\ left' = left \cup {scall} /\ unsure' = NotKnown(scall)
    /\ spc' = "answered" /\ jumbled' = TRUE
    /\ UNCHANGED <<settingVars, retcode, rateVars, scall>>

LeftAnswered ==
    /\ \E c \in left : Handled(c) /\ left' = left \ {c}
    /\ UNCHANGED <<radioon, set_to, jumbled, rateVars, spc, scall>>

(* Before the caller looks, the main thread may submit another command,    *)
(* which clears the result, and have an answer to it; or another caller    *)
(* takes the result away.                                                  *)
OtherCommand ==
    /\ spc = "answered" /\ "shared" \in SettingsFaults
    /\ retcode' \in BOOLEAN /\ jumbled' = TRUE
    /\ UNCHANGED <<settingVars, left, unsure, rateVars, spc, scall>>

(* The caller takes the result, and is told an error if there is one.      *)
SetDone ==
    /\ spc = "answered" /\ scall.op = "set"
    /\ LET i == scall.item
       IN  /\ set_to' = IF retcode THEN set_to ELSE [set_to EXCEPT ![i] = scall.v]
           /\ unsure' = CASE jumbled              -> unsure \cup {i}
                          [] ~jumbled /\ retcode  -> unsure
                          [] ~jumbled /\ ~retcode -> unsure \ {i}
    /\ retcode' = FALSE /\ jumbled' = FALSE
    /\ Finish
    /\ UNCHANGED <<drv, fw, radioon, left, rateVars>>

GetDone ==
    /\ spc = "answered" /\ scall.op = "get"
    /\ retcode' = FALSE /\ jumbled' = FALSE
    /\ Finish
    /\ UNCHANGED <<settingVars, left, unsure, rateVars>>

(* No command node is free, or the card is gone.                           *)
NotSent ==
    /\ spc = "wait" /\ ForItem
    /\ "error" \in SettingsFaults
    /\ Finish
    /\ UNCHANGED <<settingVars, resultVars, rateVars>>
-----------------------------------------------------------------------------
(* lbs_rate_to_fw_bitmap: the one rate, or it and what is below it, which  *)
(* is the whole mask shifted, the hole at index 4 with it.                 *)
Lower(i) == {b - (12 - i) : b \in RateIndices} \ (-12 .. -1)
Bitmap(rate, lower_rates_ok) ==
    IF lower_rates_ok THEN Lower(IndexOf(rate)) ELSE {IndexOf(rate)}

(* lbs_set_rate: v = 0 with auto is "any rate"; with fixed it passes the   *)
(* check, since the table of rates ends in zeros.  A rate that is not      *)
(* active is refused after both were stored, one that is not a multiple of *)
(* 100 kb/s after the first.                                               *)
SetRate(v, fixed, active) ==
    /\ spc = "idle"
    /\ enablehwauto' = ~fixed
    /\ cur_rate' = v
    /\ fixed_to' = NoRate /\ crossed' = FALSE
    /\ IF active
       THEN Await("rate", [op |-> "rate", v |-> v, fixed |-> fixed])
       ELSE UNCHANGED <<spc, scall>>
    /\ UNCHANGED <<settingVars, resultVars, fw_rate, rxp>>

SetNoRate(fixed) ==
    /\ spc = "idle"
    /\ enablehwauto' = ~fixed
    /\ fixed_to' = NoRate /\ crossed' = FALSE
    /\ UNCHANGED <<settingVars, resultVars, cur_rate, fw_rate, rxp, spc, scall>>

(* lbs_cmd_802_11_rate_adapt_rateset reads both again; the older command   *)
(* is for when it is refused.                                              *)
Adapt ==
    /\ spc = "rate" /\ (cur_rate # 0 \/ enablehwauto)
    /\ Await("wait", [op |-> "adapt", v |-> scall.v, fixed |-> scall.fixed,
                    told |-> [auto |-> enablehwauto,
                              mask |-> Bitmap(cur_rate, enablehwauto)]])
    /\ UNCHANGED <<settingVars, resultVars, rateVars>>

Fixed(call) == IF call.fixed /\ call.v # 0 THEN call.v ELSE NoRate

AdaptDone ==
    /\ spc = "wait" /\ scall.op = "adapt"
    /\ fw_rate' = scall.told
    /\ fixed_to' = Fixed(scall)
    /\ Finish
    /\ UNCHANGED <<settingVars, resultVars, cur_rate, enablehwauto, rxp, crossed>>

(* lbs_set_data_rate takes index 0, which is 1 Mb/s, for no rate at all.   *)
Older ==
    /\ \/ spc = "rate" /\ cur_rate = 0 /\ ~enablehwauto
       \/ spc = "wait" /\ scall.op = "adapt" /\ "error" \in SettingsFaults
    /\ IF scall.v > 0 /\ IndexOf(scall.v) = 0 THEN Finish
       ELSE Await("wait", [op |-> "older", v |-> scall.v, fixed |-> scall.fixed])
    /\ UNCHANGED <<settingVars, resultVars, rateVars>>

OlderDone ==
    /\ spc = "wait" /\ scall.op = "older"
    /\ \/ /\ scall.v > 0
          /\ fw_rate' = [auto |-> FALSE, mask |-> {IndexOf(scall.v)}]
          /\ cur_rate' = scall.v
       \/ /\ scall.v = 0
          /\ fw_rate' = [auto |-> TRUE, mask |-> RateIndices]
          /\ \E i \in RxIndexes : cur_rate' = DataRate(i)
    /\ fixed_to' = Fixed(scall)
    /\ Finish
    /\ UNCHANGED <<settingVars, resultVars, enablehwauto, rxp, crossed>>

OlderFails ==
    /\ spc = "wait" /\ scall.op = "older" /\ "error" \in SettingsFaults
    /\ Finish
    /\ UNCHANGED <<settingVars, resultVars, rateVars>>

(* lbs_process_rxed_packet, process_rxed_802_11_packet: the rate is taken  *)
(* from the packet if it was automatic a moment ago.                       *)
RxBegins_Whatever(index) == rxp' = [index |-> index, auto |-> enablehwauto]
RxBegins(index) ==
    /\ enablehwauto
    /\ rxp' = [index |-> index, auto |-> enablehwauto]

RxLooks(index) ==
    /\ rxp = NoPacket
    /\ RxBegins(index)
    /\ UNCHANGED <<settingVars, resultVars, cur_rate, enablehwauto, fw_rate, fixed_to,
                   crossed, spc, scall>>

RxStores ==
    /\ rxp # NoPacket
    /\ cur_rate' = DataRate(rxp.index)
    /\ crossed' = (crossed \/ (rxp.auto /\ ~enablehwauto))
    /\ rxp' = NoPacket
    /\ UNCHANGED <<settingVars, resultVars, enablehwauto, fw_rate, fixed_to, spc, scall>>

ItemNext ==
    \/ \E v \in Thresholds : SetItem("rts", v) \/ SetItem("frag", v)
    \/ \E v \in Retries : SetItem("retry", v)
    \/ \E v \in Powers : SetTxpow(v)
    \/ RadioOff \/ (\E item \in Items : GetItem(item))
    \/ ItemAnswered \/ ItemSignalled \/ LeftAnswered \/ OtherCommand
    \/ SetDone \/ GetDone \/ NotSent

RateNext ==
    \/ \E v \in NewRates, fixed, active \in BOOLEAN :
          (v = 0 => active) /\ SetRate(v, fixed, active)
    \/ \E fixed \in BOOLEAN : SetNoRate(fixed)
    \/ Adapt \/ AdaptDone \/ Older \/ OlderDone \/ OlderFails
    \/ (\E i \in RxIndexes : RxLooks(i)) \/ RxStores

SettingsNext == ItemNext \/ RateNext

SettingsSpec == SettingsInit /\ [][SettingsNext]_settingsVars
-----------------------------------------------------------------------------
(* The firmware has what the last set that succeeded asked for, retries    *)
(* counted as the caller counts them, whatever failed or was asked for in  *)
(* between (lbs_set_rts, lbs_set_frag, lbs_set_retry, lbs_set_txpow): but  *)
(* for an item of which the last caller was told another command's result, *)
(* or went away, or the answer was lost; and then only until one is set    *)
(* with a result of its own.                                               *)
BeingSet(item) == spc = "answered" /\ scall.op = "set" /\ scall.item = item

ItemsKept ==
    \A item \in Items \ unsure :
        BeingSet(item) \/ Untold(item, fw[item]) = set_to[item]

(* What a caller is shown is what the firmware has (lbs_get_rts, and its   *)
(* like), unless the result it went by was another's: then it may be shown *)
(* the cleared value.                                                      *)
ShownIsFirmwares ==
    spc = "answered" /\ scall.op = "get" /\ ~retcode /\ ~jumbled =>
        ShownAs(scall.item) = Untold(scall.item, fw[scall.item])

(* When lbs_set_rate has fixed a rate, the firmware uses it alone and the  *)
(* driver keeps it, packets of other rates or not, but for a packet that   *)
(* was being received when the rate was fixed.                             *)
FixedRateKept ==
    spc = "idle" /\ fixed_to # NoRate /\ ~crossed =>
        /\ fw_rate = [auto |-> FALSE, mask |-> {IndexOf(fixed_to)}]
        /\ cur_rate = fixed_to /\ ~enablehwauto

(* The settings that were accepted are those in force (wext.c), where a    *)
(* caller knows whether they were.                                         *)
SettingsKept == ItemsKept /\ ShownIsFirmwares /\ FixedRateKept
=============================================================================
