------------------------------ MODULE LbsKeys -------------------------------
(***************************************************************************)
(* The keys, from the ioctls that bring them (wext.c) to the firmware: the *)
(* commands of assoc_helper_wep_keys, assoc_helper_secinfo and             *)
(* assoc_helper_wpa_keys (assoc.c, cmd.c), one by one, and what of it the  *)
(* driver remembers.  LbsAssoc has the rest of the association work and    *)
(* the ioctls that add to a pending request; here each brings its own,     *)
(* while the work may still be busy with the one before.                   *)
(*                                                                         *)
(* The firmware, external, is what the comments of cmd.c and assoc.c say   *)
(* of it: CMD_ACT_REMOVE clears all WEP keys, and of two WPA keys in one   *)
(* command it takes the first.                                             *)
(***************************************************************************)
EXTENDS Integers, FiniteSets

CONSTANTS
    Slots4,      \* the WEP key indices (4 in the code), from 1
    Wep,         \* the WEP keys
    Wpa,         \* the kinds of WPA keys
    KeyFaults    \* \subseteq {"refused", "lost"}

Empty == "empty"    \* a key of length 0

ASSUME KeysAssumption == /\ 1 \in Slots4 /\ Slots4 \subseteq 1 .. 4
                         /\ Empty \notin Wep \cup Wpa

VARIABLES
    conf,       \* priv: wep_keys, wep_tx_keyidx, secinfo, mac_control's bit
    priv_wpa,   \* priv->wpa_unicast_key, priv->wpa_mcast_key
    fw_keys,    \* the firmware's keys, filter and RSN switch
    pending,    \* pending_assoc_req
    pc, taken,  \* the worker: its next command, in_progress_assoc_req
    meant,      \* history: the WPA keys the ioctls brought last
    refused,    \* history: some command has failed
    lost,       \* history: some command was not answered
    stale       \* history: some ioctl copied settings the work was changing

histKeys == <<meant, refused, lost, stale>>
keysVars == <<conf, priv_wpa, fw_keys, pending, pc, taken, histKeys>>

NoWep == [i \in Slots4 |-> Empty]
NoWpa == [UCAST |-> Empty, MCAST |-> Empty]
Nothing == [flags |-> {}, set |-> <<>>, wpa |-> NoWpa]

KeysInit ==
    /\ conf = [keys |-> NoWep, tx |-> 1, wep |-> FALSE, wpa |-> FALSE, filter |-> FALSE]
    /\ priv_wpa = NoWpa
    /\ fw_keys = [keys |-> NoWep, tx |-> 1, filter |-> FALSE, rsn |-> FALSE, wpa |-> NoWpa]
    /\ pending = Nothing /\ pc = "idle" /\ taken = Nothing
    /\ meant = NoWpa /\ refused = FALSE /\ lost = FALSE /\ stale = FALSE
-----------------------------------------------------------------------------
(* Bound: no ioctl comes in a state of which no property says anything.    *)
Bounded == ~lost /\ ~(refused /\ stale)

(* The ioctls.  What they do not set is copied from priv.                  *)
Bring(flags, set, wpa) ==
    /\ pending = Nothing /\ Bounded
    /\ pending' = [flags |-> flags, set |-> set, wpa |-> wpa]
    /\ meant' = [k \in {"UCAST", "MCAST"} |-> IF k \in flags THEN wpa[k] ELSE meant[k]]
    /\ stale' = (stale \/ pc # "idle")
    /\ UNCHANGED <<conf, priv_wpa, fw_keys, pc, taken, refused, lost>>

(* lbs_set_encode, lbs_set_encodeext: IW_ENCODE_DISABLED.                  *)
DisableKeys ==
    Bring({"SECINFO", "KEYS", "UCAST", "MCAST"},
          [conf EXCEPT !.keys = NoWep, !.wep = FALSE, !.wpa = FALSE], NoWpa)

(* A WEP key, the transmit key as well if WEP was off or by IW_ENCODE_EXT_ *)
(* SET_TX_KEY; or only the index, of a key that is set.                    *)
GiveWep(i, key, set_tx) ==
    Bring({"SECINFO", "KEYS"} \cup (IF set_tx THEN {"TX"} ELSE {}),
          [conf EXCEPT !.keys[i] = key, !.wep = TRUE, !.tx = IF set_tx THEN i ELSE @],
          priv_wpa)

UseWep(i) ==
    /\ conf.keys[i] # Empty
    /\ Bring({"SECINFO", "TX"}, [conf EXCEPT !.tx = i, !.wep = TRUE], priv_wpa)

(* A WPA key; disable_wep.                                                 *)
GiveWpa(which, key) ==
    Bring({"SECINFO", "KEYS", which},
          [conf EXCEPT !.keys = NoWep, !.wep = FALSE, !.wpa = TRUE],
          [priv_wpa EXCEPT ![which] = key])

(* lbs_set_auth: IW_AUTH_WPA_VERSION, with a version or disabled.          *)
AuthWpa == Bring({"SECINFO"}, [conf EXCEPT !.wpa = TRUE, !.wep = FALSE], priv_wpa)
AuthOff == Bring({"SECINFO", "UCAST", "MCAST"}, [conf EXCEPT !.wpa = FALSE], NoWpa)
-----------------------------------------------------------------------------
(* lbs_association_worker: the steps, each if its flags call for it.       *)
Wanted == [wep |-> {"KEYS", "TX"}, secinfo |-> {"SECINFO"}, ucast |-> {"UCAST"},
           mcast |-> {"MCAST"}]
Order == <<"wep", "secinfo", "ucast", "mcast">>
StepFrom(n, flags) ==
    LET due == {i \in n .. 4 : Wanted[Order[i]] \cap flags # {}}
    IN  IF due = {} THEN "idle" ELSE Order[CHOOSE i \in due : \A j \in due : i <= j]

Proceed(n) ==
    /\ pc' = StepFrom(n, taken.flags)
    /\ taken' = IF pc' = "idle" THEN Nothing ELSE taken
    /\ UNCHANGED <<pending, priv_wpa, meant, stale>>

Abandon ==
    /\ pc' = "idle" /\ taken' = Nothing
    /\ UNCHANGED <<pending, priv_wpa, meant, stale>>

TakeRequest ==
    /\ pc = "idle" /\ pending # Nothing
    /\ taken' = pending /\ pending' = Nothing
    /\ pc' = StepFrom(1, pending.flags)
    /\ UNCHANGED <<conf, priv_wpa, fw_keys, histKeys>>

(* A command that fails ends the work.  What it did is not known unless    *)
(* the firmware refused it.                                                *)
Fails(effect) ==
    /\ Abandon /\ UNCHANGED conf
    /\ \/ /\ "refused" \in KeyFaults
          /\ refused' = TRUE
          /\ UNCHANGED <<fw_keys, lost>>
       \/ /\ "lost" \in KeyFaults
          /\ fw_keys' \in {fw_keys, effect}
          /\ refused' = TRUE /\ lost' = TRUE

(* lbs_cmd_802_11_set_wep: the keys there are, and the transmit index; or  *)
(* CMD_ACT_REMOVE.                                                         *)
Held(set) == {i \in Slots4 : set.keys[i] # Empty}
WepEffect ==
    IF Held(taken.set) = {} THEN [fw_keys EXCEPT !.keys = NoWep]
    ELSE [fw_keys EXCEPT !.tx = taken.set.tx,
            !.keys = [i \in Slots4 |-> IF i \in Held(taken.set) THEN taken.set.keys[i]
                                       ELSE fw_keys.keys[i]]]

SetWep ==
    /\ pc = "wep"
    /\ \/ /\ fw_keys' = WepEffect
          /\ pc' = "filter"
          /\ UNCHANGED <<conf, taken, pending, priv_wpa, histKeys>>
       \/ Fails(WepEffect)

(* "enable/disable the MAC's WEP packet filter": lbs_set_mac_control, the  *)
(* result of which nobody looks at.                                        *)
MacControl(bit) ==
    \/ /\ fw_keys' = [fw_keys EXCEPT !.filter = bit]
       /\ UNCHANGED <<refused, lost>>
    \/ /\ KeyFaults # {}
       /\ refused' = TRUE
       /\ UNCHANGED <<fw_keys, lost>>

SetFilter ==
    /\ pc = "filter"
    /\ conf' = [conf EXCEPT !.filter = taken.set.wep]
    /\ MacControl(taken.set.wep)
    /\ pc' = "keep"
    /\ UNCHANGED <<taken, pending, priv_wpa, meant, stale>>

Kept_KeysOnly == [conf EXCEPT !.keys = taken.set.keys]
Kept == [conf EXCEPT !.keys = taken.set.keys, !.tx = taken.set.tx]
KeepKeys ==
    /\ pc = "keep"
    /\ conf' = Kept
    /\ Proceed(2)
    /\ UNCHANGED <<fw_keys, refused, lost>>

(* assoc_helper_secinfo: "don't try to enable it again, since ENABLE_RSN   *)
(* resets internal state machines".                                        *)
SetSecInfo ==
    /\ pc = "secinfo"
    /\ conf' = [conf EXCEPT !.wep = taken.set.wep, !.wpa = taken.set.wpa]
    /\ MacControl(conf.filter)
    /\ pc' = "rsn get"
    /\ UNCHANGED <<taken, pending, priv_wpa, meant, stale>>

GetRsn ==
    /\ pc = "rsn get"
    /\ \/ /\ IF taken.set.wpa = fw_keys.rsn
             THEN Proceed(3)
             ELSE pc' = "rsn set" /\ UNCHANGED <<taken, pending, priv_wpa, meant, stale>>
          /\ UNCHANGED <<conf, fw_keys, refused, lost>>
       \/ Fails(fw_keys)

SetRsn ==
    LET effect == [fw_keys EXCEPT !.rsn = taken.set.wpa] IN
    /\ pc = "rsn set"
    /\ \/ fw_keys' = effect /\ Proceed(3) /\ UNCHANGED <<conf, refused, lost>>
       \/ Fails(effect)

(* assoc_helper_wpa_keys: "keys must be set independently".                *)
KeysIn(only) == {only}
MaterialEffect(only) ==
    LET first == IF "UCAST" \in KeysIn(only) THEN "UCAST" ELSE "MCAST"
    IN  [fw_keys EXCEPT !.wpa[first] = taken.wpa[first]]

KeyMaterial(step, only, n) ==
    /\ pc = step
    /\ \/ /\ fw_keys' = MaterialEffect(only)
          /\ Proceed(n)
          /\ UNCHANGED <<conf, refused, lost>>
       \/ Fails(MaterialEffect(only))

KeysNext ==
    \/ DisableKeys \/ AuthWpa \/ AuthOff
    \/ \E i \in Slots4, key \in Wep, set_tx \in BOOLEAN :
          (conf.wep \/ set_tx) /\ GiveWep(i, key, set_tx)
    \/ \E i \in Slots4 : UseWep(i)
    \/ \E which \in {"UCAST", "MCAST"}, key \in Wpa : GiveWpa(which, key)
    \/ TakeRequest \/ SetWep \/ SetFilter \/ KeepKeys \/ SetSecInfo \/ GetRsn \/ SetRsn
    \/ KeyMaterial("ucast", "UCAST", 4) \/ KeyMaterial("mcast", "MCAST", 5)

KeysSpec == KeysInit /\ [][KeysNext]_keysVars
-----------------------------------------------------------------------------
(* What the ioctls show.  lbs_get_encode: the key, of the transmit index   *)
(* unless another is given; lbs_get_encodeext, which refuses (shows        *)
(* nothing) when WEP and WPA are both on: the WPA key, if it has one.      *)
ShownWep(i) == IF conf.wep THEN conf.keys[IF i = 0 THEN conf.tx ELSE i] ELSE Empty
ShownExt(i) ==
    IF ~conf.wpa THEN ShownWep(i)
    ELSE IF conf.wep THEN Empty
    ELSE IF priv_wpa.MCAST # Empty THEN priv_wpa.MCAST
    ELSE priv_wpa.UCAST

KeysDone == pc = "idle" /\ pending = Nothing

(* What lbs_get_encode shows as the transmit key is a key, and the one the *)
(* firmware transmits with, however many commands the firmware has refused *)
(* and at whichever step; an ioctl may bring it to nothing only by coming  *)
(* while the work is busy, when what it copies is out of date.  A key that *)
(* lbs_get_encodeext shows is one the firmware has.                        *)
TransmitKeyReady ==
    KeysDone /\ ~lost /\ ~stale =>
        /\ conf.wep => /\ ShownWep(0) # Empty
                       /\ fw_keys.keys[fw_keys.tx] = ShownWep(0)
        /\ ShownExt(0) # Empty =>
              ShownExt(0) \in {fw_keys.keys[fw_keys.tx], fw_keys.wpa.MCAST,
                               fw_keys.wpa.UCAST}

(* Unless a command fails, the WPA keys that were brought last reach the   *)
(* firmware, both of them, as does the RSN switch (assoc_helper_wpa_keys,  *)
(* assoc_helper_secinfo).                                                  *)
WpaKeysReach ==
    KeysDone /\ ~refused => fw_keys.wpa = meant /\ fw_keys.rsn = conf.wpa

(* The keys reach the firmware: both of the above.                         *)
KeysReach == TransmitKeyReady /\ WpaKeysReach
=============================================================================
