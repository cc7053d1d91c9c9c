------------------------------ MODULE LbsAssoc ------------------------------
(***************************************************************************)
(* Configuration and association: the wireless extensions' ioctls (wext.c) *)
(* gather settings in the pending request, half a second after the last of *)
(* them the association work (assoc.c) takes the request and carries it    *)
(* out, command by command, while new ioctls start the next request.       *)
(*                                                                         *)
(* The WPA and WPA2 bits are one, the WPA keys are only flags, and WEP     *)
(* keys are numbered from 1.  Commands are answered or fail as a whole     *)
(* (Libertas); what a scan finds is left open (LbsScan).                   *)
(***************************************************************************)
EXTENDS Integers, Sequences, FiniteSets, DelayedWork

CONSTANTS
    Nets,         \* the networks, records [ssid, bssid, mode, channel, security]
    Ssids, Bssids, Channels,  \* what the ioctls may name
    KeyIdx,       \* the WEP key indices (4 in the code), from 1
    WepKeys,      \* the WEP keys
    MaxCalls,     \* bound: ioctls
    AssocFaults   \* \subseteq {"memory", "command"}

AnySsid == ""
NoBssid == "off"      \* bssid_off or bssid_any
NoKey   == "no key"
TooLong == "too long" \* a key, a name or an IE longer than its buffer
Modes   == {"auto", "infra", "adhoc"}
Flags   == {"SSID", "CHANNEL", "MODE", "BSSID", "KEYS", "TX", "SECINFO", "IE",
            "UCAST", "MCAST"}
Valued  == Flags \ {"UCAST", "MCAST"}

ASSUME AssocAssumption ==
    /\ \A n \in Nets : n.mode \in {"infra", "adhoc"}
    /\ Cardinality(KeyIdx) \in Nat \ {0} /\ KeyIdx = 1..Cardinality(KeyIdx)
    /\ {NoKey, TooLong} \cap WepKeys = {}
    /\ MaxCalls \in Nat

VARIABLES
    cur,          \* the settings in priv (curbssparams, mode, secinfo, keys)
    connected,    \* connect_status
    rsn,          \* the firmware's RSN switch
    request,      \* pending_assoc_req: its flags and settings
    assoc_work,   \* a DelayedWork
    stage, job,   \* where the work is, and in_progress_assoc_req
    calls,        \* bound: ioctls so far
    wanted,       \* history: the settings as the ioctls asked for them
    spoilt        \* history: an ioctl came while the work was under way, or
                  \* the work failed

histVars  == <<calls, wanted, spoilt>>
workVars  == <<assoc_work, stage, job>>
assocVars == <<cur, connected, rsn, request, workVars, histVars>>

NoRequest == [flags |-> {}, set |-> <<>>]
Idle      == stage = "idle"

NoSecurity == [wep |-> FALSE, wpa |-> FALSE, auth |-> "open"]
NoKeys     == [i \in KeyIdx |-> NoKey]

(* Not configured, or using a WEP key already; associated or not.          *)
AssocInit ==
    /\ connected \in BOOLEAN
    /\ \E k \in {NoKey} \cup WepKeys, n \in Nets :
          /\ connected => n.mode = "infra"
          /\ cur = [SSID |-> IF connected THEN n.ssid ELSE AnySsid,
                    BSSID |-> IF connected THEN n.bssid ELSE NoBssid,
                    CHANNEL |-> n.channel, MODE |-> "infra",
                    KEYS |-> [NoKeys EXCEPT ![1] = k], TX |-> 1,
                    SECINFO |-> [NoSecurity EXCEPT !.wep = (k # NoKey)], IE |-> "none"]
    /\ rsn = FALSE
    /\ request = NoRequest
    /\ assoc_work = "none" /\ stage = "idle" /\ job = NoRequest
    /\ calls = 0 /\ wanted = cur /\ spoilt = FALSE
-----------------------------------------------------------------------------
(* The ioctls, all under priv->lock.  Each takes the pending request, or a *)
(* new one, fills the attributes no ioctl has set from the current         *)
(* configuration, and either sets some and postpones the work or, if it is *)
(* refused, cancels the work and the whole request.                        *)
Copied_All == cur
Copied == [a \in Valued |-> IF a \in request.flags THEN request.set[a] ELSE cur[a]]

Postponed_WhenIdle(w) == IF Idle THEN Queued(Cancelled(w)) ELSE w
Postponed(w) == Queued(Cancelled(w))

Given(set, flags) == [ok |-> TRUE, set |-> set, flags |-> flags]
Refused(set)      == [ok |-> FALSE, set |-> set, flags |-> {}]

Cancel ==
    /\ request' = NoRequest
    /\ assoc_work' = Cancelled(assoc_work)
    /\ wanted' = cur

(* lbs_get_association_request, the ioctl's own part, and its end.         *)
Ask(Setting(_)) ==
    /\ calls < MaxCalls
    /\ calls' = calls + 1
    /\ spoilt' = (spoilt \/ ~Idle)
    /\ \/ LET new == Setting(Copied)
          IN  /\ new.ok
              /\ request' = [flags |-> request.flags \cup new.flags, set |-> new.set]
              /\ assoc_work' = Postponed(assoc_work)
              /\ wanted' = Setting(wanted).set
       \/ ~Setting(Copied).ok /\ Cancel
       \/ "memory" \in AssocFaults /\ request = NoRequest /\ Cancel
    /\ UNCHANGED <<cur, connected, rsn, stage, job>>

SetFreq == \E c \in Channels \cup {0} :
    LET Setting(set) == IF c = 0 THEN Refused(set)
                        ELSE Given([set EXCEPT !.CHANNEL = c], {"CHANNEL"})
    IN  Ask(Setting)

SetMode == \E m \in Modes :
    LET Setting(set) == Given([set EXCEPT !.MODE = m], {"MODE"})
    IN  Ask(Setting)

SetEssid == \E x \in Ssids \cup {AnySsid, TooLong} :
    LET Setting(set) == IF x = TooLong THEN Refused(set)
                        ELSE Given([set EXCEPT !.SSID = x], {"SSID"})
    IN  Ask(Setting)

SetWap == \E b \in Bssids \cup {NoBssid} :
    LET Setting(set) == Given([set EXCEPT !.BSSID = b], {"BSSID"})
    IN  Ask(Setting)

SetGenie == \E ie \in {"none", "ie", TooLong} :
    LET Setting(set) == IF ie = TooLong THEN Refused(set)
                        ELSE Given([set EXCEPT !.IE = ie], {"IE"})
    IN  Ask(Setting)

DisableWep(set) ==
    [set EXCEPT !.KEYS = NoKeys, !.SECINFO.wep = FALSE, !.SECINFO.auth = "open"]
DisableWpa(set) == [set EXCEPT !.SECINFO.wpa = FALSE]

Disable(set) ==
    Given(DisableWpa(DisableWep(set)), {"SECINFO", "KEYS", "UCAST", "MCAST"})

(* lbs_set_wep_key: a key that is made the transmit key must be set.       *)
SetWepKey_Unchecked(set, key, i, set_tx, flags) ==
    LET keys == IF key = NoKey THEN set.KEYS ELSE [set.KEYS EXCEPT ![i] = key]
    IN  IF key = TooLong THEN Refused(set)
        ELSE Given([set EXCEPT !.KEYS = keys, !.SECINFO.wep = TRUE,
                               !.TX = IF set_tx THEN i ELSE @],
                   flags \cup {"SECINFO"} \cup (IF set_tx THEN {"TX"} ELSE {}))
SetWepKey(set, key, i, set_tx, flags) ==
    LET keys == IF key = NoKey THEN set.KEYS ELSE [set.KEYS EXCEPT ![i] = key]
    IN  IF key = TooLong \/ (set_tx /\ keys[i] = NoKey) THEN Refused(set)
        ELSE Given([set EXCEPT !.KEYS = keys, !.SECINFO.wep = TRUE,
                               !.TX = IF set_tx THEN i ELSE @],
                   flags \cup {"SECINFO"} \cup (IF set_tx THEN {"TX"} ELSE {}))

(* IW_ENCODE_RESTRICTED, IW_ENCODE_OPEN or neither.                        *)
WithAuth(new, auth) ==
    IF new.ok /\ auth # "same" THEN [new EXCEPT !.set.SECINFO.auth = auth] ELSE new

(* Index 0 stands for the transmit key; one beyond the last is refused.    *)
Index(set, i) == IF i = 0 THEN set.TX ELSE i
Indices == {0, Cardinality(KeyIdx) + 1} \cup KeyIdx

SetEncode ==
    \/ Ask(Disable)
    \/ \E key \in WepKeys \cup {NoKey, TooLong}, i \in Indices,
          auth \in {"same", "open", "shared"} :
          LET Setting(set) ==
                  IF i > Cardinality(KeyIdx) THEN Refused(set)
                  ELSE WithAuth(SetWepKey(set, key, Index(set, i),
                                    ~set.SECINFO.wep \/ (key = NoKey /\ i # 0),
                                    IF key = NoKey THEN {} ELSE {"KEYS"}), auth)
          IN  Ask(Setting)

(* lbs_set_encodeext; dwrq->length is the length of the structure, so that *)
(* it is never 0.                                                          *)
WepExt(key, i, tx, auth) ==
    LET Setting(set) ==
            IF i > Cardinality(KeyIdx) THEN Refused(set)
            ELSE WithAuth(SetWepKey(set, key, Index(set, i), ~set.SECINFO.wep \/ tx,
                                    {"KEYS"}), auth)
    IN  Ask(Setting)

WpaExt(length_ok, group) ==
    LET Setting(set) ==
            IF ~length_ok THEN Refused(set)
            ELSE Given(DisableWep([set EXCEPT !.SECINFO.wpa = TRUE]),
                       {"SECINFO", "KEYS", IF group THEN "MCAST" ELSE "UCAST"})
    IN  Ask(Setting)

SetEncodeExt ==
    \/ Ask(Disable)
    \/ \E key \in WepKeys \cup {NoKey, TooLong}, i \in Indices, tx \in BOOLEAN,
          auth \in {"same", "open", "shared"} : WepExt(key, i, tx, auth)
    \/ \E length_ok, group \in BOOLEAN : WpaExt(length_ok, group)

(* lbs_set_auth.                                                           *)
UseWpa(set) == [set EXCEPT !.SECINFO = [wep |-> FALSE, wpa |-> TRUE, auth |-> "open"]]
AuthSetting(what, set) ==
    CASE what = "ignored" -> Given(set, {})
      [] what = "wpa off" -> Given(DisableWpa(set), {"SECINFO", "UCAST", "MCAST"})
      [] what = "wpa version" -> Given(UseWpa(set), {"SECINFO"})
      [] what = "wpa on" ->
            Given(IF set.SECINFO.wpa THEN set ELSE UseWpa(set), {"SECINFO"})
      [] what \in {"open", "shared", "leap"} ->
            Given([set EXCEPT !.SECINFO.auth = what], {"SECINFO"})
      [] what = "bad algorithm" -> Refused(set)

SetAuth ==
    \E what \in {"ignored", "wpa off", "wpa version", "wpa on", "open", "shared",
                 "leap", "bad algorithm"} :
        LET Setting(set) == AuthSetting(what, set)
        IN  Ask(Setting)

(* -EOPNOTSUPP leaves the request, which may be a new one, and the work.   *)
SetAuthUnknown ==
    /\ calls < MaxCalls
    /\ calls' = calls + 1
    /\ request' = [request EXCEPT !.set = Copied]
    /\ UNCHANGED <<cur, connected, rsn, workVars, wanted, spoilt>>

Ioctl == \/ SetFreq \/ SetMode \/ SetEssid \/ SetWap \/ SetGenie \/ SetEncode
         \/ SetEncodeExt \/ SetAuth \/ SetAuthUnknown
-----------------------------------------------------------------------------
(* lbs_association_worker.                                                 *)
AssocTimer ==
    /\ assoc_work = "timer"
    /\ assoc_work' = "queued"
    /\ UNCHANGED <<cur, connected, rsn, request, stage, job, histVars>>

Take ==
    /\ Idle
    /\ assoc_work = "queued"
    /\ assoc_work' = "none"
    /\ request' = NoRequest
    /\ job' = request
    /\ stage' = IF request = NoRequest THEN "idle" ELSE "choose"
    /\ UNCHANGED <<cur, connected, rsn, histVars>>

(* The steps in their order, and the flags any of which calls for one.     *)
Steps == <<"mode", "channel", "wep", "secinfo", "genie", "wpa", "associate">>
CalledFor == [mode |-> {"MODE"}, channel |-> {"CHANNEL"}, wep |-> {"KEYS", "TX"},
              secinfo |-> {"SECINFO"}, genie |-> {"IE"},
              wpa |-> {"UCAST", "MCAST"}, associate |-> {"SSID", "BSSID"}]

StepAfter(done, flags) ==
    LET due == {i \in 1..Len(Steps) : i > done /\ CalledFor[Steps[i]] \cap flags # {}}
    IN  IF due = {} THEN "idle"
        ELSE Steps[CHOOSE i \in due : \A j \in due : i <= j]

(* On to the next step that is called for; the request is freed at the end.*)
GoOn(done, work) ==
    /\ stage' = StepAfter(done, work.flags)
    /\ job' = IF stage' = "idle" THEN NoRequest ELSE work
    /\ UNCHANGED <<request, assoc_work, calls, wanted>>

GiveUp ==
    /\ stage' = "idle" /\ job' = NoRequest
    /\ spoilt' = TRUE
    /\ UNCHANGED <<request, assoc_work, calls, wanted>>

CommandFails == "command" \in AssocFaults

NamesBssid == "BSSID" \in job.flags /\ job.set.BSSID # NoBssid
Compatible(sec, net, mode) ==
    /\ net.mode = mode
    /\ net.security = "none" => ~sec.wep /\ ~sec.wpa
    /\ net.security = "wep"  => ~sec.wpa
    /\ net.security = "wpa"  => ~sec.wep /\ sec.wpa
Suits(net, mode) == mode \in {"infra", "adhoc"} => Compatible(cur.SECINFO, net, mode)

(* A request for any name is one for the best network's.                   *)
Choose ==
    /\ stage = "choose"
    /\ \/ /\ "SSID" \notin job.flags \/ job.set.SSID # AnySsid \/ NamesBssid
          /\ UNCHANGED <<job, spoilt, request, assoc_work, calls, wanted>>
          /\ stage' = "leave"
       \/ /\ "SSID" \in job.flags /\ job.set.SSID = AnySsid /\ ~NamesBssid
          /\ \/ GiveUp
             \/ \E n \in Nets :
                   /\ Suits(n, job.set.MODE)
                   /\ job' = IF job.set.MODE = "auto"
                             THEN [flags |-> job.flags \cup {"MODE"},
                                   set |-> [job.set EXCEPT !.SSID = n.ssid,
                                                           !.MODE = n.mode]]
                             ELSE [job EXCEPT !.set.SSID = n.ssid]
                   /\ stage' = "leave"
                   /\ UNCHANGED <<spoilt, request, assoc_work, calls, wanted>>
    /\ UNCHANGED <<cur, connected, rsn>>

ShouldDeauthInfrastructure_KeepsName ==
    /\ connected
    /\ \/ job.flags \cap {"BSSID", "CHANNEL"} # {}
       \/ "SECINFO" \in job.flags /\ cur.SECINFO.auth # job.set.SECINFO.auth
       \/ "MODE" \in job.flags /\ job.set.MODE # "infra"
ShouldDeauthInfrastructure ==
    /\ connected
    /\ \/ job.flags \cap {"SSID", "BSSID", "CHANNEL"} # {}
       \/ "SECINFO" \in job.flags /\ cur.SECINFO.auth # job.set.SECINFO.auth
       \/ "MODE" \in job.flags /\ job.set.MODE # "infra"

ShouldStopAdhoc ==
    /\ connected
    /\ \/ cur.SSID # job.set.SSID
       \/ "MODE" \in job.flags /\ job.set.MODE # "adhoc"
       \/ "CHANNEL" \in job.flags /\ job.set.CHANNEL # cur.CHANNEL

(* lbs_mac_event_disconnected.                                             *)
Disconnected ==
    /\ connected' = FALSE
    /\ cur' = IF connected THEN [cur EXCEPT !.SSID = AnySsid, !.BSSID = NoBssid]
              ELSE cur

(* A failed deauthentication is logged, and the work goes on.              *)
Leave ==
    /\ stage = "leave"
    /\ \/ /\ \/ cur.MODE = "infra" /\ ShouldDeauthInfrastructure
             \/ cur.MODE = "adhoc" /\ ShouldStopAdhoc
          /\ \/ Disconnected
             \/ CommandFails /\ UNCHANGED <<cur, connected>>
          /\ spoilt' = (spoilt \/ connected')
       \/ /\ ~(cur.MODE = "infra" /\ ShouldDeauthInfrastructure)
          /\ ~(cur.MODE = "adhoc" /\ ShouldStopAdhoc)
          /\ UNCHANGED <<cur, connected, spoilt>>
    /\ GoOn(0, job)
    /\ UNCHANGED rsn

(* assoc_helper_mode sets priv->mode, then the firmware's.                 *)
Mode ==
    /\ stage = "mode"
    /\ cur' = [cur EXCEPT !.MODE = job.set.MODE]
    /\ \/ GoOn(1, job) /\ UNCHANGED spoilt
       \/ CommandFails /\ cur.MODE # job.set.MODE /\ GiveUp
    /\ UNCHANGED <<connected, rsn>>

(* assoc_helper_channel, which also stops and restarts the mesh. The new   *)
(* channel is read back: it may be the old one, or unreadable.             *)
SomeKey(set) == \E i \in KeyIdx : set.KEYS[i] # NoKey
ChannelChanged ==
    [job EXCEPT !.flags = @ \cup {"SSID"}
         \cup (IF job.set.SECINFO.wep /\ SomeKey(job.set) THEN {"KEYS"} ELSE {})]
Channel ==
    /\ stage = "channel"
    /\ \/ /\ job.set.CHANNEL # cur.CHANNEL
          /\ cur' = [cur EXCEPT !.CHANNEL = job.set.CHANNEL]
          /\ GoOn(2, ChannelChanged)
          /\ UNCHANGED spoilt
       \/ /\ CommandFails \/ job.set.CHANNEL = cur.CHANNEL
          /\ GoOn(2, job)
          /\ UNCHANGED <<cur, spoilt>>
       \/ /\ CommandFails /\ GiveUp
          /\ cur' \in {cur, [cur EXCEPT !.CHANNEL = job.set.CHANNEL]}
    /\ UNCHANGED <<connected, rsn>>

(* assoc_helper_wep_keys: without keys, CMD_ACT_REMOVE.                    *)
WepKeysSent ==
    /\ stage = "wep"
    /\ \/ /\ cur' = [cur EXCEPT !.KEYS = job.set.KEYS, !.TX = job.set.TX]
          /\ GoOn(3, job)
          /\ UNCHANGED spoilt
       \/ CommandFails /\ GiveUp /\ UNCHANGED cur
    /\ UNCHANGED <<connected, rsn>>

(* assoc_helper_secinfo: "don't try to enable it again".                   *)
SecInfo ==
    /\ stage = "secinfo"
    /\ cur' = [cur EXCEPT !.SECINFO = job.set.SECINFO]
    /\ \/ rsn' = job.set.SECINFO.wpa /\ GoOn(4, job) /\ UNCHANGED spoilt
       \/ CommandFails /\ GiveUp /\ UNCHANGED rsn
    /\ UNCHANGED connected

Genie ==
    /\ stage = "genie"
    /\ cur' = [cur EXCEPT !.IE = IF job.set.SECINFO.wpa THEN job.set.IE ELSE "none"]
    /\ GoOn(5, job)
    /\ UNCHANGED <<connected, rsn, spoilt>>

WpaKeysSent ==
    /\ stage = "wpa"
    /\ \/ GoOn(6, job) /\ UNCHANGED spoilt
       \/ CommandFails /\ GiveUp
    /\ UNCHANGED <<cur, connected, rsn>>

(* assoc_helper_associate.  What the scan found is among the networks that *)
(* match; the result is looked at only to report it.                       *)
Matching ==
    {n \in Nets :
        /\ Suits(n, job.set.MODE)
        /\ IF NamesBssid THEN n.bssid = job.set.BSSID
           ELSE /\ n.ssid = job.set.SSID
                /\ "CHANNEL" \in job.flags => n.channel = job.set.CHANNEL}

(* The commands set priv's channel and mode; their answers say associated  *)
(* or not, or there is none.                                               *)
Commanded(mode, channel) == [cur EXCEPT !.MODE = mode, !.CHANNEL = channel]

Accepted(ssid, bssid, mode, channel) ==
    /\ connected' = TRUE
    /\ cur' = [Commanded(mode, channel) EXCEPT !.SSID = ssid, !.BSSID = bssid]

Sent(ssid, bssid, mode, channel) ==
    \/ Accepted(ssid, bssid, mode, channel)
    \/ /\ connected' = FALSE
       /\ cur' = [Commanded(mode, channel) EXCEPT
                     !.SSID = IF connected THEN AnySsid ELSE @,
                     !.BSSID = IF connected THEN NoBssid ELSE @]
    \/ /\ CommandFails
       /\ cur' = Commanded(mode, channel)
       /\ UNCHANGED connected

(* lbs_associate; AUTHENTICATE may fail.                                   *)
Associate(n) ==
    \/ Sent(n.ssid, n.bssid, cur.MODE, n.channel)
    \/ CommandFails /\ UNCHANGED <<cur, connected>>

(* lbs_join_adhoc_network; joining the same name again is nothing.         *)
AdHocJoin(n) == Sent(n.ssid, n.bssid, cur.MODE, n.channel)
Join(n) ==
    IF connected /\ cur.MODE = "adhoc" /\ cur.SSID = n.ssid
    THEN UNCHANGED <<cur, connected>>
    ELSE AdHocJoin(n)

StartAdhoc == Sent(job.set.SSID, "own", "adhoc", cur.CHANNEL)

ByName == ~NamesBssid /\ "SSID" \in job.flags
AssociateStep ==
    /\ stage = "associate"
    /\ \/ /\ NamesBssid \/ ByName
          /\ \E n \in Matching : \/ job.set.MODE = "infra" /\ Associate(n)
                                 \/ job.set.MODE = "adhoc" /\ Join(n)
       \/ ByName /\ job.set.MODE = "adhoc" /\ StartAdhoc
       \/ /\ ~(ByName /\ job.set.MODE = "adhoc")
          /\ UNCHANGED <<cur, connected>>
    /\ GoOn(7, job)
    /\ UNCHANGED <<rsn, spoilt>>

(* lbs_mesh_set_freq: "mesh channel change forces eth disconnect".         *)
MeshSetFreq ==
    /\ calls < MaxCalls
    /\ calls' = calls + 1
    /\ \E c \in Channels \ {cur.CHANNEL} :
          \/ /\ cur.MODE # "auto"
             /\ connected' = FALSE
             /\ cur' = [cur EXCEPT !.SSID = IF connected THEN AnySsid ELSE @,
                                   !.BSSID = IF connected THEN NoBssid ELSE @,
                                   !.CHANNEL = c]
          \/ /\ cur.MODE = "auto" \/ CommandFails
             /\ cur' = [cur EXCEPT !.CHANNEL = c]
             /\ UNCHANGED connected
    /\ UNCHANGED <<rsn, request, workVars, wanted, spoilt>>

LinkLost ==
    /\ connected
    /\ Disconnected
    /\ UNCHANGED <<rsn, request, workVars, histVars>>

AssocStep == \/ Choose \/ Leave \/ Mode \/ Channel \/ WepKeysSent \/ SecInfo
             \/ Genie \/ WpaKeysSent \/ AssociateStep

AssocNext == Ioctl \/ MeshSetFreq \/ AssocTimer \/ Take \/ AssocStep \/ LinkLost

(* The timer expires, the work runs, commands are answered.                *)
AssocFairness ==
    WF_assocVars(AssocTimer) /\ WF_assocVars(Take) /\ WF_assocVars(AssocStep)

AssocSpec == AssocInit /\ [][AssocNext]_assocVars /\ AssocFairness
-----------------------------------------------------------------------------
AtRest == Idle /\ request.flags = {}

(* Settings made one after another, as fast as they may come, add up: "Copy*)
(* current configuration attributes to the association request, but don't  *)
(* overwrite any that are already set" (lbs_get_association_request).      *)
LastSettingWins ==
    AtRest /\ ~spoilt =>
        /\ cur.KEYS = wanted.KEYS /\ cur.TX = wanted.TX
        /\ cur.SECINFO = wanted.SECINFO /\ rsn = wanted.SECINFO.wpa
        /\ cur.MODE = wanted.MODE \/ wanted.MODE = "auto"

(* With WEP on, there is a key to transmit with: "Ensure the chosen key is *)
(* valid" (lbs_set_wep_key).                                               *)
WepKeyed == AtRest /\ cur.SECINFO.wep => cur.KEYS[cur.TX] # NoKey
WepKeyedUnlessSpoilt == ~spoilt => WepKeyed

(* An ASSOCIATE is sent only after the old association was given up        *)
(* (should_deauth_infrastructure), whatever mode that was in.              *)
AssociatesDisconnected ==
    stage = "associate" /\ job.set.MODE = "infra" /\ ~spoilt => ~connected

(* What was asked for is taken up, however often it was postponed.         *)
RequestTaken == request.flags # {} ~> request.flags = {}
=============================================================================
