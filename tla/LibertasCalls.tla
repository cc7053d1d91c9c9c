--------------------------- MODULE LibertasCalls ----------------------------
(***************************************************************************)
(* What callers are told, for every value of the constants: an answer that *)
(* is acted on answers the command in flight (AnswersMatch), __lbs_cmd     *)
(* returns the result of its own command (OwnResultReturned), a command is *)
(* given up after four submissions (GivenUpLate), and calls of __lbs_cmd   *)
(* are served as CmdService promises (ServiceImplemented).                 *)
(***************************************************************************)
EXTENDS LibertasOwners, LibertasService

(* Numbers.  The sequence number of a command and the request it is for:   *)
(* in the nodes, on the bus, in the firmware and in the response buffers,  *)
(* and the 0 of an empty buffer.                                           *)
Number(x) == <<x.seq, x.rid>>

CmdPackets == {p \in ToSet(packets) : p.kind = "cmd"}

Used == {<<0, NoRid>>} \cup {Number(node[n]) : n \in Nodes}
        \cup {Number(p.msg) : p \in CmdPackets}
        \cup {Number(m) : m \in ToSet(fw_cmds)}
        \cup {Number(resp[i]) : i \in {0, 1}}

(* A number belongs to one request, and all of them have been given out.   *)
Numbers ==
    \A x \in Used : /\ x[1] \in 0..seqnum
                    /\ \A y \in Used : x[1] = y[1] => x[2] = y[2]

(* seqnum, a u16, does not come round to numbers that are still in use.    *)
NoWrap == seqnum + 1 < SeqSize

(* The number put in the buffer is the one this call counted up to: the    *)
(* unprotected seqnum has not been counted up by another call in between.  *)
OwnNumber == \A c \in Callers : Queue(c) => node'[held[c]].seq = node[held[c]].seq

(* Retries.  nr_retries counts the submissions of the command in flight    *)
(* or, when none is, of the first that is pending; no other has been       *)
(* submitted.                                                              *)
ServingLabel == {"resp_wakeup", "callback", "finish"}

Retries ==
    /\ \A c \in Callers : pc[c] = "filled" => node[held[c]].sent = 0
    /\ \A n \in Pending : node[n].sent = 0 \/ (cur_cmd = NoNode /\ n = Head(cmdpendingq))
    /\ main \in ServingLabel => nr_retries = 0
    /\ cur_cmd # NoNode /\ main \notin ServingLabel => node[cur_cmd].sent = nr_retries + 1
    /\ cur_cmd = NoNode /\ cmdpendingq # <<>> => node[Head(cmdpendingq)].sent = nr_retries
    /\ cur_cmd = NoNode /\ cmdpendingq = <<>> => nr_retries = 0

(* Results.  The node a caller holds carries its current call's request,   *)
(* no other node does, and a waiter that is woken has been told.           *)
Rids ==
    /\ \A c \in Callers : Holds(c) => node[held[c]].rid = <<c, calls[c]>>
    /\ \A n \in Nodes, c \in Callers :
          node[n].rid[1] = c => /\ node[n].rid[2] <= calls[c]
                                /\ Holds(c) /\ node[n].rid[2] = calls[c] => n = held[c]
Told ==
    \A c \in Callers : WaitsSync(c) /\ node[held[c]].woken
                       => outcome[c] = node[held[c]].result /\ outcome[c] # "pending"
-----------------------------------------------------------------------------
(* What the lists of messages are made of.                                 *)
LEMMA MessageSets ==
    ASSUME NEW S, NEW s \in Seq(S), NEW e \in S
    PROVE  /\ ToSet(Append(s, e)) = ToSet(s) \cup {e}
           /\ s # <<>> => Head(s) \in ToSet(s) /\ ToSet(Tail(s)) \subseteq ToSet(s)
<1>1. ToSet(Append(s, e)) = ToSet(s) \cup {e}
  BY AppendSet
<1>2. ASSUME s # <<>> PROVE Head(s) \in ToSet(s) /\ ToSet(Tail(s)) \subseteq ToSet(s)
  <2>1. /\ Len(s) \in Nat /\ Len(s) >= 1 /\ DOMAIN s = 1..Len(s)
        /\ DOMAIN Tail(s) = 1..(Len(s) - 1)
        /\ \A i \in 1..(Len(s) - 1) : Tail(s)[i] = s[i + 1]
        /\ Head(s) = s[1]
    BY <1>2, EmptySeq, LenProperties, HeadTailProperties
  <2> DEFINE t == Tail(s)
  <2> HIDE DEF t
  <2>2. ToSet(t) \subseteq ToSet(s)
    BY <2>1 DEF ToSet, t
  <2> QED
    BY <2>1, <2>2 DEF ToSet, t
<1> QED
  BY <1>1, <1>2

LEMMA TailsShorter ==
    ASSUME TypeInv
    PROVE  /\ packets # <<>> => /\ Head(packets) \in ToSet(packets)
                                /\ ToSet(Tail(packets)) \subseteq ToSet(packets)
           /\ fw_cmds # <<>> => /\ Head(fw_cmds) \in ToSet(fw_cmds)
                                /\ ToSet(Tail(fw_cmds)) \subseteq ToSet(fw_cmds)
<1>1. packets \in Seq(Packet) /\ [kind |-> "data"] \in Packet
  BY PacketTypes DEF TypeInv, TypeOK
<1>2. fw_cmds \in Seq(CmdMsg) /\ [cmd |-> "none", seq |-> 0, rid |-> NoRid] \in CmdMsg
  BY RidTypes DEF TypeInv, TypeOK, CardTypes, CmdMsg
<1> QED
  BY <1>1, <1>2, MessageSets

(* A main thread that may queue a command of its own does so or not.       *)
Prepares == MainRespWakeup \/ MainCallback \/ DeauthEvent \/ PsAwakeEvent
            \/ WakeFirmwareFirst \/ EnterPowerSave

LEMMA PreparesOrNot ==
    ASSUME Prepares
    PROVE  \/ UNCHANGED <<nodeVars, seqnum>>
           \/ PrepareNoWait("EXIT_PS") \/ PrepareNoWait("ENTER_PS")
<1>1. CASE MainRespWakeup \/ WakeFirmwareFirst \/ EnterPowerSave
  BY <1>1 DEF MainRespWakeup, WakeFirmwareFirst, EnterPowerSave
<1>2. CASE MainCallback
  BY <1>2 DEF MainCallback, Disconnected, Associated
<1>3. CASE DeauthEvent \/ PsAwakeEvent
  BY <1>3 DEF DeauthEvent, PsAwakeEvent, Disconnected
<1> QED
  BY <1>1, <1>2, <1>3 DEF Prepares

(* It takes the first free node (lbs_get_cmd_ctrl_node).                   *)
LEMMA PreparedNode ==
    ASSUME TypeInv, NEW cmd, PrepareNoWait(cmd)
    PROVE  \/ UNCHANGED <<nodeVars, seqnum>>
           \/ /\ seqnum' = NextSeq
              /\ \E n \in Nodes :
                    /\ n = Head(cmdfreeq) /\ cmdfreeq # <<>>
                    /\ cmdpendingq' = Enqueued(n, cmd)
                    /\ node' = [node EXCEPT ![n] = Filled(cmd, NextSeq, "null", DriverRid)]
<1>1. cmdfreeq # <<>> => Head(cmdfreeq) \in Nodes
  BY HeadTailProperties DEF TypeInv, TypeOK, QueueTypes
<1> QED
  BY <1>1 DEF PrepareNoWait

(* What becomes of a completed node (lbs_complete_command).                *)
LEMMA CompletedNode ==
    ASSUME TypeInv, NEW n \in Nodes, NEW result, Complete(n, result)
    PROVE  /\ \A m \in Nodes \ {n} : node'[m] = node[m]
           /\ \/ /\ node[n].cb = "sync"
                 /\ node'[n].seq = node[n].seq /\ node'[n].rid = node[n].rid
                 /\ node'[n].sent = node[n].sent /\ node'[n].result = result
              \/ /\ node[n].cb # "sync"
                 /\ node'[n].seq = 0 /\ node'[n].rid = NoRid /\ node'[n].sent = 0
<1>1. node \in [Nodes -> NodeRec]
  BY DEF TypeInv, TypeOK, QueueTypes
<1>2. /\ Done(n, result)[n] = [node[n] EXCEPT !.result = result, !.woken = TRUE]
      /\ \A m \in Nodes \ {n} : Done(n, result)[m] = node[m]
      /\ DOMAIN Done(n, result) = Nodes
  BY <1>1 DEF Done
<1>3. CASE FreedByCaller(n) /\ node' = Done(n, result)
  <2>1. node[n] \in NodeRec
    BY <1>1
  <2>2. /\ node'[n] = [node[n] EXCEPT !.result = result, !.woken = TRUE]
        /\ \A m \in Nodes \ {n} : node'[m] = node[m]
    BY <1>2, <1>3
  <2> QED
    BY <1>3, <2>1, <2>2 DEF FreedByCaller, NodeRec
<1>4. CASE ~FreedByCaller(n) /\ node' = Cleaned(Done(n, result), n)
  BY <1>2, <1>4 DEF FreedByCaller, Cleaned, FreeNode
<1> QED
  BY <1>3, <1>4 DEF Complete

(* The steps that complete a command, and the command they complete.       *)
Completes == PsOrErrorResponse \/ MainFinish \/ GiveUp \/ IgnoreEnterPs

LEMMA CompletesQueued ==
    ASSUME TypeInv, Completes
    PROVE  \/ UNCHANGED <<nodeVars, cur_cmd, outcome>>
           \/ \E n \in Queued, result \in Outcome \ {"pending"} :
                 /\ n \in Nodes /\ Complete(n, result)
                 /\ \/ n = cur_cmd /\ cmdpendingq' = cmdpendingq
                    \/ /\ IgnoreEnterPs
                       /\ cmdpendingq # <<>> /\ n = Head(cmdpendingq)
<1> DEFINE r == resp[main_idx].result
<1>1. r \in FwResult /\ FwResult \subseteq Outcome \ {"pending"}
  BY DEF TypeInv, TypeOK, ReplyTypes, MainTypes, Response, Outcome, FwResult
<1>2. {"ok", "timedout"} \subseteq Outcome \ {"pending"}
  BY DEF Outcome, FwResult
<1> HIDE DEF r
<1>3. cur_cmd \in Nodes => cur_cmd \in Queued
  BY ListsOfNodes DEF Queued
<1>4. CASE PsOrErrorResponse
  <2>1. cur_cmd \in Nodes
    BY <1>4 DEF PsOrErrorResponse, AnswerArrived, Unexpected, TypeInv, TypeOK, CurrentTypes
  <2> QED
    BY <1>1, <1>3, <1>4, <2>1 DEF PsOrErrorResponse, r
<1>5. CASE MainFinish
  BY <1>1, <1>3, <1>5 DEF MainFinish, TypeInv, Serving, r
<1>6. CASE GiveUp
  <2>1. cur_cmd \in Nodes
    BY <1>6 DEF GiveUp, TimedOut, TypeInv, TypeOK, CurrentTypes
  <2> QED
    BY <1>2, <1>3, <1>6, <2>1 DEF GiveUp
<1>7. CASE IgnoreEnterPs
  <2>1. Head(cmdpendingq) \in Nodes /\ Head(cmdpendingq) \in Queued
    <3>1. cmdpendingq \in Seq(Nodes) /\ cmdpendingq # <<>>
      BY <1>7 DEF IgnoreEnterPs, TypeInv, TypeOK, QueueTypes
    <3> QED
      BY <3>1, MessageSets, HeadTailProperties DEF Queued
  <2> QED
    BY <1>2, <1>7, <2>1 DEF IgnoreEnterPs
<1> QED
  BY <1>4, <1>5, <1>6, <1>7 DEF Completes
-----------------------------------------------------------------------------
(* Numbers: four ways for a step to keep them.                             *)
usedVars == <<node, packets, fw_cmds, resp>>

LEMMA NumbersSame ==
    ASSUME Numbers, UNCHANGED <<usedVars, seqnum>> PROVE Numbers'
  BY DEF Numbers, Used, CmdPackets, usedVars

(* Messages move, are answered or get lost; HOST_AWAKE counts a number.    *)
LEMMA NumbersMove ==
    ASSUME TypeInv, Numbers, Used' \subseteq Used,
           seqnum' = seqnum \/ (NoWrap /\ seqnum' = NextSeq)
    PROVE  Numbers'
<1>1. seqnum \in Nat /\ SeqSize \in Nat
  BY BoundsAssumption DEF TypeInv, TypeOK
<1>2. seqnum' \in Nat /\ seqnum <= seqnum'
  BY <1>1 DEF NoWrap, NextSeq
<1>3. \A x \in Used' : x[1] \in 0..seqnum'
  BY <1>1, <1>2 DEF Numbers
<1> QED
  BY <1>3 DEF Numbers

(* Nodes are freed.                                                        *)
LEMMA NumbersFreed ==
    ASSUME TypeInv, Numbers, UNCHANGED <<packets, fw_cmds, resp, seqnum>>,
           \A n \in Nodes : \/ node'[n].seq = node[n].seq /\ node'[n].rid = node[n].rid
                            \/ node'[n].seq = 0 /\ node'[n].rid = NoRid
    PROVE  Numbers'
<1>1. ASSUME NEW n \in Nodes PROVE Number(node[n])' \in Used
  BY <1>1 DEF Number, Used
<1>2. Used' \subseteq Used
  BY <1>1 DEF Used, CmdPackets
<1> QED
  BY <1>2, NumbersMove

(* A node is filled.                                                       *)
LEMMA NumbersGiven ==
    ASSUME TypeInv, Numbers, NoWrap, seqnum' = NextSeq,
           UNCHANGED <<packets, fw_cmds, resp>>, NEW r,
           \A n \in Nodes : \/ node'[n].seq = node[n].seq /\ node'[n].rid = node[n].rid
                            \/ node'[n].seq = seqnum' /\ node'[n].rid = r
    PROVE  Numbers'
<1>1. seqnum \in Nat /\ seqnum' = seqnum + 1
  BY BoundsAssumption DEF TypeInv, TypeOK, NoWrap, NextSeq
<1>2. ASSUME NEW n \in Nodes PROVE Number(node[n])' \in Used \cup {<<seqnum', r>>}
  BY <1>2 DEF Number, Used
<1>3. Used' \subseteq Used \cup {<<seqnum', r>>}
  BY <1>2 DEF Used, CmdPackets
<1>4. \A x \in Used : x[1] \in 0..seqnum /\ x[1] # seqnum'
  BY <1>1 DEF Numbers
<1>5. \A x \in Used' : x[1] \in 0..seqnum'
  BY <1>1, <1>3, <1>4
<1>6. ASSUME NEW x \in Used', NEW y \in Used', x[1] = y[1] PROVE x[2] = y[2]
  BY <1>3, <1>4, <1>6 DEF Numbers
<1> QED
  BY <1>5, <1>6 DEF Numbers

LEMMA CallerNumbers ==
    ASSUME TypeInv, Numbers, NoWrap, OwnNumber, NEW c \in Callers, CallerStep(c)
    PROVE  Numbers'
<1> USE DEF elsewhere, respVars, fwVars, nodeVars, usedVars
<1>1. node \in [Nodes -> NodeRec]
  BY DEF TypeInv, TypeOK, QueueTypes
<1>2. ASSUME NEW api, NEW cmd, GetNode(c, api, cmd), UNCHANGED <<packets, fw_cmds, resp>>
      PROVE  Numbers'
  <2>1. CASE UNCHANGED <<node, seqnum>>
    BY <1>2, <2>1, NumbersSame
  <2>2. CASE /\ seqnum' = NextSeq
             /\ node' = [node EXCEPT ![Head(cmdfreeq)] =
                           [Filled(cmd, NextSeq, Callback(api), <<c, calls[c] + 1>>)
                               EXCEPT !.woken = node[Head(cmdfreeq)].woken]]
    <3>1. ASSUME NEW n \in Nodes
          PROVE  \/ node'[n].seq = node[n].seq /\ node'[n].rid = node[n].rid
                 \/ node'[n].seq = seqnum' /\ node'[n].rid = <<c, calls[c] + 1>>
      BY <1>1, <2>2 DEF Filled
    <3> QED
      BY <1>2, <2>2, <3>1, NumbersGiven
  <2> QED
    BY <1>2, <2>1, <2>2 DEF GetNode, ReturnEarly
<1>3. CASE Issue(c)
  BY <1>2, <1>3 DEF Issue
<1>4. CASE SetPower(c)
  <2>1. CASE \E cmd : GetNode(c, "wait", cmd)
    BY <1>2, <1>4, <2>1 DEF SetPower
  <2>2. CASE ReturnEarly(c, "ok")
    BY <1>4, <2>2, NumbersSame DEF SetPower, ReturnEarly
  <2> QED
    BY <1>4, <2>1, <2>2 DEF SetPower, lbs_set_power_on, lbs_set_power_off
<1>5. CASE Queue(c)
  <2>1. node'[held[c]].seq = node[held[c]].seq
    BY <1>5 DEF OwnNumber
  <2>2. ASSUME NEW n \in Nodes
        PROVE  node'[n].seq = node[n].seq /\ node'[n].rid = node[n].rid
    BY <1>1, <1>5, <2>1 DEF Queue, NodeRec
  <2> QED
    BY <1>5, <2>2, NumbersFreed DEF Queue
<1>6. CASE ReturnSync(c)
  <2>1. ASSUME NEW n \in Nodes
        PROVE  \/ node'[n].seq = node[n].seq /\ node'[n].rid = node[n].rid
               \/ node'[n].seq = 0 /\ node'[n].rid = NoRid
    BY <1>1, <1>6 DEF ReturnSync, Cleaned, FreeNode
  <2> QED
    BY <1>6, <2>1, NumbersFreed DEF ReturnSync
<1>7. CASE EndWait(c) \/ ReturnLegacy(c)
  BY <1>7, NumbersSame DEF EndWait, ReturnLegacy
<1> QED
  BY <1>3, <1>4, <1>5, <1>6, <1>7 DEF CallerStep

(* What is on the bus is a copy of a node; the other packets bear no       *)
(* number.                                                                 *)
LEMMA PacketNumbers ==
    ASSUME TypeInv, NEW p \in Packet, p.kind = "cmd" => Number(p.msg) \in Used,
           HostToCard(p) \/ UNCHANGED packets, UNCHANGED <<fw_cmds, resp>>,
           \A n \in Nodes : node'[n].seq = node[n].seq /\ node'[n].rid = node[n].rid
    PROVE  Used' \subseteq Used
<1>1. ToSet(packets') \subseteq ToSet(packets) \cup {p}
  <2>1. ToSet(Append(packets, p)) = ToSet(packets) \cup {p}
    BY MessageSets DEF TypeInv, TypeOK
  <2> QED
    BY <2>1 DEF HostToCard
<1>2. \A q \in CmdPackets' : Number(q.msg) \in Used
  BY <1>1 DEF CmdPackets, Used
<1>3. \A n \in Nodes : Number(node[n])' \in Used
  BY DEF Number, Used
<1> QED
  BY <1>2, <1>3 DEF Used

LEMMA MainNumbers ==
    ASSUME TypeInv, Numbers, NoWrap, MainStep PROVE Numbers'
<1> USE DEF nodeVars, respVars, fwVars, usedVars
<1>1. CASE Prepares
  <2>1. UNCHANGED <<packets, fw_cmds, resp>>
    BY <1>1 DEF Prepares, MainRespWakeup, MainCallback, DeauthEvent, PsAwakeEvent,
       WakeFirmwareFirst, EnterPowerSave, NextEvent
  <2>2. CASE UNCHANGED <<nodeVars, seqnum>>
    BY <2>1, <2>2, NumbersSame
  <2>3. ASSUME NEW n \in Nodes, seqnum' = NextSeq, NEW cmd,
               node' = [node EXCEPT ![n] = Filled(cmd, NextSeq, "null", DriverRid)]
        PROVE  Numbers'
    <3>1. ASSUME NEW m \in Nodes
          PROVE  \/ node'[m].seq = node[m].seq /\ node'[m].rid = node[m].rid
                 \/ node'[m].seq = seqnum' /\ node'[m].rid = DriverRid
      BY <2>3 DEF Filled, TypeInv, TypeOK, QueueTypes
    <3> QED
      BY <2>1, <2>3, <3>1, NumbersGiven
  <2>4. ASSUME NEW cmd \in PsCommand, PrepareNoWait(cmd) PROVE Numbers'
    <3>1. CASE UNCHANGED <<nodeVars, seqnum>>
      BY <2>2, <3>1
    <3>2. CASE ~UNCHANGED <<nodeVars, seqnum>>
      <4>1. PICK n \in Nodes :
               node' = [node EXCEPT ![n] = Filled(cmd, NextSeq, "null", DriverRid)]
        BY <2>4, <3>2, PreparedNode
      <4>2. seqnum' = NextSeq
        BY <2>4, <3>2, PreparedNode
      <4> QED
        BY <2>3, <4>1, <4>2
    <3> QED
      BY <3>1, <3>2
  <2> QED
    BY <1>1, <2>2, <2>4, PreparesOrNot DEF PsCommand
<1>2. CASE Completes
  <2>1. UNCHANGED <<packets, fw_cmds, resp, seqnum>>
    BY <1>2 DEF Completes, PsOrErrorResponse, MainFinish, GiveUp, IgnoreEnterPs
  <2>2. CASE UNCHANGED nodeVars
    BY <2>1, <2>2, NumbersSame
  <2>3. ASSUME NEW n \in Nodes, NEW result, Complete(n, result)
        PROVE  Numbers'
    <3>1. ASSUME NEW m \in Nodes
          PROVE  \/ node'[m].seq = node[m].seq /\ node'[m].rid = node[m].rid
                 \/ node'[m].seq = 0 /\ node'[m].rid = NoRid
      BY <2>3, CompletedNode
    <3> QED
      BY <2>1, <3>1, NumbersFreed
  <2> QED
    BY <1>2, <2>2, <2>3, CompletesQueued
<1>3. CASE SubmitNext
  <2> DEFINE n == Head(cmdpendingq)
             p == CmdPacket(n)
  <2>1. n \in Nodes /\ node \in [Nodes -> NodeRec]
    BY <1>3, HeadTailProperties DEF SubmitNext, TypeInv, TypeOK, QueueTypes
  <2>2. p \in Packet /\ p.kind = "cmd" /\ Number(p.msg) = Number(node[n])
    BY <2>1, PacketTypes DEF CmdPacket, Number, TypeInv, TypeOK
  <2>3. Number(p.msg) \in Used
    BY <2>1, <2>2 DEF Used
  <2>4. HostToCard(p) \/ UNCHANGED packets
    BY <1>3 DEF SubmitNext, HandOver, HostToCardFails
  <2>5. \A m \in Nodes : node'[m].seq = node[m].seq /\ node'[m].rid = node[m].rid
    BY <1>3, <2>1 DEF SubmitNext, NodeRec
  <2>6. UNCHANGED <<fw_cmds, resp, seqnum>>
    BY <1>3 DEF SubmitNext
  <2> HIDE DEF p, n
  <2>7. Used' \subseteq Used
    BY <2>2, <2>3, <2>4, <2>5, <2>6, PacketNumbers
  <2> QED
    BY <2>6, <2>7, NumbersMove
<1>4. CASE HostAwakeEvent \/ MainConfirm \/ MainTx
  <2>1. PICK k \in {"data", "confirm_sleep", "confirm_wake"} :
           HostToCard([kind |-> k]) \/ UNCHANGED packets
    BY <1>4 DEF HostAwakeEvent, MainConfirm, MainTx, HostToCardFails
  <2>2. UNCHANGED <<node, fw_cmds, resp>>
    BY <1>4 DEF HostAwakeEvent, MainConfirm, MainTx, NextEvent
  <2>3. Used' \subseteq Used
    BY <2>1, <2>2, PacketTypes, PacketNumbers
  <2>4. seqnum' = seqnum \/ seqnum' = NextSeq
    BY <1>4 DEF HostAwakeEvent, MainConfirm, MainTx
  <2> QED
    BY <2>3, <2>4, NumbersMove
<1>5. CASE MainConsume
  <2>1. resp \in [{0, 1} -> Response] /\ main_idx \in {0, 1}
    BY DEF TypeInv, TypeOK, ReplyTypes, MainTypes
  <2>2. \A i \in {0, 1} : resp'[i] = resp[i] \/ resp'[i] = NoResp
    BY <1>5, <2>1 DEF MainConsume
  <2>3. \A i \in {0, 1} : Number(resp[i])' \in Used
    BY <2>2 DEF Used, NoResp, Number
  <2>4. Used' \subseteq Used
    BY <1>5, <2>3 DEF MainConsume, Used, CmdPackets
  <2> QED
    BY <1>5, <2>4, NumbersMove DEF MainConsume
<1>6. CASE \/ MainCheck \/ MainWakeUp \/ MainExit \/ MainRun \/ DropResponse
           \/ GoodResponse \/ Requeue \/ NoTimeout \/ ClearTimeout
  BY <1>6, NumbersSame DEF MainCheck, MainWakeUp, MainExit, MainRun, DropResponse,
     GoodResponse, Requeue, NoTimeout, ClearTimeout
<1>7. CASE \/ PsSleepEvent \/ OtherEvent \/ NoMoreEvents \/ MainPreSleep
           \/ MainConfirmDelayed \/ MainConfirmSent \/ NothingToExecute
  BY <1>7, NumbersSame DEF PsSleepEvent, OtherEvent, NoMoreEvents, NextEvent,
     MainPreSleep, MainConfirmDelayed, MainConfirmSent, NothingToExecute
<1> QED
  BY <1>1, <1>2, <1>3, <1>4, <1>5, <1>6, <1>7 DEF MainStep, Prepares, Completes

LEMMA CardNumbers ==
    ASSUME TypeInv, Numbers, CardStep PROVE Numbers'
<1> USE DEF hostElsewhere, nodeVars, fwVars, respVars, usedVars
<1>1. CASE DownloadInterrupt \/ EventInterrupt
  BY <1>1, NumbersSame DEF DownloadInterrupt, EventInterrupt
<1>2. CASE WritePacket
  <2>1. packets # <<>> /\ packets' = Tail(packets) /\ UNCHANGED <<node, seqnum, resp>>
    BY <1>2 DEF WritePacket
  <2>2. CmdPackets' \subseteq CmdPackets
    BY <2>1, TailsShorter DEF CmdPackets
  <2>3. \A m \in ToSet(fw_cmds') : Number(m) \in Used
    <3>1. CASE UNCHANGED fw_cmds
      BY <3>1 DEF Used
    <3>2. CASE Head(packets).kind = "cmd" /\ fw_cmds' = Append(fw_cmds, Head(packets).msg)
      <4> DEFINE p == Head(packets)
      <4>1. p \in CmdPackets /\ p \in Packet
        BY <2>1, <3>2, TailsShorter, HeadTailProperties DEF CmdPackets, TypeInv, TypeOK
      <4>2. Number(p.msg) \in Used
        BY <4>1 DEF Used
      <4>3. p.msg \in CmdMsg
        BY <3>2, <4>1 DEF Packet
      <4> HIDE DEF p
      <4>4. ToSet(fw_cmds') = ToSet(fw_cmds) \cup {p.msg}
        BY <3>2, <4>3, MessageSets DEF TypeInv, TypeOK, CardTypes, p
      <4> QED
        BY <4>2, <4>4 DEF Used
    <3> QED
      BY <1>2, <3>1, <3>2 DEF WritePacket
  <2>4. Used' \subseteq Used
    BY <2>1, <2>2, <2>3 DEF Used
  <2> QED
    BY <2>1, <2>4, NumbersMove
<1>3. CASE DropPacket
  <2>1. CmdPackets' \subseteq CmdPackets
    BY <1>3, TailsShorter DEF DropPacket, CmdPackets
  <2>2. Used' \subseteq Used
    BY <1>3, <2>1 DEF DropPacket, Used
  <2> QED
    BY <1>3, <2>2, NumbersMove DEF DropPacket
<1>4. CASE ResponseInterrupt \/ LoseResponse
  <2>1. /\ fw_cmds # <<>> /\ fw_cmds' = Tail(fw_cmds)
        /\ UNCHANGED <<node, packets, seqnum>>
    BY <1>4 DEF ResponseInterrupt, LoseResponse
  <2>2. Number(Head(fw_cmds)) \in Used /\ ToSet(fw_cmds') \subseteq ToSet(fw_cmds)
    BY <2>1, TailsShorter DEF Used
  <2>3. \A i \in {0, 1} : \/ resp'[i] = resp[i]
                          \/ /\ resp'[i].seq = Head(fw_cmds).seq
                             /\ resp'[i].rid = Head(fw_cmds).rid
    <3>1. CASE UNCHANGED resp
      BY <3>1
    <3>2. CASE \E r : resp' = [resp EXCEPT ![1 - resp_idx] =
                                 [cmd |-> Head(fw_cmds).cmd, seq |-> Head(fw_cmds).seq,
                                  rid |-> Head(fw_cmds).rid, result |-> r]]
      BY <3>2 DEF TypeInv, TypeOK, ReplyTypes
    <3> QED
      BY <1>4, <3>1, <3>2 DEF ResponseInterrupt, LoseResponse
  <2>4. \A i \in {0, 1} : Number(resp[i])' \in Used
    BY <2>2, <2>3 DEF Used, Number
  <2>5. Used' \subseteq Used
    BY <2>1, <2>2, <2>4 DEF Used, CmdPackets
  <2> QED
    BY <2>1, <2>5, NumbersMove
<1> QED
  BY <1>1, <1>2, <1>3, <1>4 DEF CardStep

LEMMA StepNumbers ==
    ASSUME TypeInv, Numbers, NoWrap, [OwnNumber]_vars, [Next]_vars PROVE Numbers'
<1> USE DEF nodeVars, fwVars, respVars, usedVars
<1>1. CASE UNCHANGED vars
  BY <1>1, NumbersSame DEF vars
<1>2. CASE TimerExpires \/ TimerHandler \/ TxStep
  BY <1>2, NumbersSame DEF TimerExpires, TimerHandler, TxStep, XmitDropped, XmitBusy,
     XmitBuild, XmitLineUp, txElsewhere
<1>3. CASE RemoveStep
  <2>1. UNCHANGED <<packets, fw_cmds, resp, seqnum>>
    BY <1>3 DEF RemoveStep, CardRemoved, FlushPending, CancelWork, StopThread,
       FreeAdapter, rmElsewhere
  <2>2. ASSUME NEW n \in Nodes
        PROVE  node'[n].seq = node[n].seq /\ node'[n].rid = node[n].rid
    <3>1. CASE UNCHANGED node
      BY <3>1
    <3>2. CASE FlushPending
      <4>1. node[n] \in NodeRec
        BY DEF TypeInv, TypeOK, QueueTypes
      <4> QED
        BY <3>2, <4>1 DEF FlushPending, NodeRec
    <3> QED
      BY <1>3, <3>1, <3>2 DEF RemoveStep, CardRemoved, CancelWork, StopThread,
         FreeAdapter
  <2> QED
    BY <2>1, <2>2, NumbersFreed
<1>4. CASE OwnNumber /\ Running
  BY <1>2, <1>3, <1>4, CallerNumbers, MainNumbers, CardNumbers DEF Running
<1> QED
  BY <1>1, <1>4 DEF Next, AllReturned, Halted

(* The checks of lbs_process_command_response (cmdresp.c) suffice: however *)
(* often commands are retried and however late their older copies are      *)
(* answered, an answer it acts on is one to the command in flight          *)
(* (AcceptedIsAnswer), for any number of nodes and callers - as long as    *)
(* the 16 bits of seqnum do not wrap and the unlocked ++seqnum of          *)
(* __lbs_cmd_async (cmd.c) is not overtaken.                               *)
THEOREM AnswersMatch ==
    Spec /\ []NoWrap /\ [][OwnNumber]_vars => AcceptedIsAnswer
<1>1. Init => Numbers
  <2> SUFFICES ASSUME Init PROVE Numbers
    OBVIOUS
  <2>1. CmdPackets = {} /\ ToSet(fw_cmds) = {}
    BY EmptySeq DEF Init, PrivInit, CmdPackets, ToSet
  <2>2. \A n \in Nodes : Number(node[n]) = <<0, NoRid>>
    BY DEF Init, PrivInit, FreeNode, Number
  <2>3. \A i \in {0, 1} : Number(resp[i]) = <<0, NoRid>>
    BY DEF Init, PrivInit, NoResp, Number
  <2>4. Used = {<<0, NoRid>>} /\ seqnum = 0
    BY <2>1, <2>2, <2>3 DEF Used, Init, PrivInit
  <2> QED
    BY <2>4 DEF Numbers
<1>2. TypeInv /\ Numbers /\ NoWrap /\ [OwnNumber]_vars /\ [Next]_vars => Numbers'
  BY StepNumbers
<1>3. TypeInv /\ Numbers /\ AnswerArrived => resp[main_idx].rid = node[cur_cmd].rid
  <2> SUFFICES ASSUME TypeInv, Numbers, AnswerArrived
               PROVE  resp[main_idx].rid = node[cur_cmd].rid
    OBVIOUS
  <2>1. cur_cmd \in Nodes /\ main_idx \in {0, 1}
        /\ resp[main_idx].seq = node[cur_cmd].seq
    BY DEF AnswerArrived, Unexpected, TypeInv, TypeOK, CurrentTypes, MainTypes
  <2>2. Number(resp[main_idx]) \in Used /\ Number(node[cur_cmd]) \in Used
    BY <2>1 DEF Used
  <2> QED
    BY <2>1, <2>2 DEF Numbers, Number
<1> QED
  BY InitTypes, StepTypes, <1>1, <1>2, <1>3, PTL DEF Spec, AcceptedIsAnswer
-----------------------------------------------------------------------------
(* Retries: what a step may do to the counts.                              *)
FilledUnsent == \A c \in Callers : pc[c] = "filled" => node[held[c]].sent = 0
StillServing == main' \in ServingLabel <=> main \in ServingLabel

LEMMA HeadPending ==
    ASSUME TypeInv, cmdpendingq # <<>>
    PROVE  Head(cmdpendingq) \in Pending /\ Head(cmdpendingq) \in Nodes
<1>1. cmdpendingq \in Seq(Nodes)
  BY DEF TypeInv, TypeOK, QueueTypes
<1> QED
  BY <1>1, MessageSets, HeadTailProperties DEF Pending

LEMMA RetriesSame ==
    ASSUME TypeInv, Retries, FilledUnsent', StillServing,
           UNCHANGED <<cur_cmd, cmdpendingq, nr_retries>>,
           \A n \in Queued : node'[n].sent = node[n].sent
    PROVE  Retries'
<1>1. Pending' = Pending /\ Pending \subseteq Queued
  BY DEF Pending, Queued
<1>2. cur_cmd # NoNode => cur_cmd \in Queued
  BY DEF Queued
<1>3. cmdpendingq # <<>> => Head(cmdpendingq) \in Queued
  BY <1>1, HeadPending
<1> QED
  BY <1>1, <1>2, <1>3 DEF Retries, FilledUnsent, StillServing

(* list_add_tail.                                                          *)
LEMMA RetriesAppend ==
    ASSUME TypeInv, Retries, FilledUnsent', StillServing, NEW n \in Nodes \ Queued,
           node'[n].sent = 0, cmdpendingq' = Append(cmdpendingq, n),
           UNCHANGED <<cur_cmd, nr_retries>>,
           \A m \in Queued : node'[m].sent = node[m].sent
    PROVE  Retries'
<1>1. cmdpendingq \in Seq(Nodes)
  BY DEF TypeInv, TypeOK, QueueTypes
<1>2. Pending' = Pending \cup {n} /\ Pending \subseteq Queued
  BY <1>1, AppendSet DEF Pending, Queued
<1>3. /\ cmdpendingq' # <<>>
      /\ cmdpendingq # <<>> => Head(cmdpendingq') = Head(cmdpendingq)
      /\ cmdpendingq = <<>> => Head(cmdpendingq') = n
  BY <1>1, AppendProperties, HeadTailProperties, EmptySeq, LenProperties
<1>4. cur_cmd # NoNode => cur_cmd \in Queued
  BY DEF Queued
<1>5. cmdpendingq # <<>> => Head(cmdpendingq) \in Queued
  BY <1>2, HeadPending
<1>6. \A m \in Pending' :
         node'[m].sent = 0 \/ (cur_cmd' = NoNode /\ m = Head(cmdpendingq'))
  <2>1. ASSUME NEW m \in Pending
        PROVE  node'[m].sent = 0 \/ (cur_cmd = NoNode /\ m = Head(cmdpendingq'))
    <3>1. cmdpendingq # <<>>
      BY EmptySeq DEF Pending, ToSet
    <3> QED
      BY <1>2, <1>3, <3>1 DEF Retries
  <2> QED
    BY <1>2, <2>1
<1> QED
  BY <1>3, <1>4, <1>5, <1>6 DEF Retries, FilledUnsent, StillServing

(* A command is answered and will be completed: no more of its retries are *)
(* counted.                                                                *)
LEMMA RetriesServed ==
    ASSUME Retries, cur_cmd # NoNode, nr_retries' = 0, main' \in ServingLabel,
           UNCHANGED <<nodeVars, cur_cmd, pc, held>>
    PROVE  Retries'
  BY DEF Retries, Pending, nodeVars

(* A command is completed.                                                 *)
LEMMA RetriesCompleted ==
    ASSUME TypeInv, Retries, FilledUnsent', cur_cmd # NoNode, cur_cmd' = NoNode,
           nr_retries' = 0, main' \notin ServingLabel, UNCHANGED cmdpendingq,
           \A n \in Pending : node'[n].sent = node[n].sent
    PROVE  Retries'
<1>1. Pending' = Pending
  BY DEF Pending
<1>2. cmdpendingq # <<>> => Head(cmdpendingq) \in Pending
  BY HeadPending
<1> QED
  BY <1>1, <1>2 DEF Retries, FilledUnsent

(* The head of the queue goes out, ...                                     *)
LEMMA RetriesSubmit ==
    ASSUME TypeInv, OwnInv, Retries, SubmitNext PROVE Retries'
<1> DEFINE n == Head(cmdpendingq)
<1>1. /\ cmdpendingq \in Seq(Nodes) /\ cmdpendingq # <<>> /\ n \in Nodes
      /\ node \in [Nodes -> NodeRec] /\ cur_cmd = NoNode
  BY HeadPending DEF SubmitNext, MayExecute, TypeInv, TypeOK, QueueTypes
<1>2. n \in Pending /\ Pending' = Pending \ {n}
  BY <1>1, TailSet DEF SubmitNext, OwnInv, ListsApart, Pending
<1>3. /\ cur_cmd' = n /\ main' = "tx" /\ UNCHANGED <<nr_retries, pc, held>>
      /\ node' = [node EXCEPT ![n].sent = @ + 1]
  BY DEF SubmitNext, Goto, callerVars
<1> HIDE DEF n
<1>4. node'[n].sent = node[n].sent + 1 /\ \A m \in Nodes \ {n} : node'[m] = node[m]
  BY <1>1, <1>3 DEF NodeRec
<1>5. node[n].sent = nr_retries
  BY <1>1 DEF Retries, n
<1>6. FilledUnsent'
  <2>1. ASSUME NEW c \in Callers, pc[c] = "filled"
        PROVE  held[c] \in Nodes \ {n} /\ node[held[c]].sent = 0
    BY <1>2, <2>1 DEF OwnInv, Fillers, TypeInv, Holding, Retries, Queued, Pending
  <2> QED
    BY <1>3, <1>4, <2>1 DEF FilledUnsent
<1>7. \A m \in Pending' : node'[m].sent = 0
  BY <1>1, <1>2, <1>4, ListsOfNodes DEF Retries, n
<1> QED
  BY <1>1, <1>3, <1>4, <1>5, <1>6, <1>7, ListsOfNodes
  DEF Retries, FilledUnsent, ServingLabel

(* ... and comes back to it.                                               *)
LEMMA RetriesRequeue ==
    ASSUME TypeInv, Retries, Requeue PROVE Retries'
<1>1. cur_cmd \in Nodes /\ cmdpendingq \in Seq(Nodes) /\ cur_cmd # NoNode
  BY DEF Requeue, TimedOut, TypeInv, TypeOK, CurrentTypes, QueueTypes
<1>2. /\ cmdpendingq' = <<cur_cmd>> \o cmdpendingq /\ cur_cmd' = NoNode
      /\ nr_retries' = nr_retries + 1 /\ main = "timeout" /\ main' = "events"
      /\ UNCHANGED <<node, pc, held>>
  BY DEF Requeue, Requeued, Goto, callerVars
<1>3. Pending' = Pending \cup {cur_cmd}
  BY <1>1, <1>2, ConsSet DEF Pending
<1>4. cmdpendingq' # <<>> /\ Head(cmdpendingq') = cur_cmd
  <2>1. /\ <<cur_cmd>> \in Seq(Nodes) /\ Len(<<cur_cmd>>) = 1 /\ <<cur_cmd>>[1] = cur_cmd
        /\ Len(cmdpendingq) \in Nat
    BY <1>1, LenProperties
  <2>2. /\ cmdpendingq' \in Seq(Nodes) /\ Len(cmdpendingq') = 1 + Len(cmdpendingq)
        /\ cmdpendingq'[1] = cur_cmd
    BY <1>1, <1>2, <2>1, ConcatProperties
  <2> QED
    BY <2>1, <2>2, HeadTailProperties, EmptySeq
<1>5. node[cur_cmd].sent = nr_retries + 1
  BY <1>1, <1>2 DEF Retries, ServingLabel
<1>6. \A m \in Pending : node[m].sent = 0
  BY <1>1 DEF Retries
<1> QED
  BY <1>2, <1>3, <1>4, <1>5, <1>6 DEF Retries, ServingLabel

LEMMA CallerRetries ==
    ASSUME TypeInv, OwnInv, Retries, Signals = {}, psstate = "FULL_POWER",
           NEW c \in Callers, CallerStep(c)
    PROVE  Retries'
<1>1. /\ node \in [Nodes -> NodeRec] /\ cmdfreeq \in Seq(Nodes)
      /\ pc \in [Callers -> {"idle", "filled", "wait", "ret"}]
      /\ held \in [Callers -> Nodes \cup {NoNode}]
  BY DEF TypeInv, TypeOK, QueueTypes, CallerTypes
<1>2. FilledUnsent
  BY DEF Retries, FilledUnsent
<1>3. UNCHANGED <<cur_cmd, nr_retries, main>>
  BY DEF CallerStep, Issue, SetPower, Queue, ReturnSync, EndWait, ReturnLegacy,
     elsewhere, timeVars, mainVars
<1>4. ASSUME UNCHANGED <<nodeVars, pc, held>> PROVE Retries'
  BY <1>3, <1>4 DEF Retries, Pending, nodeVars
<1>5. ASSUME NEW api, NEW cmd, GetNode(c, api, cmd) PROVE Retries'
  <2>1. CASE UNCHANGED <<nodeVars, pc, held>>
    BY <1>4, <2>1
  <2>2. CASE cmdfreeq # <<>> /\ ~UNCHANGED <<nodeVars, pc, held>>
    <3> DEFINE n == Head(cmdfreeq)
    <3>1. n \in Nodes /\ n \in Free /\ n \notin Queued
      BY <1>1, <2>2, TailSet, HeadTailProperties DEF OwnInv, ListsApart, Free
    <3>2. /\ node'[n].sent = 0
          /\ \A m \in Nodes \ {n} : node'[m] = node[m]
          /\ pc' = [pc EXCEPT ![c] = "filled"] /\ held' = [held EXCEPT ![c] = n]
          /\ UNCHANGED cmdpendingq
      BY <1>1, <1>5, <2>2, <3>1 DEF GetNode, ReturnEarly, Filled
    <3> HIDE DEF n
    <3>3. FilledUnsent'
      <4>1. ASSUME NEW d \in Callers \ {c}, pc[d] = "filled"
            PROVE  held[d] \in Nodes \ {n} /\ node[held[d]].sent = 0
        BY <1>2, <3>1, <4>1 DEF OwnInv, Fillers, TypeInv, Holding, FilledUnsent
      <4> QED
        BY <1>1, <3>2, <4>1 DEF FilledUnsent
    <3>4. \A m \in Queued : node'[m].sent = node[m].sent
      BY <3>1, <3>2, ListsOfNodes
    <3> QED
      BY <1>3, <3>2, <3>3, <3>4, RetriesSame DEF StillServing
  <2> QED
    BY <1>5, <2>1, <2>2 DEF GetNode, ReturnEarly
<1>6. CASE Issue(c)
  BY <1>5, <1>6 DEF Issue
<1>7. CASE SetPower(c)
  <2>1. CASE ReturnEarly(c, "ok")
    BY <1>4, <2>1 DEF ReturnEarly
  <2> QED
    BY <1>5, <1>7, <2>1 DEF SetPower, lbs_set_power_on, lbs_set_power_off
<1>8. CASE Queue(c)
  <2> DEFINE n == held[c]
  <2>1. n \in Nodes /\ n \notin Queued /\ node[n].sent = 0
    BY <1>2, <1>8 DEF Queue, OwnInv, Fillers, TypeInv, Holding, FilledUnsent
  <2>2. \A m \in Nodes : node'[m].sent = node[m].sent
    BY <1>1, <1>8 DEF Queue, NodeRec
  <2>3. cmdpendingq' = Append(cmdpendingq, n)
    BY <1>8 DEF Queue, Enqueued
  <2>4. FilledUnsent'
    <3>1. ASSUME NEW d \in Callers, pc'[d] = "filled"
          PROVE  pc[d] = "filled" /\ held'[d] = held[d]
      BY <1>1, <1>8, <3>1 DEF Queue
    <3> QED
      BY <1>2, <2>2, <3>1 DEF FilledUnsent, TypeInv, Holding
  <2> HIDE DEF n
  <2> QED
    BY <1>3, <2>1, <2>2, <2>3, <2>4, RetriesAppend, ListsOfNodes DEF StillServing
<1>9. CASE ReturnSync(c)
  <2>1. held[c] \in Nodes /\ held[c] \notin Queued
    BY <1>9 DEF ReturnSync, OwnInv, QueuedNodes, TypeInv, Holding
  <2>2. /\ \A m \in Nodes \ {held[c]} : node'[m] = node[m]
        /\ node'[held[c]].sent = 0
    BY <1>1, <1>9, <2>1 DEF ReturnSync, Cleaned, FreeNode
  <2>3. FilledUnsent'
    <3>1. ASSUME NEW d \in Callers, pc'[d] = "filled"
          PROVE  pc[d] = "filled" /\ held'[d] = held[d]
      BY <1>1, <1>9, <3>1 DEF ReturnSync
    <3> QED
      BY <1>2, <2>2, <3>1 DEF FilledUnsent, TypeInv, Holding
  <2>4. UNCHANGED cmdpendingq
    BY <1>9 DEF ReturnSync
  <2> QED
    BY <1>3, <2>1, <2>2, <2>3, <2>4, RetriesSame, ListsOfNodes DEF StillServing
<1>10. CASE EndWait(c) \/ ReturnLegacy(c)
  <2>1. FilledUnsent'
    BY <1>1, <1>2, <1>10 DEF EndWait, ReturnLegacy, FilledUnsent, nodeVars
  <2>2. UNCHANGED nodeVars
    BY <1>10 DEF EndWait, ReturnLegacy
  <2> QED
    BY <1>3, <2>1, <2>2, RetriesSame DEF StillServing, nodeVars
<1> QED
  BY <1>6, <1>7, <1>8, <1>9, <1>10 DEF CallerStep

LEMMA PrepareRetries ==
    ASSUME TypeInv, OwnInv, Retries, psstate = "FULL_POWER", Prepares
    PROVE  Retries'
<1>1. UNCHANGED <<cur_cmd, nr_retries, pc, held>> /\ StillServing
  BY DEF Prepares, MainRespWakeup, MainCallback, DeauthEvent, PsAwakeEvent,
     WakeFirmwareFirst, EnterPowerSave, NextEvent, MayExecute, Goto, mainVars,
     timeVars, callerVars, StillServing, ServingLabel
<1>2. CASE UNCHANGED <<nodeVars, seqnum>>
  BY <1>1, <1>2 DEF Retries, Pending, nodeVars, StillServing
<1>3. ASSUME NEW cmd \in PsCommand, PrepareNoWait(cmd), ~UNCHANGED <<nodeVars, seqnum>>
      PROVE  Retries'
  <2>1. PICK n \in Nodes :
           /\ n = Head(cmdfreeq) /\ cmdfreeq # <<>>
           /\ cmdpendingq' = Enqueued(n, cmd)
           /\ node' = [node EXCEPT ![n] = Filled(cmd, NextSeq, "null", DriverRid)]
    BY <1>3, PreparedNode
  <2>2. cmdfreeq \in Seq(Nodes) /\ node \in [Nodes -> NodeRec]
    BY DEF TypeInv, TypeOK, QueueTypes
  <2>3. n \in Free /\ n \notin Queued
    BY <2>1, <2>2, TailSet DEF OwnInv, ListsApart, Free
  <2>4. node'[n].sent = 0 /\ \A m \in Nodes \ {n} : node'[m] = node[m]
    BY <2>1, <2>2 DEF Filled
  <2>5. cmdpendingq' = Append(cmdpendingq, n)
    BY <2>1 DEF Enqueued
  <2>6. FilledUnsent'
    BY <1>1, <2>3, <2>4 DEF FilledUnsent, Retries, OwnInv, Fillers, TypeInv, Holding
  <2>7. \A m \in Queued : node'[m].sent = node[m].sent
    BY <2>3, <2>4, ListsOfNodes
  <2> QED
    BY <1>1, <2>3, <2>4, <2>5, <2>6, <2>7, RetriesAppend
<1> QED
  BY <1>2, <1>3, PreparesOrNot DEF PsCommand

LEMMA CompleteRetries ==
    ASSUME TypeInv, OwnInv, Retries, psstate = "FULL_POWER", psstate' = "FULL_POWER",
           Completes
    PROVE  Retries'
<1>1. ~IgnoreEnterPs
  BY DEF IgnoreEnterPs
<1>2. UNCHANGED <<pc, held>>
  BY DEF Completes, PsOrErrorResponse, MainFinish, GiveUp, IgnoreEnterPs
<1>3. ASSUME NEW n \in Nodes, NEW result, n = cur_cmd, Complete(n, result),
             UNCHANGED cmdpendingq, nr_retries' = 0, main' \notin ServingLabel
      PROVE  Retries'
  <2>1. cur_cmd # NoNode /\ cur_cmd' = NoNode /\ n \in Queued /\ n \notin Pending
    BY <1>3, ListsOfNodes DEF Complete, Queued, OwnInv, ListsApart
  <2>2. \A m \in Nodes \ {n} : node'[m] = node[m]
    BY <1>3, CompletedNode
  <2>3. FilledUnsent'
    BY <1>2, <2>1, <2>2 DEF FilledUnsent, Retries, OwnInv, Fillers, TypeInv, Holding
  <2>4. \A m \in Pending : node'[m].sent = node[m].sent
    BY <2>1, <2>2, ListsOfNodes
  <2> QED
    BY <1>3, <2>1, <2>3, <2>4, RetriesCompleted
<1>4. CASE PsOrErrorResponse
  <2>1. cur_cmd \in Nodes /\ cur_cmd # NoNode /\ nr_retries' = 0
    BY <1>4, NodesAssumption DEF PsOrErrorResponse, AnswerArrived, Unexpected, EndRetries,
       TypeInv, TypeOK, CurrentTypes
  <2>2. CASE main' = "resp_wakeup" /\ UNCHANGED <<nodeVars, cur_cmd>>
    BY <1>2, <2>1, <2>2, RetriesServed DEF ServingLabel
  <2>3. CASE main' = "consume" /\ UNCHANGED cmdpendingq
             /\ Complete(cur_cmd, resp[main_idx].result)
    BY <1>3, <2>1, <2>3 DEF ServingLabel
  <2> QED
    BY <1>4, <2>2, <2>3 DEF PsOrErrorResponse, Goto
<1>5. CASE MainFinish
  <2>1. cur_cmd \in Nodes /\ nr_retries = 0
    BY <1>5 DEF MainFinish, TypeInv, Serving, Retries, ServingLabel
  <2>2. UNCHANGED <<cmdpendingq, nr_retries>> /\ main' \notin ServingLabel
    BY <1>5 DEF MainFinish, timeVars, Goto, ServingLabel
  <2> QED
    BY <1>3, <1>5, <2>1, <2>2 DEF MainFinish
<1>6. CASE GiveUp
  <2>1. cur_cmd \in Nodes
    BY <1>6 DEF GiveUp, TimedOut, TypeInv, TypeOK, CurrentTypes
  <2>2. UNCHANGED cmdpendingq /\ nr_retries' = 0 /\ main' \notin ServingLabel
    BY <1>6 DEF GiveUp, CountAfterGivingUp, Goto, ServingLabel
  <2> QED
    BY <1>3, <1>6, <2>1, <2>2 DEF GiveUp
<1> QED
  BY <1>1, <1>4, <1>5, <1>6 DEF Completes

LEMMA MainRetries ==
    ASSUME TypeInv, OwnInv, Retries, psstate = "FULL_POWER", psstate' = "FULL_POWER",
           MainStep
    PROVE  Retries'
<1>1. CASE GoodResponse
  <2>1. cur_cmd # NoNode /\ nr_retries' = 0
    BY <1>1 DEF GoodResponse, AnswerArrived, Unexpected, EndRetries
  <2>2. main' \in ServingLabel /\ UNCHANGED <<nodeVars, cur_cmd, pc, held>>
    BY <1>1 DEF GoodResponse, Goto, ServingLabel, callerVars
  <2> QED
    BY <2>1, <2>2, RetriesServed
<1>2. ASSUME UNCHANGED <<nodeVars, cur_cmd, nr_retries, pc, held>>,
             main' \notin ServingLabel, main \notin ServingLabel
      PROVE  Retries'
  BY <1>2 DEF Retries, Pending, nodeVars
<1>3. main_ret \notin ServingLabel
  BY DEF TypeInv, TypeOK, MainTypes, ServingLabel
<1> USE DEF ServingLabel, Goto, timeVars, curVars, callerVars, mainVars
<1>4. CASE \/ MainCheck \/ MainWakeUp \/ MainExit \/ MainRun \/ DropResponse
           \/ MainConsume \/ NoTimeout \/ ClearTimeout
  BY <1>2, <1>4 DEF MainCheck, MainWakeUp, MainExit, MainRun, DropResponse,
     MainConsume, NoTimeout, ClearTimeout
<1>5. CASE \/ PsSleepEvent \/ HostAwakeEvent \/ OtherEvent \/ NoMoreEvents
           \/ MainPreSleep \/ NothingToExecute \/ MainTx
  BY <1>2, <1>5 DEF PsSleepEvent, HostAwakeEvent, OtherEvent, NoMoreEvents, NextEvent,
     MainPreSleep, NothingToExecute, MayExecute, MainTx
<1>6. CASE MainConfirmDelayed \/ MainConfirm \/ MainConfirmSent
  BY <1>2, <1>3, <1>6 DEF MainConfirmDelayed, MainConfirm, MainConfirmSent
<1> QED
  BY <1>1, <1>4, <1>5, <1>6, PrepareRetries, CompleteRetries, RetriesRequeue,
     RetriesSubmit DEF MainStep, Prepares, Completes

LEMMA StepRetries ==
    ASSUME TypeInv, OwnInv, Retries, Signals = {}, ~Hotplug, [Next]_vars,
           psstate = "FULL_POWER", psstate' = "FULL_POWER"
    PROVE  Retries'
<1>1. ASSUME UNCHANGED <<nodeVars, cur_cmd, nr_retries, pc, held, main>> PROVE Retries'
  BY <1>1 DEF Retries, Pending, nodeVars
<1>2. CASE UNCHANGED vars
  BY <1>1, <1>2 DEF vars, curVars, timeVars, callerVars, mainVars
<1>3. CASE TimerExpires \/ TimerHandler \/ CardStep \/ TxStep
  BY <1>1, <1>3, OthersLeave DEF TimerExpires, TimerHandler, CardStep, WritePacket,
     DropPacket, DownloadInterrupt, ResponseInterrupt, LoseResponse, EventInterrupt,
     hostElsewhere, TxStep, XmitDropped, XmitBusy, XmitBuild, XmitLineUp,
     txElsewhere, timeVars, mainVars
<1>4. CASE Running
  BY <1>3, <1>4, CallerRetries, MainRetries, NoRemoval DEF Running
<1> QED
  BY <1>2, <1>4 DEF Next, AllReturned, Halted

(* Nothing has been retried yet.                                           *)
LEMMA InitRetries == Init => Retries
  BY EmptySeq DEF Init, PrivInit, Retries, Pending, ToSet, ServingLabel

(* Retries are counted for the right command (RetriedIsNext; lbs_thread,   *)
(* main.c), for any number of nodes, callers and calls: however the timer, *)
(* late answers and new commands interleave, as long as nothing is queued  *)
(* in front of the command that is retried - out of power save no EXIT_PS  *)
(* is - no signal ends a wait and the card stays.                          *)
THEOREM RetriesCounted ==
    ASSUME Signals = {}, ~Hotplug
    PROVE  Spec /\ [](psstate = "FULL_POWER") => []RetriedIsNext
<1> DEFINE Awake == psstate = "FULL_POWER"
<1>1. TypeInv /\ OwnInv /\ Retries /\ Awake /\ Awake' /\ [Next]_vars => Retries'
  BY StepRetries
<1>2. TypeInv /\ OwnInv /\ [Next]_vars => OwnInv'
  BY StepOwns
<1>3. Retries => RetriedIsNext
  BY DEF Retries, RetriedIsNext
<1> QED
  BY InitTypes, StepTypes, InitOwns, InitRetries, <1>1, <1>2, <1>3, PTL DEF Spec

(* Under the same conditions a command is given up with -ETIMEDOUT only    *)
(* after four submissions (GiveUpAfterFour; "Excessive timeouts" in        *)
(* lbs_thread, main.c).                                                    *)
THEOREM GivenUpLate ==
    ASSUME Signals = {}, ~Hotplug
    PROVE  Spec /\ [](psstate = "FULL_POWER") => GiveUpAfterFour
<1> DEFINE Awake == psstate = "FULL_POWER"
<1>1. TypeInv /\ OwnInv /\ Retries /\ Awake /\ Awake' /\ [Next]_vars => Retries'
  BY StepRetries
<1>2. TypeInv /\ OwnInv /\ [Next]_vars => OwnInv'
  BY StepOwns
<1>3. TypeInv /\ Retries /\ GiveUp => node[cur_cmd].sent = 4
  <2> SUFFICES ASSUME TypeInv, Retries, GiveUp PROVE node[cur_cmd].sent = 4
    OBVIOUS
  <2>1. cur_cmd # NoNode /\ main = "timeout" /\ nr_retries + 1 > 3 /\ nr_retries \in 0..3
    BY DEF GiveUp, TimedOut, MaxRetries, TypeInv, TypeOK, TimerTypes
  <2> QED
    BY <2>1 DEF Retries, ServingLabel
<1> QED
  BY InitTypes, StepTypes, InitOwns, InitRetries, <1>1, <1>2, <1>3, PTL
  DEF Spec, GiveUpAfterFour
-----------------------------------------------------------------------------
(* Results.                                                                *)
LEMMA RidsSame ==
    ASSUME Rids, Told, UNCHANGED <<node, pc, held, call, calls, outcome>>
    PROVE  Rids' /\ Told'
  BY DEF Rids, Told, Holds, WaitsSync

(* A caller's node is no other caller's, nor a free one.                   *)
LEMMA HeldNodes ==
    ASSUME TypeInv, OwnInv
    PROVE  /\ \A c \in Callers : Holds(c) => held[c] \in Nodes /\ held[c] \notin Free
           /\ \A c, d \in Callers : c # d /\ Holds(c) /\ Holds(d) => held[c] # held[d]
  BY DEF TypeInv, Holding, OwnInv, Fillers, Waiters, WaitsSync, Holds, HoldersApart

(* What a call's number in a node is.                                      *)
LEMMA RidNumbers ==
    ASSUME TypeInv
    PROVE  \A m \in Nodes, d \in Callers : node[m].rid[1] = d => node[m].rid[2] \in Nat
<1>1. ASSUME NEW m \in Nodes, NEW d \in Callers, node[m].rid[1] = d
      PROVE  node[m].rid[2] \in Nat
  <2>1. node[m].rid \in Rid
    BY DEF TypeInv, TypeOK, QueueTypes, NodeRec
  <2> QED
    BY <1>1, <2>1, CallersAssumption DEF Rid, DriverRid, NoRid
<1> QED
  BY <1>1

(* A call that returns at once.                                            *)
LEMMA RidsRefused ==
    ASSUME TypeInv, OwnInv, Rids, Told, NEW c \in Callers, pc[c] = "idle",
           calls' = [calls EXCEPT ![c] = @ + 1],
           \A d \in Callers \ {c} : call'[d] = call[d],
           UNCHANGED <<node, pc, held, outcome>>
    PROVE  Rids' /\ Told'
<1>1. calls \in [Callers -> Nat]
  BY DEF TypeInv, TypeOK, CallerTypes
<1>2. \A d \in Callers : /\ Holds(d)' <=> Holds(d) /\ d # c
                         /\ WaitsSync(d)' => WaitsSync(d) /\ d # c
  BY DEF Holds, WaitsSync
<1>3. Rids'
  BY <1>1, <1>2, RidNumbers DEF Rids
<1>4. Told'
  BY <1>2 DEF Told
<1> QED
  BY <1>3, <1>4

(* A call that gets a node, or is refused one.                             *)
LEMMA RidsTaken ==
    ASSUME TypeInv, OwnInv, Rids, Told, NEW c \in Callers, pc[c] = "idle",
           NEW api, NEW cmd, GetNode(c, api, cmd)
    PROVE  Rids' /\ Told'
<1>1. /\ node \in [Nodes -> NodeRec] /\ cmdfreeq \in Seq(Nodes)
      /\ pc \in [Callers -> {"idle", "filled", "wait", "ret"}]
      /\ held \in [Callers -> Nodes \cup {NoNode}] /\ call \in [Callers -> Call]
      /\ calls \in [Callers -> Nat] /\ outcome \in [Callers -> Outcome]
  BY DEF TypeInv, TypeOK, QueueTypes, CallerTypes
<1>2. /\ calls'[c] = calls[c] + 1 /\ ~Holds(c) /\ calls[c] \in Nat
      /\ \A d \in Callers \ {c} : calls'[d] = calls[d] /\ call'[d] = call[d]
  BY <1>1 DEF GetNode, Holds
<1>3. \A m \in Nodes, d \in Callers : node[m].rid[1] = d => node[m].rid[2] \in Nat
  BY RidNumbers
<1>4. CASE UNCHANGED <<node, pc, held, outcome>>
  BY <1>2, <1>4, RidsRefused DEF GetNode
<1>5. CASE cmdfreeq # <<>> /\ pc' = [pc EXCEPT ![c] = "filled"]
  <2> DEFINE n == Head(cmdfreeq)
  <2>1. n \in Nodes /\ n \in Free
    BY <1>1, <1>5, TailSet, HeadTailProperties DEF OwnInv, ListsApart, Free
  <2>2. /\ node' = [node EXCEPT ![n] =
                      [Filled(cmd, NextSeq, Callback(api), <<c, calls[c] + 1>>)
                          EXCEPT !.woken = node[n].woken]]
        /\ held' = [held EXCEPT ![c] = n]
        /\ outcome' = [outcome EXCEPT ![c] = "pending"]
    <3>1. pc' # pc
      BY <1>1, <1>5
    <3> QED
      BY <1>5, <3>1 DEF GetNode, ReturnEarly
  <2>3. /\ node'[n].rid = <<c, calls[c] + 1>>
        /\ \A m \in Nodes \ {n} : node'[m] = node[m]
    BY <1>1, <2>1, <2>2 DEF Filled
  <2> HIDE DEF n
  <2>4. /\ Holds(c)' /\ ~WaitsSync(c)' /\ held'[c] = n
        /\ \A d \in Callers \ {c} : /\ Holds(d)' <=> Holds(d)
                                    /\ WaitsSync(d)' <=> WaitsSync(d)
                                    /\ held'[d] = held[d] /\ outcome'[d] = outcome[d]
    BY <1>1, <1>2, <1>5, <2>2 DEF Holds, WaitsSync
  <2>5. \A d \in Callers \ {c} : Holds(d) => held[d] \in Nodes \ {n}
    BY <2>1, HeldNodes
  <2>6. ASSUME NEW d \in Callers, Holds(d)'
        PROVE  node'[held'[d]].rid = <<d, calls'[d]>>
    <3>1. CASE d = c
      BY <1>2, <2>3, <2>4, <3>1
    <3>2. CASE d # c
      <4>1. Holds(d) /\ held'[d] = held[d] /\ held[d] \in Nodes \ {n} /\ calls'[d] = calls[d]
        BY <1>2, <2>4, <2>5, <2>6, <3>2
      <4>2. node[held[d]].rid = <<d, calls[d]>>
        BY <4>1 DEF Rids
      <4> QED
        BY <2>3, <4>1, <4>2
    <3> QED
      BY <3>1, <3>2
  <2>7. ASSUME NEW m \in Nodes, NEW d \in Callers, node'[m].rid[1] = d
        PROVE  /\ node'[m].rid[2] <= calls'[d]
               /\ Holds(d)' /\ node'[m].rid[2] = calls'[d] => m = held'[d]
    <3>1. CASE m = n
      BY <1>2, <2>3, <2>4, <2>7, <3>1
    <3>2. CASE m # n
      <4>1. node[m].rid[1] = d /\ node[m].rid[2] \in Nat /\ node[m].rid[2] <= calls[d]
        BY <1>3, <2>3, <2>7, <3>2 DEF Rids
      <4> QED
        BY <1>2, <2>3, <2>4, <3>2, <4>1 DEF Rids
    <3> QED
      BY <3>1, <3>2
  <2>8. Rids'
    BY <2>6, <2>7 DEF Rids
  <2>9. Told'
    <3>1. ASSUME NEW d \in Callers, WaitsSync(d)', node'[held'[d]].woken
          PROVE  outcome'[d] = node'[held'[d]].result /\ outcome'[d] # "pending"
      <4>1. d # c /\ WaitsSync(d) /\ held'[d] \in Nodes \ {n}
        BY <2>4, <2>5, <3>1 DEF Holds, WaitsSync
      <4> QED
        BY <2>3, <2>4, <3>1, <4>1 DEF Told
    <3> QED
      BY <3>1 DEF Told
  <2> QED
    BY <2>8, <2>9
<1> QED
  BY <1>4, <1>5 DEF GetNode, ReturnEarly, nodeVars

(* What the callers hold stays, and nodes they do not hold are filled for  *)
(* or freed to nobody.                                                     *)
LEMMA RidsKept ==
    ASSUME TypeInv, Rids, Told, UNCHANGED <<calls, outcome>>,
           \A c \in Callers : Holds(c)' => Holds(c) /\ held'[c] = held[c],
           \A c \in Callers : WaitsSync(c)' /\ node'[held'[c]].woken
                => /\ WaitsSync(c) /\ node[held[c]].woken
                   /\ node'[held[c]].result = node[held[c]].result,
           \A n \in Nodes : \/ node'[n].rid = node[n].rid
                            \/ /\ node'[n].rid \in {DriverRid, NoRid}
                               /\ \A c \in Callers : Holds(c)' => held[c] # n
    PROVE  Rids' /\ Told'
<1>1. ASSUME NEW n \in Nodes, NEW c \in Callers, node'[n].rid[1] = c
      PROVE  node'[n].rid = node[n].rid
  BY <1>1, CallersAssumption DEF DriverRid, NoRid
<1>2. \A c \in Callers : Holds(c)' => held[c] \in Nodes /\ node'[held[c]].rid = node[held[c]].rid
  BY DEF TypeInv, Holding, Holds
<1>3. Rids'
  BY <1>1, <1>2 DEF Rids
<1>4. Told'
  <2>1. ASSUME NEW c \in Callers, WaitsSync(c)', node'[held'[c]].woken
        PROVE  outcome'[c] = node'[held'[c]].result /\ outcome'[c] # "pending"
    <3>1. Holds(c)'
      BY <2>1 DEF Holds, WaitsSync
    <3> QED
      BY <2>1, <3>1 DEF Told
  <2> QED
    BY <2>1 DEF Told
<1> QED
  BY <1>3, <1>4

(* A command is completed: whoever waits for it is told the result, and    *)
(* nobody else is.                                                         *)
LEMMA RidsCompleted ==
    ASSUME TypeInv, OwnInv, Rids, Told, NEW n \in Nodes, n \in Queued,
           NEW result \in Outcome \ {"pending"}, Complete(n, result),
           UNCHANGED <<pc, held, call, calls>>
    PROVE  Rids' /\ Told'
<1>1. /\ \A m \in Nodes \ {n} : node'[m] = node[m]
      /\ \/ /\ node[n].cb = "sync"
            /\ node'[n].rid = node[n].rid /\ node'[n].result = result
         \/ node[n].cb # "sync" /\ node'[n].rid = NoRid
  BY CompletedNode
<1>2. \A c \in Callers : (Holds(c)' <=> Holds(c)) /\ (WaitsSync(c)' <=> WaitsSync(c))
  BY DEF Holds, WaitsSync
<1>3. \A c \in Callers : Holds(c) /\ held[c] = n => WaitsSync(c) /\ node[n].cb = "sync"
  BY DEF OwnInv, Fillers, Waiters, Holds, WaitsSync
<1>4. \A c \in Callers : outcome'[c] = IF node[n].rid = <<c, calls[c]>>
                                       THEN result ELSE outcome[c]
  BY DEF Complete
<1>5. Rids'
  <2>1. ASSUME NEW c \in Callers, Holds(c)
        PROVE  held[c] \in Nodes /\ node'[held[c]].rid = node[held[c]].rid
    BY <1>1, <1>3, <2>1 DEF TypeInv, Holding, Holds
  <2>2. ASSUME NEW m \in Nodes, NEW c \in Callers, node'[m].rid[1] = c
        PROVE  node'[m].rid = node[m].rid
    BY <1>1, <2>2, CallersAssumption DEF NoRid
  <2>3. ASSUME NEW c \in Callers, Holds(c)' PROVE node'[held'[c]].rid = <<c, calls'[c]>>
    BY <1>2, <2>1, <2>3 DEF Rids
  <2>4. ASSUME NEW m \in Nodes, NEW c \in Callers, node'[m].rid[1] = c
        PROVE  /\ node'[m].rid[2] <= calls'[c]
               /\ Holds(c)' /\ node'[m].rid[2] = calls'[c] => m = held'[c]
    BY <1>2, <2>2, <2>4 DEF Rids
  <2> QED
    BY <2>3, <2>4 DEF Rids
<1>6. Told'
  <2>1. ASSUME NEW c \in Callers, WaitsSync(c), node'[held[c]].woken
        PROVE  outcome'[c] = node'[held[c]].result /\ outcome'[c] # "pending"
    <3>1. Holds(c) /\ held[c] \in Nodes /\ node[held[c]].rid = <<c, calls[c]>>
      BY <2>1 DEF Holds, WaitsSync, Rids, TypeInv, Holding
    <3>2. CASE held[c] = n
      BY <1>1, <1>3, <1>4, <3>1, <3>2
    <3>3. CASE held[c] # n
      <4>1. node[n].rid # <<c, calls[c]>>
        BY <3>1, <3>3 DEF Rids
      <4> QED
        BY <1>1, <1>4, <2>1, <3>1, <3>3, <4>1 DEF Told
    <3> QED
      BY <3>2, <3>3
  <2> QED
    BY <1>2, <2>1 DEF Told
<1> QED
  BY <1>5, <1>6

LEMMA CallerRids ==
    ASSUME TypeInv, OwnInv, Rids, Told, Signals = {}, NEW c \in Callers, CallerStep(c)
    PROVE  Rids' /\ Told'
<1>1. /\ node \in [Nodes -> NodeRec]
      /\ pc \in [Callers -> {"idle", "filled", "wait", "ret"}]
      /\ held \in [Callers -> Nodes \cup {NoNode}] /\ call \in [Callers -> Call]
  BY DEF TypeInv, TypeOK, QueueTypes, CallerTypes
<1>2. CASE Issue(c)
  BY <1>2, RidsTaken DEF Issue
<1>3. CASE SetPower(c)
  <2>1. CASE ReturnEarly(c, "ok") /\ calls' = [calls EXCEPT ![c] = @ + 1] /\ UNCHANGED call
    BY <1>3, <2>1, RidsRefused DEF ReturnEarly, SetPower, nodeVars
  <2> QED
    BY <1>3, <2>1, RidsTaken DEF SetPower, lbs_set_power_on, lbs_set_power_off
<1>4. CASE Queue(c)
  <2>1. held[c] \in Nodes /\ UNCHANGED <<calls, call, outcome>>
    BY <1>4 DEF Queue, TypeInv, Holding
  <2>2. /\ \A m \in Nodes : node'[m].rid = node[m].rid
        /\ \A m \in Nodes \ {held[c]} : node'[m] = node[m]
        /\ node'[held[c]].woken = FALSE
    BY <1>1, <1>4, <2>1 DEF Queue, NodeRec
  <2>3. \A d \in Callers \ {c} : UNCHANGED <<pc[d], held[d]>>
    BY <1>1, <1>4 DEF Queue
  <2>4. Holds(c) /\ (Holds(c)' => held'[c] = held[c])
    BY <1>1, <1>4 DEF Queue, Holds
  <2>5. \A d \in Callers : Holds(d)' => Holds(d) /\ held'[d] = held[d]
    BY <2>1, <2>3, <2>4 DEF Holds
  <2>6. ASSUME NEW d \in Callers, WaitsSync(d)', node'[held'[d]].woken
        PROVE  /\ WaitsSync(d) /\ node[held[d]].woken
               /\ node'[held[d]].result = node[held[d]].result
    <3>1. Holds(d) /\ held'[d] = held[d]
      BY <2>5, <2>6 DEF Holds, WaitsSync
    <3>2. d # c
      BY <2>2, <2>6, <3>1
    <3>3. WaitsSync(d) /\ held[d] \in Nodes \ {held[c]}
      BY <2>1, <2>3, <2>4, <2>6, <3>1, <3>2, HeldNodes DEF WaitsSync
    <3> QED
      BY <2>2, <2>6, <3>1, <3>3
  <2> QED
    BY <2>1, <2>2, <2>5, <2>6, RidsKept
<1>5. CASE ReturnSync(c)
  <2>1. /\ held[c] \in Nodes /\ Holds(c) /\ ~Holds(c)'
        /\ UNCHANGED <<calls, call, outcome>>
    BY <1>1, <1>5 DEF ReturnSync, TypeInv, Holding, Holds
  <2>2. /\ node'[held[c]].rid = NoRid
        /\ \A m \in Nodes \ {held[c]} : node'[m] = node[m]
    BY <1>1, <1>5, <2>1 DEF ReturnSync, Cleaned, FreeNode
  <2>3. \A d \in Callers \ {c} : UNCHANGED <<pc[d], held[d], call[d]>>
    BY <1>1, <1>5 DEF ReturnSync
  <2>4. ASSUME NEW d \in Callers, Holds(d)'
        PROVE  /\ d # c /\ Holds(d) /\ held'[d] = held[d] /\ held[d] \in Nodes \ {held[c]}
               /\ WaitsSync(d)' => WaitsSync(d)
    <3>1. d # c /\ Holds(d) /\ held'[d] = held[d] /\ (WaitsSync(d)' => WaitsSync(d))
      BY <2>1, <2>3, <2>4 DEF Holds, WaitsSync
    <3> QED
      BY <2>1, <3>1, HeldNodes
  <2>5. ASSUME NEW d \in Callers, WaitsSync(d)', node'[held'[d]].woken
        PROVE  /\ WaitsSync(d) /\ node[held[d]].woken
               /\ node'[held[d]].result = node[held[d]].result
    <3>1. Holds(d)'
      BY <2>5 DEF Holds, WaitsSync
    <3> QED
      BY <2>2, <2>4, <2>5, <3>1
  <2>6. \A m \in Nodes : \/ node'[m].rid = node[m].rid
                        \/ /\ node'[m].rid \in {DriverRid, NoRid}
                           /\ \A d \in Callers : Holds(d)' => held[d] # m
    BY <2>2, <2>4
  <2> QED
    BY <2>1, <2>4, <2>5, <2>6, RidsKept
<1>6. CASE EndWait(c) \/ ReturnLegacy(c)
  <2>1. /\ UNCHANGED <<calls, call, outcome, node>>
        /\ \A d \in Callers \ {c} : UNCHANGED <<pc[d], held[d]>>
        /\ pc'[c] \in {"ret", "idle"}
    BY <1>1, <1>6 DEF EndWait, ReturnLegacy, nodeVars
  <2>2. \A d \in Callers : /\ Holds(d)' => Holds(d) /\ held'[d] = held[d]
                           /\ WaitsSync(d)' => WaitsSync(d) /\ held'[d] = held[d]
    BY <2>1 DEF Holds, WaitsSync
  <2> QED
    BY <2>1, <2>2, RidsKept
<1> QED
  BY <1>2, <1>3, <1>4, <1>5, <1>6 DEF CallerStep

LEMMA MainRids ==
    ASSUME TypeInv, OwnInv, Rids, Told, MainStep
    PROVE  Rids' /\ Told'
<1>1. UNCHANGED <<pc, held, call, calls>>
  BY DEF MainStep, MainCheck, MainWakeUp, MainExit, MainRun, DropResponse,
     PsOrErrorResponse, MainRespWakeup, GoodResponse, MainCallback, MainFinish,
     MainConsume, GiveUp, Requeue, NoTimeout, ClearTimeout, DeauthEvent, PsSleepEvent,
     PsAwakeEvent, HostAwakeEvent, OtherEvent, NextEvent, NoMoreEvents, MainPreSleep,
     MainConfirmDelayed, MainConfirm, MainConfirmSent, SubmitNext, WakeFirmwareFirst,
     IgnoreEnterPs, EnterPowerSave, NothingToExecute, MainTx, callerVars
<1>2. CASE UNCHANGED <<node, outcome>>
  BY <1>1, <1>2, RidsSame
<1>3. CASE Prepares
  <2>1. UNCHANGED outcome
    BY <1>3 DEF Prepares, MainRespWakeup, MainCallback, DeauthEvent, PsAwakeEvent,
       WakeFirmwareFirst, EnterPowerSave, NextEvent, callerVars
  <2>2. CASE UNCHANGED nodeVars
    BY <1>2, <2>1, <2>2 DEF nodeVars
  <2>3. ASSUME NEW cmd \in PsCommand, PrepareNoWait(cmd), ~UNCHANGED nodeVars
        PROVE  Rids' /\ Told'
    <3>1. PICK n \in Nodes :
             /\ n = Head(cmdfreeq) /\ cmdfreeq # <<>>
             /\ node' = [node EXCEPT ![n] = Filled(cmd, NextSeq, "null", DriverRid)]
      BY <2>3, PreparedNode
    <3>2. cmdfreeq \in Seq(Nodes) /\ node \in [Nodes -> NodeRec]
      BY DEF TypeInv, TypeOK, QueueTypes
    <3>3. n \in Free
      BY <3>1, <3>2, TailSet DEF OwnInv, ListsApart, Free
    <3>4. node'[n].rid = DriverRid /\ \A m \in Nodes \ {n} : node'[m] = node[m]
      BY <3>1, <3>2 DEF Filled
    <3>5. \A d \in Callers : Holds(d) => held[d] \in Nodes \ {n}
      BY <3>3, HeldNodes
    <3>6. \A d \in Callers : (Holds(d)' <=> Holds(d)) /\ (WaitsSync(d)' <=> WaitsSync(d))
      BY <1>1 DEF Holds, WaitsSync
    <3>7. ASSUME NEW d \in Callers, WaitsSync(d)', node'[held'[d]].woken
          PROVE  /\ WaitsSync(d) /\ node[held[d]].woken
                 /\ node'[held[d]].result = node[held[d]].result
      <4>1. Holds(d)
        BY <3>6, <3>7 DEF Holds, WaitsSync
      <4> QED
        BY <1>1, <3>4, <3>5, <3>6, <3>7, <4>1
    <3> QED
      BY <1>1, <2>1, <3>4, <3>5, <3>6, <3>7, RidsKept
  <2> QED
    BY <1>3, <2>2, <2>3, PreparesOrNot DEF PsCommand
<1>4. CASE Completes
  <2>1. CASE UNCHANGED <<nodeVars, outcome>>
    BY <1>2, <2>1 DEF nodeVars
  <2>2. CASE \E n \in Queued, result \in Outcome \ {"pending"} :
                n \in Nodes /\ Complete(n, result)
    BY <1>1, <2>2, RidsCompleted
  <2> QED
    BY <1>4, <2>1, <2>2, CompletesQueued
<1>5. CASE SubmitNext
  <2> DEFINE n == Head(cmdpendingq)
  <2>1. node \in [Nodes -> NodeRec] /\ UNCHANGED outcome
    BY <1>5 DEF TypeInv, TypeOK, QueueTypes, SubmitNext, callerVars
  <2>2. \A m \in Nodes : /\ node'[m].rid = node[m].rid /\ node'[m].woken = node[m].woken
                         /\ node'[m].result = node[m].result
    BY <1>5, <2>1 DEF SubmitNext, NodeRec
  <2>3. \A d \in Callers : (Holds(d)' <=> Holds(d)) /\ (WaitsSync(d)' <=> WaitsSync(d))
    BY <1>1 DEF Holds, WaitsSync
  <2>4. \A d \in Callers : WaitsSync(d) => held[d] \in Nodes
    BY HeldNodes DEF Holds, WaitsSync
  <2> QED
    BY <1>1, <2>1, <2>2, <2>3, <2>4, RidsKept
<1>6. CASE Requeue
  BY <1>2, <1>6 DEF Requeue, callerVars
<1>7. CASE \/ MainCheck \/ MainWakeUp \/ MainExit \/ MainRun \/ DropResponse
           \/ GoodResponse \/ MainConsume \/ NoTimeout \/ ClearTimeout
           \/ PsSleepEvent \/ HostAwakeEvent \/ OtherEvent \/ NoMoreEvents
           \/ MainPreSleep \/ MainConfirmDelayed \/ MainConfirm \/ MainConfirmSent
           \/ NothingToExecute \/ MainTx
  <2>1. UNCHANGED <<node, outcome>>
    BY <1>7 DEF MainCheck, MainWakeUp, MainExit, MainRun, DropResponse, GoodResponse,
       MainConsume, NoTimeout, ClearTimeout, PsSleepEvent, HostAwakeEvent, OtherEvent,
       NoMoreEvents, NextEvent, MainPreSleep, MainConfirmDelayed, MainConfirm,
       MainConfirmSent, NothingToExecute, MainTx, callerVars, nodeVars
  <2> QED
    BY <1>2, <2>1
<1> QED
  BY <1>3, <1>4, <1>5, <1>6, <1>7 DEF MainStep, Prepares, Completes

LEMMA StepRids ==
    ASSUME Signals = {}, ~Hotplug, TypeInv, OwnInv, Rids, Told, [Next]_vars
    PROVE  Rids' /\ Told'
<1>1. CASE UNCHANGED vars
  BY <1>1, RidsSame DEF vars, nodeVars, callerVars
<1>2. CASE TimerExpires \/ TimerHandler \/ CardStep \/ TxStep
  <2>1. UNCHANGED <<calls, outcome>>
    BY <1>2 DEF TimerExpires, TimerHandler, CardStep, WritePacket, DropPacket,
       DownloadInterrupt, ResponseInterrupt, LoseResponse, EventInterrupt,
       hostElsewhere, TxStep, XmitDropped, XmitBusy, XmitBuild, XmitLineUp,
       txElsewhere, callerVars
  <2> QED
    BY <1>2, <2>1, OthersLeave, RidsSame DEF nodeVars
<1>3. CASE Running
  BY <1>2, <1>3, CallerRids, MainRids, NoRemoval DEF Running
<1> QED
  BY <1>1, <1>3 DEF Next, AllReturned, Halted

(* Only the return of __lbs_cmd ends a synchronous wait.                   *)
LEMMA OnlyReturnSync ==
    ASSUME TypeInv, OwnInv, ~Hotplug, [Next]_vars, NEW c \in Callers,
           WaitsSync(c), pc'[c] = "idle"
    PROVE  ReturnSync(c)
<1>1. pc \in [Callers -> {"idle", "filled", "wait", "ret"}] /\ pc[c] = "wait"
  BY DEF TypeInv, TypeOK, CallerTypes, WaitsSync
<1>2. CASE UNCHANGED pc
  BY <1>1, <1>2
<1>3. CASE \E d \in Callers : CallerStep(d)
  <2>1. PICK d \in Callers : CallerStep(d)
    BY <1>3
  <2>2. d = c
    BY <1>1, <2>1 DEF CallerStep, Issue, SetPower, lbs_set_power_on, lbs_set_power_off,
       GetNode, ReturnEarly, Queue, ReturnSync, EndWait, ReturnLegacy
  <2> QED
    BY <1>1, <2>1, <2>2 DEF CallerStep, Issue, SetPower, Queue, EndWait,
       ReturnLegacy, WaitsSync
<1>4. CASE MainStep
  BY <1>2, <1>4 DEF MainStep, MainCheck, MainWakeUp, MainExit, MainRun, DropResponse,
     PsOrErrorResponse, MainRespWakeup, GoodResponse, MainCallback, MainFinish,
     MainConsume, GiveUp, Requeue, NoTimeout, ClearTimeout, DeauthEvent, PsSleepEvent,
     PsAwakeEvent, HostAwakeEvent, OtherEvent, NextEvent, NoMoreEvents, MainPreSleep,
     MainConfirmDelayed, MainConfirm, MainConfirmSent, SubmitNext, WakeFirmwareFirst,
     IgnoreEnterPs, EnterPowerSave, NothingToExecute, MainTx, callerVars
<1>5. CASE UNCHANGED vars
  BY <1>2, <1>5 DEF vars, callerVars
<1>6. CASE TimerExpires \/ TimerHandler \/ CardStep \/ TxStep
  BY <1>2, <1>6, OthersLeave
<1>7. CASE Running
  BY <1>3, <1>4, <1>6, <1>7, NoRemoval DEF Running
<1> QED
  BY <1>5, <1>7 DEF Next, AllReturned, Halted

(* __lbs_cmd returns what its own command completed with, and not before   *)
(* (cmd.c), for any number of nodes, callers and calls: whatever times     *)
(* out, is retried, answered late or lost, and though the nodes are used   *)
(* again and again, as long as no signal ends the wait and the card stays. *)
THEOREM OwnResultReturned ==
    ASSUME Signals = {}, ~Hotplug
    PROVE  Spec => SyncReturnsOwnResult
<1>1. Init => Rids /\ Told
  BY CallersAssumption DEF Init, PrivInit, Rids, Told, Holds, WaitsSync, FreeNode, NoRid
<1>2. TypeInv /\ OwnInv /\ Rids /\ Told /\ [Next]_vars => Rids' /\ Told'
  BY StepRids
<1>3. TypeInv /\ OwnInv /\ [Next]_vars => OwnInv'
  BY StepOwns
<1>4. TypeInv /\ OwnInv /\ Told /\ [Next]_vars
      => \A c \in Callers : pc[c] = "wait" /\ call[c].api = "sync" /\ pc'[c] = "idle"
                           => outcome[c] # "pending" /\ ret'[c] = outcome[c]
  <2> SUFFICES ASSUME TypeInv, OwnInv, Told, [Next]_vars, NEW c \in Callers,
                      pc[c] = "wait", call[c].api = "sync", pc'[c] = "idle"
               PROVE  outcome[c] # "pending" /\ ret'[c] = outcome[c]
    OBVIOUS
  <2>1. ReturnSync(c) /\ WaitsSync(c)
    BY OnlyReturnSync DEF WaitsSync
  <2>2. node[held[c]].woken /\ ret'[c] = node[held[c]].result
    BY <2>1 DEF ReturnSync, TypeInv, TypeOK, CallerTypes
  <2> QED
    BY <2>1, <2>2 DEF Told
<1> QED
  BY InitTypes, StepTypes, InitOwns, <1>1, <1>2, <1>3, <1>4, PTL
  DEF Spec, SyncReturnsOwnResult
-----------------------------------------------------------------------------
(* The service.  Every caller uses __lbs_cmd, and not for PS_MODE: that is *)
(* only sent by lbs_prepare_and_send_command.                              *)
OnlySync ==
    \A c \in Callers : \A i \in DOMAIN Program[c] : \A k \in Program[c][i] :
        k.api = "sync" /\ k.cmd \notin PsCommand

(* Then so is every node with a request of a caller.                       *)
ClientNodes ==
    /\ \A n \in Nodes : ClientOf(n) \in Callers
                        => node[n].cb = "sync" /\ node[n].cmd \notin PsCommand
    /\ \A c \in Callers : pc[c] # "idle" => /\ pc[c] # "ret" /\ call[c].api = "sync"
                                            /\ call[c].cmd \notin PsCommand

(* The response that is being served is not overwritten.                   *)
AnswerKept ==
    /\ main \in {"resp"} \cup ServingLabel => resp[main_idx] # NoResp
    /\ main \in ServingLabel => resp[main_idx].result = "ok"

ClientInv == Rids /\ ClientNodes /\ AnswerKept
-----------------------------------------------------------------------------
(* A completed node keeps its request if its caller is to free it.         *)
LEMMA CompletedFields ==
    ASSUME TypeInv, NEW n \in Nodes, NEW result, Complete(n, result)
    PROVE  /\ \A m \in Nodes \ {n} : node'[m] = node[m]
           /\ \/ /\ node[n].cb = "sync"
                 /\ node'[n] = [node[n] EXCEPT !.result = result, !.woken = TRUE]
              \/ node[n].cb # "sync" /\ node'[n].rid = NoRid
<1>1. node \in [Nodes -> NodeRec]
  BY DEF TypeInv, TypeOK, QueueTypes
<1>2. /\ Done(n, result)[n] = [node[n] EXCEPT !.result = result, !.woken = TRUE]
      /\ \A m \in Nodes \ {n} : Done(n, result)[m] = node[m]
      /\ DOMAIN Done(n, result) = Nodes
  BY <1>1 DEF Done
<1>3. CASE FreedByCaller(n) /\ node' = Done(n, result)
  BY <1>2, <1>3 DEF FreedByCaller
<1>4. CASE ~FreedByCaller(n) /\ node' = Cleaned(Done(n, result), n)
  BY <1>2, <1>4 DEF FreedByCaller, Cleaned, FreeNode
<1> QED
  BY <1>3, <1>4 DEF Complete

LEMMA ClientNodesKept ==
    ASSUME ClientNodes, UNCHANGED <<pc, call>>,
           \A n \in Nodes : \/ /\ node'[n].rid = node[n].rid /\ node'[n].cb = node[n].cb
                               /\ node'[n].cmd = node[n].cmd
                            \/ node'[n].rid \in {DriverRid, NoRid}
    PROVE  ClientNodes'
  BY CallersAssumption DEF ClientNodes, ClientOf, DriverRid, NoRid

LEMMA MainClientNodes ==
    ASSUME TypeInv, ClientNodes, MainStep
    PROVE  ClientNodes'
<1>1. UNCHANGED <<pc, call>>
  BY DEF MainStep, MainCheck, MainWakeUp, MainExit, MainRun, DropResponse,
     PsOrErrorResponse, MainRespWakeup, GoodResponse, MainCallback, MainFinish,
     MainConsume, GiveUp, Requeue, NoTimeout, ClearTimeout, DeauthEvent, PsSleepEvent,
     PsAwakeEvent, HostAwakeEvent, OtherEvent, NextEvent, NoMoreEvents, MainPreSleep,
     MainConfirmDelayed, MainConfirm, MainConfirmSent, SubmitNext, WakeFirmwareFirst,
     IgnoreEnterPs, EnterPowerSave, NothingToExecute, MainTx, callerVars
<1>2. node \in [Nodes -> NodeRec]
  BY DEF TypeInv, TypeOK, QueueTypes
<1>3. CASE UNCHANGED node
  BY <1>1, <1>3, ClientNodesKept
<1>4. CASE Prepares
  <2>1. ASSUME NEW cmd \in PsCommand, PrepareNoWait(cmd) PROVE ClientNodes'
    <3>1. CASE UNCHANGED <<nodeVars, seqnum>>
      BY <1>3, <3>1 DEF nodeVars
    <3>2. ASSUME NEW n \in Nodes,
                 node' = [node EXCEPT ![n] = Filled(cmd, NextSeq, "null", DriverRid)]
          PROVE  ClientNodes'
      BY <1>1, <1>2, <3>2, ClientNodesKept DEF Filled
    <3> QED
      BY <2>1, <3>1, <3>2, PreparedNode
  <2> QED
    BY <1>3, <1>4, <2>1, PreparesOrNot DEF PsCommand, nodeVars
<1>5. CASE Completes
  <2>1. ASSUME NEW n \in Nodes, NEW result, Complete(n, result) PROVE ClientNodes'
    <3>1. node[n] \in NodeRec
      BY <1>2
    <3>2. [node[n] EXCEPT !.result = result, !.woken = TRUE].rid = node[n].rid
          /\ [node[n] EXCEPT !.result = result, !.woken = TRUE].cb = node[n].cb
          /\ [node[n] EXCEPT !.result = result, !.woken = TRUE].cmd = node[n].cmd
      BY <3>1 DEF NodeRec
    <3>3. /\ \A m \in Nodes \ {n} : node'[m] = node[m]
          /\ \/ /\ node'[n].rid = node[n].rid /\ node'[n].cb = node[n].cb
                /\ node'[n].cmd = node[n].cmd
             \/ node'[n].rid = NoRid
      <4>1. CASE node'[n] = [node[n] EXCEPT !.result = result, !.woken = TRUE]
        BY <2>1, <3>2, <4>1, CompletedFields
      <4> QED
        BY <2>1, <4>1, CompletedFields
    <3> QED
      BY <1>1, <3>3, ClientNodesKept
  <2> QED
    BY <1>3, <1>5, <2>1, CompletesQueued DEF nodeVars
<1>6. CASE SubmitNext
  <2>1. \A m \in Nodes : /\ node'[m].rid = node[m].rid /\ node'[m].cb = node[m].cb
                         /\ node'[m].cmd = node[m].cmd
    BY <1>2, <1>6 DEF SubmitNext, NodeRec
  <2> QED
    BY <1>1, <2>1, ClientNodesKept
<1>7. CASE Requeue
  BY <1>3, <1>7 DEF Requeue
<1>8. CASE UNCHANGED <<nodeVars, cur_cmd, removeVars, pc, held, call>>
  BY <1>3, <1>8 DEF nodeVars
<1> QED
  BY <1>4, <1>5, <1>6, <1>7, <1>8, MainLeaves DEF MainStep, Prepares, Completes

LEMMA CallerClientNodes ==
    ASSUME OnlySync, Signals = {}, TypeInv, ClientNodes, NEW c \in Callers, CallerStep(c)
    PROVE  ClientNodes'
<1>1. /\ node \in [Nodes -> NodeRec] /\ cmdfreeq \in Seq(Nodes)
      /\ pc \in [Callers -> {"idle", "filled", "wait", "ret"}]
      /\ held \in [Callers -> Nodes \cup {NoNode}] /\ call \in [Callers -> Call]
      /\ calls \in [Callers -> Nat] /\ Program[c] \in Seq(SUBSET CallOrPs)
  BY ProgramAssumption DEF TypeInv, TypeOK, QueueTypes, CallerTypes
<1>2. CASE Issue(c)
  <2>1. PICK k \in Program[c][calls[c] + 1] : GetNode(c, k.api, k.cmd)
    BY <1>2 DEF Issue
  <2>2. calls[c] + 1 \in DOMAIN Program[c]
    BY <1>1, <1>2, LenProperties DEF Issue
  <2>3. k.api = "sync" /\ k.cmd \notin PsCommand
    BY <2>1, <2>2 DEF OnlySync
  <2>4. call' = [call EXCEPT ![c] = [api |-> "sync", cmd |-> k.cmd]] /\ pc[c] = "idle"
    BY <1>2, <2>1, <2>3 DEF GetNode, Issue
  <2>5. CASE UNCHANGED <<nodeVars, pc>>
    BY <1>1, <2>4, <2>5 DEF ClientNodes, ClientOf, nodeVars
  <2>6. CASE /\ cmdfreeq # <<>> /\ pc' = [pc EXCEPT ![c] = "filled"]
             /\ node' = [node EXCEPT ![Head(cmdfreeq)] =
                           [Filled(k.cmd, NextSeq, Callback(k.api), <<c, calls[c] + 1>>)
                               EXCEPT !.woken = node[Head(cmdfreeq)].woken]]
    <3>1. Head(cmdfreeq) \in Nodes
      BY <1>1, <2>6, HeadTailProperties
    <3>2. /\ node'[Head(cmdfreeq)].cb = "sync" /\ node'[Head(cmdfreeq)].cmd = k.cmd
          /\ \A m \in Nodes \ {Head(cmdfreeq)} : node'[m] = node[m]
      BY <1>1, <2>3, <2>6, <3>1 DEF Filled, Callback
    <3>3. \A n \in Nodes : ClientOf(n)' \in Callers
              => node'[n].cb = "sync" /\ node'[n].cmd \notin PsCommand
      BY <2>3, <3>2 DEF ClientNodes, ClientOf
    <3>4. \A d \in Callers : pc'[d] # "idle"
              => pc'[d] # "ret" /\ call'[d].api = "sync" /\ call'[d].cmd \notin PsCommand
      BY <1>1, <2>3, <2>4, <2>6 DEF ClientNodes
    <3> QED
      BY <3>3, <3>4 DEF ClientNodes
  <2> QED
    BY <2>1, <2>5, <2>6 DEF GetNode, ReturnEarly
<1>3. CASE SetPower(c)
  <2>1. PICK k \in Program[c][calls[c] + 1] : k.api \in PowerOp
    BY <1>3 DEF SetPower, PowerOp
  <2>2. calls[c] + 1 \in DOMAIN Program[c]
    BY <1>1, <1>3, LenProperties DEF SetPower
  <2> QED
    BY <2>1, <2>2 DEF OnlySync, PowerOp
<1>4. CASE Queue(c)
  <2>1. held[c] \in Nodes /\ call[c].api = "sync" /\ UNCHANGED call
    BY <1>4 DEF Queue, TypeInv, Holding, ClientNodes
  <2>2. \A n \in Nodes : /\ node'[n].rid = node[n].rid /\ node'[n].cb = node[n].cb
                         /\ node'[n].cmd = node[n].cmd
    BY <1>1, <1>4, <2>1 DEF Queue, NodeRec
  <2>3. pc' = [pc EXCEPT ![c] = "wait"] /\ pc[c] = "filled"
    BY <1>4, <2>1 DEF Queue
  <2>4. \A d \in Callers : pc'[d] # "idle"
            => pc'[d] # "ret" /\ call'[d].api = "sync" /\ call'[d].cmd \notin PsCommand
    BY <1>1, <2>1, <2>3 DEF ClientNodes
  <2> QED
    BY <2>2, <2>4 DEF ClientNodes, ClientOf
<1>5. CASE ReturnSync(c)
  <2>1. /\ held[c] \in Nodes /\ UNCHANGED call /\ pc' = [pc EXCEPT ![c] = "idle"]
    BY <1>5 DEF ReturnSync, TypeInv, Holding
  <2>2. \A n \in Nodes : node'[n] = node[n] \/ node'[n].rid = NoRid
    BY <1>1, <1>5, <2>1 DEF ReturnSync, Cleaned, FreeNode
  <2>3. \A d \in Callers : pc'[d] # "idle"
            => pc'[d] # "ret" /\ call'[d].api = "sync" /\ call'[d].cmd \notin PsCommand
    BY <1>1, <2>1 DEF ClientNodes
  <2> QED
    BY <2>2, <2>3, CallersAssumption DEF ClientNodes, ClientOf, NoRid
<1>6. CASE EndWait(c) \/ ReturnLegacy(c)
  BY <1>6 DEF EndWait, ReturnLegacy, ClientNodes
<1> QED
  BY <1>2, <1>3, <1>4, <1>5, <1>6 DEF CallerStep

(* The answer being served: only MainRun takes one up, and the interrupt   *)
(* handler fills the other buffer.                                         *)
AnswerVars == <<main, main_idx, resp>>

LEMMA AnswerSame == ASSUME AnswerKept, UNCHANGED AnswerVars PROVE AnswerKept'
  BY DEF AnswerKept, AnswerVars

LEMMA AnswerForgotten ==
    ASSUME main' \notin {"resp"} \cup ServingLabel PROVE AnswerKept'
  BY DEF AnswerKept

LEMMA MainAnswer ==
    ASSUME TypeInv, AnswerKept, MainStep PROVE AnswerKept'
<1>1. main_ret \in {"check", "events", "exec"}
  BY DEF TypeInv, TypeOK, MainTypes
<1>2. CASE MainCheck \/ MainWakeUp \/ MainExit
  BY <1>2, AnswerForgotten DEF MainCheck, MainWakeUp, MainExit, Goto, ServingLabel
<1>3. CASE MainRun
  <2>1. main' = "resp" => main_idx' = resp_idx /\ resp[resp_idx] # NoResp
    BY <1>3 DEF MainRun
  <2>2. main' \notin ServingLabel /\ resp' = resp
    BY <1>3 DEF MainRun, ServingLabel, respVars
  <2> QED
    BY <2>1, <2>2 DEF AnswerKept, ServingLabel
<1>4. CASE DropResponse \/ MainFinish \/ MainConsume \/ GiveUp \/ Requeue \/ NoTimeout
           \/ ClearTimeout
  BY <1>4, AnswerForgotten DEF DropResponse, MainFinish, MainConsume, GiveUp, Requeue,
     NoTimeout, ClearTimeout, Goto, ServingLabel
<1>5. CASE PsOrErrorResponse
  <2>1. CASE main' = "consume"
    BY <2>1, AnswerForgotten DEF ServingLabel
  <2>2. CASE main' # "consume"
    <3>1. /\ main = "resp" /\ main' = "resp_wakeup" /\ resp[main_idx].result = "ok"
          /\ main_idx' = main_idx /\ resp' = resp
      BY <1>5, <2>2 DEF PsOrErrorResponse, AnswerArrived, Entered, Goto, respVars
    <3> QED
      BY <3>1 DEF AnswerKept
  <2> QED
    BY <2>1, <2>2
<1>6. CASE GoodResponse
  <2>1. /\ main = "resp" /\ main' = "callback" /\ resp[main_idx].result = "ok"
        /\ main_idx' = main_idx /\ resp' = resp
    BY <1>6 DEF GoodResponse, AnswerArrived, Goto, respVars
  <2> QED
    BY <2>1 DEF AnswerKept
<1>7. CASE MainRespWakeup \/ MainCallback
  <2>1. /\ main \in ServingLabel /\ main' = "finish" /\ main_idx' = main_idx /\ resp' = resp
    BY <1>7 DEF MainRespWakeup, MainCallback, Goto, respVars, ServingLabel
  <2> QED
    BY <2>1 DEF AnswerKept
<1>8. CASE DeauthEvent \/ PsAwakeEvent \/ HostAwakeEvent \/ OtherEvent
  BY <1>8, AnswerSame DEF DeauthEvent, PsAwakeEvent, HostAwakeEvent, OtherEvent, NextEvent,
     mainVars, respVars, AnswerVars
<1>9. CASE PsSleepEvent \/ NoMoreEvents \/ MainPreSleep
  BY <1>9, AnswerForgotten DEF PsSleepEvent, NextEvent, NoMoreEvents, MainPreSleep, Goto,
     ServingLabel
<1>10. CASE MainConfirmDelayed \/ MainConfirm \/ MainConfirmSent
  BY <1>1, <1>10, AnswerForgotten DEF MainConfirmDelayed, MainConfirm, MainConfirmSent,
     ServingLabel
<1>11. CASE SubmitNext \/ WakeFirmwareFirst \/ IgnoreEnterPs \/ EnterPowerSave
            \/ NothingToExecute \/ MainTx
  BY <1>11, AnswerForgotten DEF SubmitNext, WakeFirmwareFirst, IgnoreEnterPs,
     EnterPowerSave, NothingToExecute, MainTx, Goto, ServingLabel
<1> QED
  BY <1>2, <1>3, <1>4, <1>5, <1>6, <1>7, <1>8, <1>9, <1>10, <1>11 DEF MainStep

LEMMA CardAnswer ==
    ASSUME TypeInv, AnswerKept, CardStep PROVE AnswerKept'
<1>1. main' = main /\ main_idx' = main_idx /\ main_idx \in {0, 1}
  BY DEF CardStep, WritePacket, DropPacket, DownloadInterrupt, ResponseInterrupt,
     LoseResponse, EventInterrupt, hostElsewhere, mainVars, TypeInv, TypeOK, MainTypes
<1>2. CASE UNCHANGED resp
  BY <1>1, <1>2, AnswerSame DEF AnswerVars
<1>3. CASE ResponseInterrupt /\ resp[1 - resp_idx] = NoResp
  <2>1. resp \in [{0, 1} -> Response] /\ resp_idx \in {0, 1}
    BY DEF TypeInv, TypeOK, ReplyTypes
  <2>2. \A i \in {0, 1} : resp[i] # NoResp => resp'[i] = resp[i]
    BY <1>3, <2>1 DEF ResponseInterrupt
  <2> QED
    BY <1>1, <2>2 DEF AnswerKept
<1> QED
  BY <1>2, <1>3 DEF CardStep, WritePacket, DropPacket, DownloadInterrupt,
     ResponseInterrupt, LoseResponse, EventInterrupt, respVars

LEMMA StepService ==
    ASSUME OnlySync, Signals = {}, ~Hotplug, TypeInv, OwnInv, Told, ClientInv, [Next]_vars
    PROVE  ClientInv'
<1>1. Rids'
  BY StepRids DEF ClientInv
<1>2. CASE UNCHANGED vars
  <2>1. UNCHANGED <<node, pc, call>> /\ UNCHANGED AnswerVars
    BY <1>2 DEF vars, nodeVars, callerVars, mainVars, respVars, AnswerVars
  <2>2. ClientNodes'
    BY <2>1 DEF ClientInv, ClientNodes, ClientOf
  <2> QED
    BY <1>1, <2>1, <2>2, AnswerSame DEF ClientInv
<1>3. CASE MainStep
  BY <1>1, <1>3, MainClientNodes, MainAnswer DEF ClientInv
<1>4. CASE CardStep
  <2>1. ClientNodes'
    BY <1>4, OthersLeave DEF ClientInv, ClientNodes, ClientOf, nodeVars
  <2> QED
    BY <1>1, <1>4, <2>1, CardAnswer DEF ClientInv
<1>5. CASE TimerExpires \/ TimerHandler \/ TxStep
  <2>1. ClientNodes'
    BY <1>5, OthersLeave DEF ClientInv, ClientNodes, ClientOf, nodeVars
  <2>2. UNCHANGED AnswerVars
    BY <1>5 DEF TimerExpires, TimerHandler, TxStep, XmitDropped, XmitBusy, XmitBuild,
       XmitLineUp, txElsewhere, mainVars, respVars, AnswerVars
  <2> QED
    BY <1>1, <2>1, <2>2, AnswerSame DEF ClientInv
<1>6. ASSUME NEW c \in Callers, CallerStep(c) PROVE ClientInv'
  <2>1. ClientNodes'
    BY <1>6, CallerClientNodes DEF ClientInv
  <2>2. UNCHANGED AnswerVars
    BY <1>6 DEF CallerStep, Issue, SetPower, Queue, ReturnSync, EndWait, ReturnLegacy,
       elsewhere, mainVars, respVars, AnswerVars
  <2> QED
    BY <1>1, <2>1, <2>2, AnswerSame DEF ClientInv
<1> QED
  BY <1>2, <1>3, <1>4, <1>5, <1>6, NoRemoval DEF Next, Running, AllReturned, Halted

LEMMA InitService == Init => ClientInv
<1> SUFFICES ASSUME Init PROVE ClientInv
  OBVIOUS
<1>1. \A c \in Callers : pc[c] = "idle" /\ \A n \in Nodes : node[n].rid = NoRid
  BY DEF Init, PrivInit, FreeNode
<1>2. Rids /\ ClientNodes
  BY <1>1, CallersAssumption DEF Rids, ClientNodes, ClientOf, Holds, NoRid
<1>3. AnswerKept
  BY DEF Init, PrivInit, AnswerKept, ServingLabel
<1> QED
  BY <1>2, <1>3 DEF ClientInv
-----------------------------------------------------------------------------
(* A request is put last, ...                                              *)
LEMMA ClientLast ==
    ASSUME NEW n \in Nat, NEW s, NEW t, DOMAIN s = 1..n, DOMAIN t = 1..(n + 1),
           \A i \in 1..n : t[i] = s[i]
    PROVE  /\ ClientsOn(t) = ClientsOn(s) \cup (Callers \cap {t[n + 1]})
           /\ OrderOf(t) = OrderOf(s) \cup (ClientsOn(s) \X (Callers \cap {t[n + 1]}))
<1>1. \A i : i \in DOMAIN t <=> i \in DOMAIN s \/ i = n + 1
  OBVIOUS
<1>2. ClientsOn(t) = ClientsOn(s) \cup (Callers \cap {t[n + 1]})
  BY <1>1 DEF ClientsOn, ToSet
<1>3. ASSUME NEW c \in Callers, NEW d \in Callers
      PROVE  <<c, d>> \in OrderOf(t)
             <=> <<c, d>> \in OrderOf(s) \/ (c \in ClientsOn(s) /\ d = t[n + 1])
  <2>1. ASSUME NEW i \in DOMAIN t, NEW j \in DOMAIN t, i < j, t[i] = c, t[j] = d
        PROVE  <<c, d>> \in OrderOf(s) \/ (c \in ClientsOn(s) /\ d = t[n + 1])
    <3>1. i \in DOMAIN s /\ s[i] = c
      BY <2>1
    <3>2. CASE j = n + 1
      BY <2>1, <3>1, <3>2 DEF ClientsOn, ToSet
    <3>3. CASE j \in DOMAIN s
      BY <2>1, <3>1, <3>3 DEF OrderOf
    <3> QED
      BY <1>1, <3>2, <3>3
  <2>2. ASSUME <<c, d>> \in OrderOf(s) PROVE <<c, d>> \in OrderOf(t)
    <3>1. PICK i \in DOMAIN s, j \in DOMAIN s : i < j /\ s[i] = c /\ s[j] = d
      BY <2>2 DEF OrderOf
    <3>2. i \in DOMAIN t /\ j \in DOMAIN t /\ t[i] = c /\ t[j] = d
      BY <1>1, <3>1
    <3> QED
      BY <3>1, <3>2 DEF OrderOf
  <2>3. ASSUME c \in ClientsOn(s), d = t[n + 1] PROVE <<c, d>> \in OrderOf(t)
    <3>1. PICK i \in DOMAIN s : s[i] = c
      BY <2>3 DEF ClientsOn, ToSet
    <3>2. i \in DOMAIN t /\ n + 1 \in DOMAIN t /\ t[i] = c /\ i < n + 1
      BY <3>1
    <3> QED
      BY <2>3, <3>2 DEF OrderOf
  <2> QED
    BY <2>1, <2>2, <2>3 DEF OrderOf
<1>4. OrderOf(s) \subseteq Callers \X Callers /\ OrderOf(t) \subseteq Callers \X Callers
      /\ ClientsOn(s) \subseteq Callers
  BY DEF OrderOf, ClientsOn
<1> QED
  BY <1>2, <1>3, <1>4

(* ... or first.                                                           *)
LEMMA ClientFirst ==
    ASSUME NEW n \in Nat, NEW s, NEW t, DOMAIN s = 1..n, DOMAIN t = 1..(n + 1),
           \A i \in 1..n : t[i + 1] = s[i]
    PROVE  /\ ClientsOn(t) = ClientsOn(s) \cup (Callers \cap {t[1]})
           /\ OrderOf(t) = OrderOf(s) \cup ((Callers \cap {t[1]}) \X ClientsOn(s))
<1>1. /\ 1 \in DOMAIN t
      /\ \A i \in DOMAIN t : i = 1 \/ (i - 1 \in DOMAIN s /\ s[i - 1] = t[i])
      /\ \A i \in DOMAIN s : i + 1 \in DOMAIN t /\ t[i + 1] = s[i]
  OBVIOUS
<1>2. ClientsOn(t) = ClientsOn(s) \cup (Callers \cap {t[1]})
  <2>1. ASSUME NEW c PROVE c \in ToSet(t) <=> c \in ToSet(s) \/ c = t[1]
    BY <1>1 DEF ToSet
  <2> QED
    BY <2>1 DEF ClientsOn
<1>3. ASSUME NEW c \in Callers, NEW d \in Callers
      PROVE  <<c, d>> \in OrderOf(t)
             <=> <<c, d>> \in OrderOf(s) \/ (c = t[1] /\ d \in ClientsOn(s))
  <2>1. ASSUME NEW i \in DOMAIN t, NEW j \in DOMAIN t, i < j, t[i] = c, t[j] = d
        PROVE  <<c, d>> \in OrderOf(s) \/ (c = t[1] /\ d \in ClientsOn(s))
    <3>1. j - 1 \in DOMAIN s /\ s[j - 1] = d
      BY <2>1
    <3>2. CASE i = 1
      BY <2>1, <3>1, <3>2 DEF ClientsOn, ToSet
    <3>3. CASE i - 1 \in DOMAIN s /\ s[i - 1] = t[i]
      <4>1. i - 1 < j - 1
        BY <2>1
      <4> QED
        BY <2>1, <3>1, <3>3, <4>1 DEF OrderOf
    <3> QED
      BY <1>1, <3>2, <3>3
  <2>2. ASSUME <<c, d>> \in OrderOf(s) PROVE <<c, d>> \in OrderOf(t)
    <3>1. PICK i \in DOMAIN s, j \in DOMAIN s : i < j /\ s[i] = c /\ s[j] = d
      BY <2>2 DEF OrderOf
    <3>2. i + 1 \in DOMAIN t /\ j + 1 \in DOMAIN t /\ t[i + 1] = c /\ t[j + 1] = d
      BY <1>1, <3>1
    <3>3. i + 1 < j + 1
      BY <3>1
    <3> QED
      BY <3>2, <3>3 DEF OrderOf
  <2>3. ASSUME c = t[1], d \in ClientsOn(s) PROVE <<c, d>> \in OrderOf(t)
    <3>1. PICK i \in DOMAIN s : s[i] = d
      BY <2>3 DEF ClientsOn, ToSet
    <3>2. i + 1 \in DOMAIN t /\ t[i + 1] = d /\ 1 < i + 1
      BY <3>1
    <3> QED
      BY <1>1, <2>3, <3>2 DEF OrderOf
  <2> QED
    BY <2>1, <2>2, <2>3 DEF OrderOf
<1>4. OrderOf(s) \subseteq Callers \X Callers /\ OrderOf(t) \subseteq Callers \X Callers
      /\ ClientsOn(s) \subseteq Callers
  BY DEF OrderOf, ClientsOn
<1> QED
  BY <1>2, <1>3, <1>4
-----------------------------------------------------------------------------
(* The requests on the pending list when a node is queued or taken.        *)
LEMMA QueueSame ==
    ASSUME TypeInv, UNCHANGED cmdpendingq, \A n \in Pending : ClientOf(n)' = ClientOf(n)
    PROVE  ServiceQueue' = ServiceQueue /\ ServiceBefore' = ServiceBefore
<1>1. \A i \in DOMAIN cmdpendingq : ClientOf(cmdpendingq[i])' = ClientOf(cmdpendingq[i])
  BY DEF Pending, ToSet, ClientOf
<1>2. ClientsQueued' = ClientsQueued
  BY <1>1 DEF ClientsQueued
<1> QED
  BY <1>2 DEF ServiceQueue, ServiceBefore

LEMMA QueueLast ==
    ASSUME TypeInv, NEW n \in Nodes, cmdpendingq' = Append(cmdpendingq, n),
           \A m \in Pending : ClientOf(m)' = ClientOf(m)
    PROVE  LET new == Callers \cap {ClientOf(n)'} IN
           /\ ServiceQueue' = ServiceQueue \cup new
           /\ ServiceBefore' = ServiceBefore \cup (ServiceQueue \X new)
<1>1. /\ Len(cmdpendingq) \in Nat /\ DOMAIN cmdpendingq = 1..Len(cmdpendingq)
      /\ DOMAIN cmdpendingq' = 1..(Len(cmdpendingq) + 1)
      /\ \A i \in 1..Len(cmdpendingq) : cmdpendingq'[i] = cmdpendingq[i]
      /\ cmdpendingq'[Len(cmdpendingq) + 1] = n
  BY AppendProperties, LenProperties DEF TypeInv, TypeOK, QueueTypes
<1>2. \A i \in DOMAIN cmdpendingq : node'[cmdpendingq[i]].rid[1] = ClientOf(cmdpendingq[i])
  BY <1>1 DEF Pending, ToSet, ClientOf
<1> DEFINE k == Len(cmdpendingq)
<1>3. /\ DOMAIN ClientsQueued = 1..k
      /\ \A i \in 1..k : ClientsQueued[i] = ClientOf(cmdpendingq[i])
  BY <1>1 DEF ClientsQueued
<1>4. /\ DOMAIN ClientsQueued' = 1..(k + 1)
      /\ \A i \in 1..(k + 1) : ClientsQueued'[i] = node'[cmdpendingq'[i]].rid[1]
  BY <1>1 DEF ClientsQueued, ClientOf
<1> HIDE DEF k
<1>5. k \in Nat
  BY <1>1 DEF k
<1>6. \A i \in 1..k : ClientsQueued'[i] = ClientsQueued[i]
  BY <1>1, <1>2, <1>3, <1>4, <1>5 DEF k
<1>7. ClientsQueued'[k + 1] = ClientOf(n)'
  BY <1>1, <1>4, <1>5 DEF ClientOf, k
<1> QED
  BY <1>3, <1>4, <1>5, <1>6, <1>7, ClientLast DEF ServiceQueue, ServiceBefore

LEMMA QueueFirst ==
    ASSUME TypeInv, NEW n \in Nodes, cmdpendingq' = <<n>> \o cmdpendingq,
           \A m \in Pending : ClientOf(m)' = ClientOf(m)
    PROVE  LET new == Callers \cap {ClientOf(n)'} IN
           /\ ServiceQueue' = ServiceQueue \cup new
           /\ ServiceBefore' = ServiceBefore \cup (new \X ServiceQueue)
<1>1. /\ Len(cmdpendingq) \in Nat /\ DOMAIN cmdpendingq = 1..Len(cmdpendingq)
      /\ DOMAIN cmdpendingq' = 1..(Len(cmdpendingq) + 1)
      /\ cmdpendingq'[1] = n
      /\ \A i \in 1..Len(cmdpendingq) : cmdpendingq'[i + 1] = cmdpendingq[i]
  <2>1. cmdpendingq \in Seq(Nodes) /\ <<n>> \in Seq(Nodes) /\ Len(<<n>>) = 1 /\ <<n>>[1] = n
    BY DEF TypeInv, TypeOK, QueueTypes
  <2>2. /\ Len(cmdpendingq) \in Nat /\ DOMAIN cmdpendingq = 1..Len(cmdpendingq)
        /\ DOMAIN cmdpendingq' = 1..(Len(cmdpendingq) + 1)
    BY <2>1, ConcatProperties, LenProperties
  <2>3. \A i \in 1..(1 + Len(cmdpendingq)) :
          cmdpendingq'[i] = IF i <= 1 THEN <<n>>[i] ELSE cmdpendingq[i - 1]
    BY <2>1, ConcatProperties
  <2> QED
    BY <2>1, <2>2, <2>3
<1>2. \A i \in DOMAIN cmdpendingq : node'[cmdpendingq[i]].rid[1] = ClientOf(cmdpendingq[i])
  BY <1>1 DEF Pending, ToSet, ClientOf
<1> DEFINE k == Len(cmdpendingq)
<1>3. /\ DOMAIN ClientsQueued = 1..k
      /\ \A i \in 1..k : ClientsQueued[i] = ClientOf(cmdpendingq[i])
  BY <1>1 DEF ClientsQueued
<1>4. /\ DOMAIN ClientsQueued' = 1..(k + 1)
      /\ \A i \in 1..(k + 1) : ClientsQueued'[i] = node'[cmdpendingq'[i]].rid[1]
  BY <1>1 DEF ClientsQueued, ClientOf
<1> HIDE DEF k
<1>5. k \in Nat
  BY <1>1 DEF k
<1>6. \A i \in 1..k : ClientsQueued'[i + 1] = ClientsQueued[i]
  BY <1>1, <1>2, <1>3, <1>4, <1>5 DEF k
<1>7. ClientsQueued'[1] = ClientOf(n)'
  BY <1>1, <1>4, <1>5 DEF ClientOf, k
<1>8. LET new == Callers \cap {ClientsQueued'[1]} IN
      /\ ClientsOn(ClientsQueued') = ClientsOn(ClientsQueued) \cup new
      /\ OrderOf(ClientsQueued') = OrderOf(ClientsQueued) \cup (new \X ClientsOn(ClientsQueued))
  BY <1>3, <1>4, <1>5, <1>6, ClientFirst
<1> QED
  BY <1>7, <1>8 DEF ServiceQueue, ServiceBefore

LEMMA QueueTaken ==
    ASSUME TypeInv, NEW n, cmdpendingq # <<>>, n = Head(cmdpendingq),
           cmdpendingq' = Tail(cmdpendingq),
           \A m \in ToSet(cmdpendingq') : ClientOf(m)' = ClientOf(m)
    PROVE  LET first == Callers \cap {ClientOf(n)} IN
           /\ ServiceQueue = ServiceQueue' \cup first
           /\ ServiceBefore = ServiceBefore' \cup (first \X ServiceQueue')
<1>1. /\ Len(cmdpendingq') \in Nat /\ DOMAIN cmdpendingq' = 1..Len(cmdpendingq')
      /\ DOMAIN cmdpendingq = 1..(Len(cmdpendingq') + 1)
      /\ cmdpendingq[1] = n
      /\ \A i \in 1..Len(cmdpendingq') : cmdpendingq[i + 1] = cmdpendingq'[i]
  <2>1. /\ cmdpendingq \in Seq(Nodes) /\ cmdpendingq' \in Seq(Nodes)
        /\ Len(cmdpendingq') = Len(cmdpendingq) - 1 /\ Len(cmdpendingq) \in Nat
        /\ DOMAIN cmdpendingq = 1..Len(cmdpendingq)
    BY HeadTailProperties, LenProperties DEF TypeInv, TypeOK, QueueTypes
  <2>2. /\ Len(cmdpendingq') \in Nat /\ DOMAIN cmdpendingq' = 1..Len(cmdpendingq')
    BY <2>1, LenProperties
  <2>3. /\ cmdpendingq[1] = n
        /\ \A i \in 1..Len(cmdpendingq') : cmdpendingq[i + 1] = cmdpendingq'[i]
    BY <2>1, <2>2, HeadTailProperties
  <2> QED
    BY <2>1, <2>2, <2>3
<1> DEFINE k == Len(cmdpendingq')
<1>2. /\ DOMAIN ClientsQueued = 1..(k + 1)
      /\ \A i \in 1..(k + 1) : ClientsQueued[i] = ClientOf(cmdpendingq[i])
  BY <1>1 DEF ClientsQueued
<1>3. /\ DOMAIN ClientsQueued' = 1..k
      /\ \A i \in 1..k : ClientsQueued'[i] = node'[cmdpendingq'[i]].rid[1]
  BY <1>1 DEF ClientsQueued, ClientOf
<1>4. \A i \in 1..k : node'[cmdpendingq'[i]].rid[1] = ClientOf(cmdpendingq'[i])
  <2>1. \A i \in 1..k : cmdpendingq'[i] \in ToSet(cmdpendingq')
    BY <1>1 DEF ToSet
  <2>2. \A m \in ToSet(cmdpendingq') : node'[m].rid[1] = ClientOf(m)
    BY DEF ClientOf
  <2> QED
    BY <2>1, <2>2 DEF ClientOf
<1> HIDE DEF k
<1>5. k \in Nat
  BY <1>1 DEF k
<1>6. \A i \in 1..k : ClientsQueued[i + 1] = ClientsQueued'[i]
  BY <1>1, <1>2, <1>3, <1>4, <1>5 DEF k, ClientOf
<1>7. ClientsQueued[1] = ClientOf(n)
  BY <1>1, <1>2, <1>5 DEF k
<1>8. LET first == Callers \cap {ClientsQueued[1]} IN
      /\ ClientsOn(ClientsQueued) = ClientsOn(ClientsQueued') \cup first
      /\ OrderOf(ClientsQueued)
         = OrderOf(ClientsQueued') \cup (first \X ClientsOn(ClientsQueued'))
  BY <1>2, <1>3, <1>5, <1>6, ClientFirst
<1> QED
  BY <1>7, <1>8 DEF ServiceQueue, ServiceBefore
-----------------------------------------------------------------------------
ServiceInv == TypeInv /\ OwnInv /\ ClientInv

(* The command of a client is under way only while that client waits.      *)
LEMMA ClientWaits ==
    ASSUME ServiceInv, NEW n \in Queued, NEW c \in Callers, ClientOf(n) = c
    PROVE  /\ n \in Nodes /\ WaitsSync(c) /\ held[c] = n /\ ~node[n].woken
           /\ node[n].cb = "sync" /\ node[n].cmd \notin PsCommand
<1>1. n \in Nodes
  BY ListsOfNodes DEF ServiceInv
<1>2. node[n].cb = "sync" /\ node[n].cmd \notin PsCommand
  BY <1>1 DEF ServiceInv, ClientInv, ClientNodes
<1>3. PICK d \in Callers : WaitsSync(d) /\ held[d] = n
  BY <1>2 DEF ServiceInv, OwnInv, QueuedNodes
<1>4. node[n].rid = <<d, calls[d]>>
  BY <1>3 DEF ServiceInv, ClientInv, Rids, WaitsSync, Holds
<1>5. d = c
  BY <1>4 DEF ClientOf
<1> QED
  BY <1>1, <1>2, <1>3, <1>5 DEF ServiceInv, OwnInv, QueuedNodes

(* The node a client waits for carries its request, and is not free.       *)
LEMMA WaitedFor ==
    ASSUME ServiceInv, NEW c \in Callers, pc[c] = "wait"
    PROVE  /\ WaitsSync(c) /\ held[c] \in Nodes /\ held[c] \notin Free
           /\ ClientOf(held[c]) = c
<1>1. WaitsSync(c) /\ Holds(c)
  BY DEF ServiceInv, ClientInv, ClientNodes, WaitsSync, Holds
<1>2. held[c] \in Nodes /\ held[c] \notin Free
  BY <1>1, HeldNodes DEF ServiceInv
<1>3. node[held[c]].rid = <<c, calls[c]>>
  BY <1>1 DEF ServiceInv, ClientInv, Rids
<1> QED
  BY <1>1, <1>2, <1>3 DEF ClientOf

(* A caller that does not wait has no request in the service.              *)
LEMMA NotWaiting ==
    ASSUME ServiceInv, NEW c \in Callers, pc[c] # "wait"
    PROVE  ~Service!Waiting(c)
<1>1. \A n \in Queued : ClientOf(n) # c
  BY ClientWaits DEF WaitsSync
<1>2. c \notin ServiceQueue
  BY <1>1 DEF ServiceQueue, ClientsOn, ClientsQueued, ToSet, Queued
<1>3. c # ServiceServing
  BY <1>1, CallersAssumption DEF ServiceServing, Queued
<1>4. ServiceAnswer[c] = {}
  BY DEF ServiceAnswer
<1> QED
  BY <1>2, <1>3, <1>4 DEF Service!Waiting

(* The answers that have not been returned stay.                           *)
LEMMA AnswersSame ==
    ASSUME \A c \in Callers : /\ pc'[c] = "wait" <=> pc[c] = "wait"
                              /\ pc[c] = "wait" =>
                                    /\ held'[c] = held[c]
                                    /\ node'[held[c]].woken = node[held[c]].woken
                                    /\ node'[held[c]].result = node[held[c]].result
    PROVE  ServiceAnswer' = ServiceAnswer
  BY DEF ServiceAnswer

LEMMA ServingSame ==
    ASSUME UNCHANGED cur_cmd, cur_cmd # NoNode => ClientOf(cur_cmd)' = ClientOf(cur_cmd)
    PROVE  ServiceServing' = ServiceServing
  BY DEF ServiceServing

LEMMA ServiceSame ==
    ASSUME TypeInv, UNCHANGED <<cmdpendingq, cur_cmd, pc, held, node, ret>>
    PROVE  UNCHANGED Service!svars
<1>1. \A n : ClientOf(n)' = ClientOf(n)
  BY DEF ClientOf
<1> QED
  BY <1>1, QueueSame, AnswersSame, ServingSame DEF Service!svars, ClientOf

(* Requests and answers.                                                   *)
LEMMA ServiceCaller ==
    ASSUME ServiceInv, OnlySync, Signals = {}, NEW c \in Callers, CallerStep(c)
    PROVE  [Service!SNext]_Service!svars
<1>1. /\ node \in [Nodes -> NodeRec] /\ cmdfreeq \in Seq(Nodes)
      /\ pc \in [Callers -> {"idle", "filled", "wait", "ret"}]
      /\ held \in [Callers -> Nodes \cup {NoNode}] /\ call \in [Callers -> Call]
      /\ ret \in [Callers -> Outcome] /\ calls \in [Callers -> Nat]
      /\ Program[c] \in Seq(SUBSET CallOrPs) /\ TypeInv
  BY ProgramAssumption DEF ServiceInv, TypeInv, TypeOK, QueueTypes, CallerTypes
<1>2. UNCHANGED cur_cmd
  BY DEF CallerStep, Issue, SetPower, Queue, ReturnSync, EndWait, ReturnLegacy, elsewhere
<1>3. CASE Issue(c)
  <2>1. PICK k \in Program[c][calls[c] + 1] : GetNode(c, k.api, k.cmd)
    BY <1>3 DEF Issue
  <2>2. calls[c] + 1 \in DOMAIN Program[c]
    BY <1>1, <1>3, LenProperties DEF Issue
  <2>3. k.api = "sync" /\ pc[c] = "idle" /\ ~surpriseremoved
    BY <1>3, <2>1, <2>2 DEF OnlySync, Issue, ServiceInv, OwnInv, Plugged
  <2>4. CASE ReturnEarly(c, "nobufs")
    <3>1. UNCHANGED <<cmdpendingq, cur_cmd, pc, held, node>>
          /\ ret' = [ret EXCEPT ![c] = "nobufs"]
      BY <1>2, <2>4 DEF ReturnEarly, nodeVars
    <3>2. UNCHANGED <<ServiceQueue, ServiceBefore, ServiceServing, ServiceAnswer>>
      BY <1>1, <3>1, QueueSame, AnswersSame, ServingSame DEF ClientOf
    <3>3. Service!Refuse(c)
      BY <2>3, <3>1, <3>2, NotWaiting DEF Service!Refuse
    <3> QED
      BY <3>3 DEF Service!SNext
  <2>5. CASE /\ cmdfreeq # <<>> /\ pc' = [pc EXCEPT ![c] = "filled"]
             /\ held' = [held EXCEPT ![c] = Head(cmdfreeq)]
             /\ \A m \in Nodes \ {Head(cmdfreeq)} : node'[m] = node[m]
             /\ UNCHANGED <<cmdpendingq, ret>>
    <3>1. Head(cmdfreeq) \in Nodes /\ Head(cmdfreeq) \in Free /\ Head(cmdfreeq) \notin Queued
      BY <1>1, <2>5, TailSet, HeadTailProperties DEF ServiceInv, OwnInv, ListsApart, Free
    <3>2. \A m \in Queued : ClientOf(m)' = ClientOf(m)
      BY <2>5, <3>1, ListsOfNodes DEF ServiceInv, ClientOf
    <3>3. ServiceAnswer' = ServiceAnswer
      <4>1. ASSUME NEW d \in Callers
            PROVE  /\ pc'[d] = "wait" <=> pc[d] = "wait"
                   /\ pc[d] = "wait" => held'[d] = held[d] /\ node'[held[d]] = node[held[d]]
        <5>1. CASE d = c
          BY <1>1, <2>3, <2>5, <5>1
        <5>2. CASE d # c
          BY <1>1, <2>5, <3>1, <5>2, WaitedFor
        <5> QED
          BY <5>1, <5>2
      <4> QED
        BY <4>1, AnswersSame
    <3>4. UNCHANGED <<ServiceQueue, ServiceBefore, ServiceServing>>
      BY <1>1, <1>2, <2>5, <3>2, QueueSame, ServingSame DEF Queued, Pending
    <3> QED
      BY <2>5, <3>3, <3>4 DEF Service!svars
  <2> QED
    BY <1>1, <2>1, <2>3, <2>4, <2>5 DEF GetNode
<1>4. CASE Queue(c)
  <2>1. PICK n \in Nodes :
        /\ n = held[c] /\ pc[c] = "filled" /\ call[c].api = "sync" /\ n \notin Queued
        /\ call[c].cmd # "EXIT_PS" /\ n \notin Free
    BY <1>4 DEF Queue, ServiceInv, ClientInv, TypeInv, Holding, ClientNodes, OwnInv, Fillers,
       PsCommand
  <2>2. ClientOf(n) = c
    BY <2>1 DEF ServiceInv, ClientInv, Rids, Holds, ClientOf
  <2>3. /\ cmdpendingq' = Append(cmdpendingq, n)
        /\ pc' = [pc EXCEPT ![c] = "wait"] /\ held' = [held EXCEPT ![c] = n]
        /\ UNCHANGED ret
    BY <1>4, <2>1 DEF Queue, Enqueued
  <2>4. /\ \A m \in Nodes \ {n} : node'[m] = node[m]
        /\ node'[n].rid = node[n].rid /\ ~node'[n].woken
    BY <1>1, <1>4, <2>1 DEF Queue, NodeRec
  <2>5. \A m \in Nodes : ClientOf(m)' = ClientOf(m)
    BY <2>4 DEF ClientOf
  <2>6. /\ ServiceQueue' = ServiceQueue \cup {c}
        /\ ServiceBefore' = ServiceBefore \cup (ServiceQueue \X {c})
    <3>1. \A m \in Pending : ClientOf(m)' = ClientOf(m)
      BY <1>1, <2>5, ListsOfNodes
    <3>2. Callers \cap {ClientOf(n)'} = {c}
      BY <2>1, <2>2, <2>5
    <3> QED
      BY <1>1, <2>1, <2>3, <3>1, <3>2, QueueLast
  <2>7. ServiceServing' = ServiceServing
    BY <1>1, <1>2, <2>5, ServingSame DEF TypeInv, TypeOK, CurrentTypes
  <2>8. ServiceAnswer' = ServiceAnswer
    <3>1. ASSUME NEW d \in Callers PROVE ServiceAnswer'[d] = ServiceAnswer[d]
      <4>1. CASE d = c
        BY <1>1, <2>1, <2>3, <2>4, <4>1 DEF ServiceAnswer
      <4>2. CASE d # c
        <5>1. pc'[d] = pc[d] /\ held'[d] = held[d]
          BY <1>1, <2>3, <4>2
        <5>2. pc[d] = "wait" => node'[held[d]] = node[held[d]]
          BY <2>1, <2>2, <2>4, <4>2, WaitedFor
        <5> QED
          BY <5>1, <5>2 DEF ServiceAnswer
      <4> QED
        BY <4>1, <4>2
    <3> QED
      BY <3>1 DEF ServiceAnswer
  <2>9. Service!Request(c)
    BY <2>1, <2>3, <2>6, <2>7, <2>8, NotWaiting DEF Service!Request
  <2> QED
    BY <2>9 DEF Service!SNext
<1>5. CASE ReturnSync(c)
  <2> DEFINE n == held[c]
  <2>1. /\ pc[c] = "wait" /\ node[n].woken /\ pc' = [pc EXCEPT ![c] = "idle"]
        /\ held' = [held EXCEPT ![c] = NoNode] /\ ret' = [ret EXCEPT ![c] = node[n].result]
        /\ UNCHANGED cmdpendingq
    BY <1>5 DEF ReturnSync
  <2>2. n \in Nodes /\ WaitsSync(c) /\ n \notin Queued /\ ClientOf(n) = c
    BY <2>1, WaitedFor DEF ServiceInv, OwnInv, QueuedNodes
  <2>3. \A m \in Nodes \ {n} : node'[m] = node[m]
    BY <1>1, <1>5 DEF ReturnSync, Cleaned
  <2>4. \A m \in Queued : ClientOf(m)' = ClientOf(m)
    BY <1>1, <2>2, <2>3, ListsOfNodes DEF ClientOf
  <2>5. UNCHANGED <<ServiceQueue, ServiceBefore, ServiceServing>>
    BY <1>1, <1>2, <2>1, <2>4, QueueSame, ServingSame DEF Queued, Pending
  <2>6. ServiceAnswer[c] = {node[n].result}
    BY <2>1 DEF ServiceAnswer
  <2>7. ServiceAnswer' = [ServiceAnswer EXCEPT ![c] = {}]
    <3>1. ASSUME NEW d \in Callers
          PROVE  ServiceAnswer'[d] = IF d = c THEN {} ELSE ServiceAnswer[d]
      <4>1. CASE d = c
        BY <1>1, <2>1, <4>1 DEF ServiceAnswer
      <4>2. CASE d # c
        <5>1. pc'[d] = pc[d] /\ held'[d] = held[d]
          BY <1>1, <2>1, <4>2
        <5>2. pc[d] = "wait" => node'[held[d]] = node[held[d]]
          BY <2>2, <2>3, <4>2, WaitedFor
        <5> QED
          BY <4>2, <5>1, <5>2 DEF ServiceAnswer
      <4> QED
        BY <4>1, <4>2
    <3> QED
      BY <3>1 DEF ServiceAnswer
  <2>8. Service!Return(c)
    BY <2>1, <2>5, <2>6, <2>7 DEF Service!Return
  <2> QED
    BY <2>8 DEF Service!SNext
<1>6. CASE SetPower(c)
  <2>1. PICK k \in Program[c][calls[c] + 1] : k.api \in PowerOp
    BY <1>6 DEF SetPower, PowerOp
  <2>2. calls[c] + 1 \in DOMAIN Program[c]
    BY <1>1, <1>6, LenProperties DEF SetPower
  <2> QED
    BY <2>1, <2>2 DEF OnlySync, PowerOp
<1>7. CASE EndWait(c) \/ ReturnLegacy(c)
  BY <1>7 DEF EndWait, ReturnLegacy, ServiceInv, ClientInv, ClientNodes
<1> QED
  BY <1>3, <1>4, <1>5, <1>6, <1>7 DEF CallerStep
-----------------------------------------------------------------------------
(* The driver's own commands.                                              *)
LEMMA ServicePrepares ==
    ASSUME ServiceInv, Prepares
    PROVE  UNCHANGED Service!svars
<1>1. UNCHANGED <<cur_cmd, pc, held, ret>>
  BY DEF Prepares, MainRespWakeup, MainCallback, DeauthEvent, PsAwakeEvent,
     WakeFirmwareFirst, EnterPowerSave, NextEvent, callerVars
<1>2. /\ node \in [Nodes -> NodeRec] /\ cmdfreeq \in Seq(Nodes) /\ TypeInv
      /\ cur_cmd \in Nodes \cup {NoNode}
  BY DEF ServiceInv, TypeInv, TypeOK, QueueTypes, CurrentTypes
<1>3. CASE UNCHANGED nodeVars
  BY <1>1, <1>2, <1>3, ServiceSame DEF nodeVars
<1>4. ASSUME NEW cmd, PrepareNoWait(cmd), ~UNCHANGED nodeVars PROVE UNCHANGED Service!svars
  <2>1. PICK n \in Nodes :
          /\ n = Head(cmdfreeq) /\ cmdfreeq # <<>> /\ cmdpendingq' = Enqueued(n, cmd)
          /\ node' = [node EXCEPT ![n] = Filled(cmd, NextSeq, "null", DriverRid)]
    BY <1>2, <1>4, PreparedNode DEF nodeVars
  <2>2. n \in Free /\ n \notin Queued
    BY <1>2, <2>1, TailSet DEF ServiceInv, OwnInv, ListsApart, Free
  <2>3. /\ \A m \in Nodes \ {n} : node'[m] = node[m]
        /\ ClientOf(n)' = "driver"
    BY <1>2, <2>1 DEF Filled, ClientOf, DriverRid
  <2>4. \A m \in Queued : ClientOf(m)' = ClientOf(m)
    BY <1>2, <2>2, <2>3, ListsOfNodes DEF ClientOf
  <2>5. Callers \cap {ClientOf(n)'} = {}
    BY <2>3, CallersAssumption
  <2>6. ServiceQueue' = ServiceQueue /\ ServiceBefore' = ServiceBefore
    <3>1. \A m \in Pending : ClientOf(m)' = ClientOf(m)
      BY <2>4 DEF Queued, Pending
    <3>2. CASE cmdpendingq' = Append(cmdpendingq, n)
      BY <1>2, <2>5, <3>1, <3>2, QueueLast
    <3>3. CASE cmdpendingq' = <<n>> \o cmdpendingq
      BY <1>2, <2>5, <3>1, <3>3, QueueFirst
    <3> QED
      BY <2>1, <3>2, <3>3 DEF Enqueued
  <2>7. ServiceServing' = ServiceServing
    BY <1>1, <2>4, ServingSame DEF Queued
  <2>8. ServiceAnswer' = ServiceAnswer
    BY <1>1, <2>2, <2>3, WaitedFor, AnswersSame
  <2> QED
    BY <1>1, <2>6, <2>7, <2>8 DEF Service!svars
<1> QED
  BY <1>3, <1>4, PreparesOrNot DEF nodeVars

(* A command under way completes: a client's, or one of the driver's.      *)
LEMMA ServiceCompletes ==
    ASSUME ServiceInv, NEW n \in Nodes, n = cur_cmd, n # NoNode,
           NEW result \in {"ok", "error", "timedout"},
           Complete(n, result), UNCHANGED <<cmdpendingq, pc, held, ret>>
    PROVE  [Service!SNext]_Service!svars
<1>1. TypeInv /\ n \in Queued /\ n \notin Pending /\ cur_cmd' = NoNode
  BY DEF ServiceInv, Queued, OwnInv, ListsApart, Complete
<1>2. \A m \in Nodes \ {n} : node'[m] = node[m]
  BY <1>1, CompletedFields
<1>3. ServiceQueue' = ServiceQueue /\ ServiceBefore' = ServiceBefore
  <2>1. \A m \in Pending : ClientOf(m)' = ClientOf(m)
    BY <1>1, <1>2, ListsOfNodes DEF ClientOf
  <2> QED
    BY <1>1, <2>1, QueueSame
<1>4. ServiceServing' = "driver"
  BY <1>1 DEF ServiceServing
<1>5. CASE ClientOf(n) \notin Callers
  <2>1. ServiceServing = "driver"
    BY <1>5 DEF ServiceServing
  <2>2. ServiceAnswer' = ServiceAnswer
    BY <1>2, <1>5, WaitedFor, AnswersSame
  <2> QED
    BY <1>3, <1>4, <2>1, <2>2 DEF Service!svars
<1>6. ASSUME NEW c \in Callers, ClientOf(n) = c PROVE [Service!SNext]_Service!svars
  <2>1. WaitsSync(c) /\ held[c] = n /\ node[n].cb = "sync"
    BY <1>1, <1>6, ClientWaits
  <2>2. node'[n].woken /\ node'[n].result = result
    <3>1. node \in [Nodes -> NodeRec]
      BY <1>1 DEF TypeInv, TypeOK, QueueTypes
    <3>2. node'[n] = [node[n] EXCEPT !.result = result, !.woken = TRUE]
      BY <1>1, <2>1, CompletedFields
    <3> QED
      BY <3>1, <3>2 DEF NodeRec
  <2>3. ServiceServing = c /\ c # "driver"
    BY <1>6, CallersAssumption DEF ServiceServing
  <2>4. ServiceAnswer' = [ServiceAnswer EXCEPT ![c] = {result}]
    <3>1. ASSUME NEW d \in Callers
          PROVE  ServiceAnswer'[d] = IF d = c THEN {result} ELSE ServiceAnswer[d]
      <4>1. CASE d = c
        BY <2>1, <2>2, <4>1 DEF ServiceAnswer, WaitsSync
      <4>2. CASE d # c
        <5>1. pc[d] = "wait" => node'[held[d]] = node[held[d]]
          BY <1>2, <1>6, <4>2, WaitedFor
        <5> QED
          BY <4>2, <5>1 DEF ServiceAnswer
      <4> QED
        BY <4>1, <4>2
    <3> QED
      BY <3>1 DEF ServiceAnswer
  <2>5. Service!Answer
    BY <1>3, <1>4, <2>3, <2>4 DEF Service!Answer
  <2> QED
    BY <2>5 DEF Service!SNext
<1> QED
  BY <1>5, <1>6

(* An ENTER_PS that has nothing to do leaves the queue.                    *)
LEMMA ServiceIgnores ==
    ASSUME ServiceInv, IgnoreEnterPs
    PROVE  UNCHANGED Service!svars
<1>1. /\ TypeInv /\ cmdpendingq \in Seq(Nodes) /\ cmdpendingq # <<>> /\ cur_cmd = NoNode
      /\ cmdpendingq' = Tail(cmdpendingq) /\ UNCHANGED <<pc, held, ret>>
  BY DEF ServiceInv, TypeInv, TypeOK, QueueTypes, IgnoreEnterPs, MayExecute
<1>2. PICK n \in Nodes : /\ n = Head(cmdpendingq) /\ n \in Queued
                         /\ node[n].cmd = "ENTER_PS" /\ Complete(n, "ok")
  BY <1>1, HeadPending DEF IgnoreEnterPs, Queued, Pending
<1>3. ClientOf(n) \notin Callers
  BY <1>2, ClientWaits DEF PsCommand
<1>4. /\ \A m \in Nodes \ {n} : node'[m] = node[m]
      /\ cur_cmd' = NoNode
  BY <1>1, <1>2, CompletedFields DEF Complete
<1>5. \A m \in ToSet(cmdpendingq') : m \in Nodes \ {n}
  BY <1>1, <1>2, TailSet, ListsOfNodes DEF ServiceInv, OwnInv, ListsApart, Pending
<1>6. ServiceQueue' = ServiceQueue /\ ServiceBefore' = ServiceBefore
  <2>1. \A m \in ToSet(cmdpendingq') : ClientOf(m)' = ClientOf(m)
    BY <1>4, <1>5 DEF ClientOf
  <2>2. Callers \cap {ClientOf(n)} = {}
    BY <1>3
  <2> QED
    BY <1>1, <1>2, <2>1, <2>2, QueueTaken
<1>7. ServiceServing' = ServiceServing
  BY <1>1, <1>4 DEF ServiceServing
<1>8. ServiceAnswer' = ServiceAnswer
  BY <1>1, <1>3, <1>4, WaitedFor, AnswersSame
<1> QED
  BY <1>1, <1>6, <1>7, <1>8 DEF Service!svars

(* The head of the queue goes to the firmware.                             *)
LEMMA ServiceServes ==
    ASSUME ServiceInv, SubmitNext
    PROVE  [Service!SNext]_Service!svars
<1>1. /\ TypeInv /\ cmdpendingq \in Seq(Nodes) /\ cmdpendingq # <<>> /\ cur_cmd = NoNode
      /\ cmdpendingq' = Tail(cmdpendingq) /\ UNCHANGED <<pc, held, ret>>
      /\ node \in [Nodes -> NodeRec]
  BY DEF ServiceInv, TypeInv, TypeOK, QueueTypes, SubmitNext, MayExecute, callerVars
<1>2. PICK n \in Nodes : /\ n = Head(cmdpendingq) /\ n \in Queued /\ cur_cmd' = n
                         /\ node' = [node EXCEPT ![n].sent = @ + 1] /\ n # NoNode
  BY <1>1, HeadPending, NodesAssumption DEF SubmitNext, Queued, Pending
<1>3. \A m \in Nodes : /\ node'[m].rid = node[m].rid /\ node'[m].woken = node[m].woken
                       /\ node'[m].result = node[m].result
  BY <1>1, <1>2 DEF NodeRec
<1>4. \A m \in Nodes : ClientOf(m)' = ClientOf(m)
  BY <1>3 DEF ClientOf
<1>5. ToSet(cmdpendingq') \subseteq Nodes /\ ToSet(cmdpendingq') = Pending \ {n}
  BY <1>1, <1>2, TailSet, ListsOfNodes DEF ServiceInv, OwnInv, ListsApart, Pending
<1>6. LET first == Callers \cap {ClientOf(n)} IN
      /\ ServiceQueue = ServiceQueue' \cup first
      /\ ServiceBefore = ServiceBefore' \cup (first \X ServiceQueue')
  <2>1. \A m \in ToSet(cmdpendingq') : ClientOf(m)' = ClientOf(m)
    BY <1>4, <1>5
  <2> QED
    BY <1>1, <1>2, <2>1, QueueTaken
<1>7. ServiceAnswer' = ServiceAnswer
  BY <1>1, <1>3, WaitedFor, AnswersSame
<1>8. ServiceServing = "driver"
  BY <1>1 DEF ServiceServing
<1>9. ServiceServing' = IF ClientOf(n) \in Callers THEN ClientOf(n) ELSE "driver"
  BY <1>2, <1>3 DEF ServiceServing, ClientOf
<1>10. CASE ClientOf(n) \notin Callers
  <2>1. Callers \cap {ClientOf(n)} = {}
    BY <1>10
  <2>2. ServiceQueue' = ServiceQueue /\ ServiceBefore' = ServiceBefore
    BY <1>6, <2>1
  <2> QED
    BY <1>1, <1>7, <1>8, <1>9, <1>10, <2>2 DEF Service!svars
<1>11. ASSUME NEW c \in Callers, ClientOf(n) = c PROVE [Service!SNext]_Service!svars
  <2>1. /\ ServiceQueue = ServiceQueue' \cup {c}
        /\ ServiceBefore = ServiceBefore' \cup ({c} \X ServiceQueue')
    <3>1. Callers \cap {ClientOf(n)} = {c}
      BY <1>11
    <3> QED
      BY <1>6, <3>1
  <2>2. c \notin ServiceQueue'
    <3>1. \A m \in ToSet(cmdpendingq') : ClientOf(m) # c
      BY <1>2, <1>5, <1>11, ClientWaits DEF Queued, Pending
    <3>2. \A m \in ToSet(cmdpendingq') : node'[m].rid[1] # c
      BY <1>3, <1>5, <3>1 DEF ClientOf
    <3> QED
      BY <3>2 DEF ServiceQueue, ClientsOn, ClientsQueued, ClientOf, ToSet
  <2>3. ServiceBefore' \subseteq ServiceQueue' \X ServiceQueue'
    BY DEF ServiceBefore, ServiceQueue, OrderOf, ClientsOn, ToSet
  <2>4. /\ ServiceQueue' = ServiceQueue \ {c}
        /\ ServiceBefore' = ServiceBefore \ ({c} \X ServiceQueue)
        /\ \A d \in ServiceQueue \ {c} : <<c, d>> \in ServiceBefore
    BY <2>1, <2>2, <2>3
  <2>5. c \in ServiceQueue /\ ServiceServing' = c
    BY <1>9, <1>11, <2>1
  <2>6. Service!Serve(c)
    BY <1>1, <1>7, <1>8, <2>4, <2>5 DEF Service!Serve
  <2> QED
    BY <2>6 DEF Service!SNext
<1> QED
  BY <1>10, <1>11

(* A command that got no answer goes back to the head.                     *)
LEMMA ServicePutsBack ==
    ASSUME ServiceInv, Requeue
    PROVE  [Service!SNext]_Service!svars
<1>1. PICK n \in Nodes : n = cur_cmd /\ n # NoNode
  BY NodesAssumption DEF Requeue, TimedOut, ServiceInv, TypeInv, TypeOK, CurrentTypes
<1>2. /\ TypeInv /\ cmdpendingq' = <<n>> \o cmdpendingq /\ cur_cmd' = NoNode
      /\ UNCHANGED <<node, pc, held, ret>>
  BY <1>1 DEF ServiceInv, Requeue, Requeued, callerVars
<1>3. \A m : ClientOf(m)' = ClientOf(m)
  BY <1>2 DEF ClientOf
<1>4. LET first == Callers \cap {ClientOf(n)} IN
      /\ ServiceQueue' = ServiceQueue \cup first
      /\ ServiceBefore' = ServiceBefore \cup (first \X ServiceQueue)
  <2>1. \A m \in Pending : ClientOf(m)' = ClientOf(m)
    BY <1>3
  <2>2. ClientOf(n)' = ClientOf(n)
    BY <1>3
  <2> QED
    BY <1>2, <2>1, <2>2, QueueFirst
<1>5. ServiceServing' = "driver"
  BY <1>2 DEF ServiceServing
<1>6. ServiceServing = IF ClientOf(n) \in Callers THEN ClientOf(n) ELSE "driver"
  BY <1>1 DEF ServiceServing
<1>7. ServiceAnswer' = ServiceAnswer
  BY <1>2, AnswersSame
<1>8. CASE ClientOf(n) \notin Callers
  <2>1. Callers \cap {ClientOf(n)} = {}
    BY <1>8
  <2>2. ServiceQueue' = ServiceQueue /\ ServiceBefore' = ServiceBefore
    BY <1>4, <2>1
  <2> QED
    BY <1>2, <1>5, <1>6, <1>7, <1>8, <2>2 DEF Service!svars
<1>9. ASSUME NEW c \in Callers, ClientOf(n) = c PROVE [Service!SNext]_Service!svars
  <2>1. Callers \cap {ClientOf(n)} = {c} /\ ServiceServing = c /\ c # "driver"
    BY <1>6, <1>9, CallersAssumption
  <2>2. /\ ServiceQueue' = ServiceQueue \cup {c}
        /\ ServiceBefore' = ServiceBefore \cup ({c} \X ServiceQueue)
    BY <1>4, <2>1
  <2>3. Service!PutBack
    BY <1>2, <1>5, <1>7, <2>1, <2>2 DEF Service!PutBack
  <2> QED
    BY <2>3 DEF Service!SNext
<1> QED
  BY <1>8, <1>9

LEMMA ServiceMain ==
    ASSUME ServiceInv, MainStep
    PROVE  [Service!SNext]_Service!svars
<1>1. TypeInv
  BY DEF ServiceInv
<1>2. CASE Prepares
  BY <1>2, ServicePrepares
<1>3. CASE PsOrErrorResponse
  <2> DEFINE r == resp[main_idx]
  <2>1. cur_cmd \in Nodes /\ r.result \in {"ok", "error"}
    BY <1>1, <1>3 DEF PsOrErrorResponse, AnswerArrived, Unexpected, TypeInv, TypeOK,
       CurrentTypes, ReplyTypes, MainTypes, Response, FwResult
  <2>2. UNCHANGED <<cmdpendingq, pc, held, ret>>
    BY <1>3 DEF PsOrErrorResponse, nodeVars
  <2>3. CASE Complete(cur_cmd, r.result)
    BY <2>1, <2>2, <2>3, ServiceCompletes, NodesAssumption
  <2>4. CASE UNCHANGED <<nodeVars, cur_cmd>>
    BY <1>1, <2>2, <2>4, ServiceSame DEF nodeVars
  <2> QED
    BY <1>3, <2>3, <2>4 DEF PsOrErrorResponse
<1>4. CASE MainFinish
  <2>1. cur_cmd \in Nodes /\ resp[main_idx].result = "ok"
    BY <1>1, <1>4 DEF MainFinish, TypeInv, Serving, ServiceInv, ClientInv, AnswerKept,
       ServingLabel
  <2>2. Complete(cur_cmd, "ok") /\ UNCHANGED <<cmdpendingq, pc, held, ret>>
    BY <1>4, <2>1 DEF MainFinish
  <2> QED
    BY <2>1, <2>2, ServiceCompletes, NodesAssumption
<1>5. CASE GiveUp
  <2>1. cur_cmd \in Nodes
    BY <1>1, <1>5 DEF GiveUp, TimedOut, TypeInv, TypeOK, CurrentTypes
  <2>2. Complete(cur_cmd, "timedout") /\ UNCHANGED <<cmdpendingq, pc, held, ret>>
    BY <1>5 DEF GiveUp
  <2> QED
    BY <2>1, <2>2, ServiceCompletes, NodesAssumption
<1>6. CASE IgnoreEnterPs
  BY <1>6, ServiceIgnores
<1>7. CASE Requeue
  BY <1>7, ServicePutsBack
<1>8. CASE SubmitNext
  BY <1>8, ServiceServes
<1>9. CASE UNCHANGED <<nodeVars, cur_cmd, removeVars, pc, held, call>> /\ UNCHANGED ret
  BY <1>1, <1>9, ServiceSame DEF nodeVars
<1>10. UNCHANGED ret
  BY DEF MainStep, MainCheck, MainWakeUp, MainExit, MainRun, DropResponse,
     PsOrErrorResponse, MainRespWakeup, GoodResponse, MainCallback, MainFinish,
     MainConsume, GiveUp, Requeue, NoTimeout, ClearTimeout, DeauthEvent, PsSleepEvent,
     PsAwakeEvent, HostAwakeEvent, OtherEvent, NextEvent, NoMoreEvents, MainPreSleep,
     MainConfirmDelayed, MainConfirm, MainConfirmSent, SubmitNext, WakeFirmwareFirst,
     IgnoreEnterPs, EnterPowerSave, NothingToExecute, MainTx, callerVars
<1> QED
  BY <1>2, <1>3, <1>4, <1>5, <1>6, <1>7, <1>8, <1>9, <1>10, MainLeaves
  DEF MainStep, Prepares

LEMMA ServiceStep ==
    ASSUME OnlySync, Signals = {}, ~Hotplug, ServiceInv, [Next]_vars
    PROVE  [Service!SNext]_Service!svars
<1>1. TypeInv
  BY DEF ServiceInv
<1>2. CASE UNCHANGED vars
  BY <1>1, <1>2, ServiceSame DEF vars, nodeVars, curVars, callerVars
<1>3. CASE TimerExpires \/ TimerHandler \/ CardStep \/ TxStep
  <2>1. UNCHANGED ret
    BY <1>3 DEF TimerExpires, TimerHandler, CardStep, WritePacket, DropPacket,
       DownloadInterrupt, ResponseInterrupt, LoseResponse, EventInterrupt, hostElsewhere,
       TxStep, XmitDropped, XmitBusy, XmitBuild, XmitLineUp, txElsewhere, callerVars
  <2> QED
    BY <1>1, <1>3, <2>1, OthersLeave, ServiceSame DEF nodeVars
<1> QED
  BY <1>2, <1>3, ServiceCaller, ServiceMain, NoRemoval
  DEF Next, Running, AllReturned, Halted, ServiceInv

LEMMA ServiceStarts == Init => Service!SInit
<1> SUFFICES ASSUME Init PROVE Service!SInit
  OBVIOUS
<1>1. /\ cmdpendingq = <<>> /\ cur_cmd = NoNode /\ pc = [c \in Callers |-> "idle"]
      /\ ret = [c \in Callers |-> "ok"]
  BY DEF Init, PrivInit
<1>2. DOMAIN ClientsQueued = {}
  BY <1>1, EmptySeq DEF ClientsQueued
<1>3. ServiceQueue = {} /\ ServiceBefore = {}
  BY <1>2 DEF ServiceQueue, ServiceBefore, ClientsOn, OrderOf, ToSet
<1>4. ServiceServing = "driver"
  BY <1>1 DEF ServiceServing
<1>5. ServiceAnswer = [c \in Callers |-> {}]
  BY <1>1 DEF ServiceAnswer
<1>6. ret \in [Callers -> {"ok", "error", "timedout"}]
  BY <1>1
<1> QED
  BY <1>3, <1>4, <1>5, <1>6 DEF Service!SInit

(* The command interface implements CmdService (__lbs_cmd, cmd.c), for any *)
(* number of callers, command buffers and calls and with every fault of    *)
(* the card: requests are served in the order they were queued, one that   *)
(* timed out goes back before all others, each is answered once and its    *)
(* call returns that answer.  Every caller uses __lbs_cmd, no signal ends  *)
(* a wait and the card stays.  The driver's own commands, which overtake   *)
(* the requests, are steps the service does not see.                       *)
THEOREM ServiceImplemented ==
    ASSUME Signals = {}, ~Hotplug, OnlySync
    PROVE  Spec => ImplementsService
<1>1. TypeInv /\ OwnInv /\ [Next]_vars => OwnInv'
  BY StepOwns
<1>2. TypeInv /\ OwnInv /\ Told /\ ClientInv /\ [Next]_vars => ClientInv'
  BY StepService
<1>3. TypeInv /\ OwnInv /\ Told /\ ClientInv /\ [Next]_vars => Told'
  BY StepRids DEF ClientInv
<1>4. TypeInv /\ OwnInv /\ ClientInv /\ [Next]_vars => [Service!SNext]_Service!svars
  BY ServiceStep DEF ServiceInv
<1>5. Init => Told
  BY DEF Init, PrivInit, Told, WaitsSync
<1> QED
  BY InitTypes, StepTypes, InitOwns, InitService, ServiceStarts, <1>1, <1>2, <1>3, <1>4,
     <1>5, PTL DEF Spec, ImplementsService, Service!SSpec
=============================================================================
