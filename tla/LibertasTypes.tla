--------------------------- MODULE LibertasTypes ---------------------------
(***************************************************************************)
(* Type correctness of the driver, for every value of the constants.       *)
(*                                                                         *)
(* TypeOK is not inductive: three facts about the program counters must be *)
(* added.  The proof has one lemma per part of the system with one step    *)
(* per action, in which the parts the action leaves alone are framed by    *)
(* Unchanged.                                                              *)
(***************************************************************************)
EXTENDS Libertas, TLAPS, SequenceTheorems

(* A caller that fills a node or waits for one has one.                    *)
Holding  == \A c \in Callers : pc[c] \in {"filled", "wait"} => held[c] \in Nodes

(* While the main thread serves a response without the lock, cur_cmd stays *)
(* the command it answers.                                                 *)
Serving  == main \in {"resp_wakeup", "callback", "finish"} => cur_cmd \in Nodes

(* The packet being built has not been counted yet.                        *)
Building == xmit = "building" => sent_tx < MaxTx

TypeInv == TypeOK /\ Holding /\ Serving /\ Building
-----------------------------------------------------------------------------
(* The list operations of the driver and of its queues keep the type.      *)
LEMMA SeqTypes ==
    ASSUME NEW S, NEW s \in Seq(S), NEW e \in S
    PROVE  /\ <<>> \in Seq(S)
           /\ Append(s, e) \in Seq(S) /\ <<e>> \o s \in Seq(S)
           /\ s # <<>> => Head(s) \in S /\ Tail(s) \in Seq(S)
<1>1. <<e>> \in Seq(S)
  OBVIOUS
<1> QED
  BY <1>1, EmptySeq, AppendProperties, ConcatProperties, HeadTailProperties

(* What keeps its variables keeps its type: each tuple of struct           *)
(* lbs_private's fields is typed on its own.                               *)
LEMMA Unchanged ==
    /\ QueueTypes /\ UNCHANGED nodeVars => QueueTypes'
    /\ CurrentTypes /\ UNCHANGED curVars => CurrentTypes'
    /\ TimerTypes /\ UNCHANGED timeVars => TimerTypes'
    /\ ReplyTypes /\ UNCHANGED respVars => ReplyTypes'
    /\ PowerTypes /\ UNCHANGED psVars => PowerTypes'
    /\ TxTypes /\ Building /\ UNCHANGED txVars => TxTypes' /\ Building'
    /\ RemoveTypes /\ UNCHANGED removeVars => RemoveTypes'
    /\ MainTypes /\ UNCHANGED mainVars => MainTypes'
    /\ CallerTypes /\ Holding /\ UNCHANGED callerVars => CallerTypes' /\ Holding'
    /\ CardTypes /\ UNCHANGED fwVars => CardTypes'
    /\ Serving /\ UNCHANGED <<mainVars, curVars>> => Serving'
  BY DEF QueueTypes, CurrentTypes, TimerTypes, ReplyTypes, PowerTypes, TxTypes,
         Building, RemoveTypes, MainTypes, CallerTypes, Holding, CardTypes, Serving,
         nodeVars, curVars, timeVars, respVars, psVars, txVars, removeVars,
         mainVars, callerVars, fwVars

(* Requests have names: a call of a caller, and the driver itself.         *)
LEMMA RidTypes ==
    /\ DriverRid \in Rid /\ NoRid \in Rid
    /\ \A c \in Callers, k \in Nat : <<c, k>> \in Rid
  BY DEF DriverRid, NoRid, Rid

(* priv->seqnum++ stays a sequence number.                                 *)
LEMMA NextSeqType == seqnum \in Nat => NextSeq \in Nat
  BY BoundsAssumption DEF NextSeq

(* The nodes lbs_allocate_cmd_buffer makes.                                *)
LEMMA FreeNodeType == FreeNode \in NodeRec
  BY RidTypes DEF FreeNode, NodeRec, Outcome, FwResult

(* lbs_prepare_and_send_command and __lbs_cmd_async fill in a node.        *)
LEMMA FilledType ==
    ASSUME NEW cmd \in Command, NEW seq \in Nat,
           NEW cb \in {"null", "async", "sync"}, NEW rid \in Rid
    PROVE  Filled(cmd, seq, cb, rid) \in NodeRec
  BY DEF Filled, NodeRec, Outcome, FwResult

(* __lbs_cleanup_and_insert_cmd returns a node fit for use.                *)
LEMMA CleanedType ==
    ASSUME NEW nd \in [Nodes -> NodeRec], NEW n \in Nodes
    PROVE  Cleaned(nd, n) \in [Nodes -> NodeRec]
<1>1. [FreeNode EXCEPT !.result = nd[n].result, !.woken = nd[n].woken] \in NodeRec
  BY FreeNodeType, nd[n] \in NodeRec DEF NodeRec
<1> QED
  BY <1>1 DEF Cleaned

(* lbs_complete_command stores a result in a node.                         *)
LEMMA DoneType ==
    ASSUME QueueTypes, NEW n \in Nodes, NEW result \in Outcome
    PROVE  Done(n, result) \in [Nodes -> NodeRec]
<1>1. [node[n] EXCEPT !.result = result, !.woken = TRUE] \in NodeRec
  BY node[n] \in NodeRec DEF QueueTypes, NodeRec
<1> QED
  BY <1>1 DEF Done, QueueTypes

(* lbs_queue_cmd keeps cmdpendingq a list of nodes.                        *)
LEMMA EnqueuedType ==
    ASSUME cmdpendingq \in Seq(Nodes), NEW n \in Nodes, NEW cmd
    PROVE  Enqueued(n, cmd) \in Seq(Nodes)
  BY SeqTypes DEF Enqueued

(* wake_up_interruptible(&priv->waitq).                                    *)
LEMMA WakeType == main_woken \in BOOLEAN /\ Wake => main_woken' \in BOOLEAN
<1>1. \A p \in BOOLEAN : (main_woken \/ p) \in BOOLEAN
  BY Zenon
<1>2. (main = "asleep") \in BOOLEAN /\ (main \in {"check", "asleep"}) \in BOOLEAN
  BY SMT
<1> QED
  BY <1>1, <1>2, Zenon DEF Wake

(* The main thread's own lbs_prepare_and_send_command.                     *)
LEMMA PrepareTypes ==
    ASSUME NEW cmd \in Command, QueueTypes, seqnum \in Nat,
           cur_cmd_retcode \in Outcome, PrepareNoWait(cmd)
    PROVE  QueueTypes' /\ seqnum' \in Nat /\ cur_cmd_retcode' \in Outcome
<1>1. CASE surpriseremoved \/ cmdfreeq = <<>>
  BY <1>1 DEF PrepareNoWait, nodeVars, QueueTypes
<1>2. CASE ~(surpriseremoved \/ cmdfreeq = <<>>)
  <2> DEFINE n == Head(cmdfreeq)
  <2>1. n \in Nodes /\ Tail(cmdfreeq) \in Seq(Nodes)
    BY <1>2 DEF QueueTypes
  <2>2. Filled(cmd, NextSeq, "null", DriverRid) \in NodeRec
    BY FilledType, NextSeqType, RidTypes
  <2>3. Enqueued(n, cmd) \in Seq(Nodes)
    BY <2>1, EnqueuedType DEF QueueTypes
  <2> QED
    BY <1>2, <2>1, <2>2, <2>3, NextSeqType
    DEF PrepareNoWait, QueueTypes, Outcome, FwResult
<1> QED
  BY <1>1, <1>2

(* lbs_complete_command, whoever calls it.                                 *)
LEMMA CompleteTypes ==
    ASSUME NEW n \in Nodes, NEW result \in Outcome,
           QueueTypes, CurrentTypes, CallerTypes, Complete(n, result)
    PROVE  /\ cmdfreeq' \in Seq(Nodes) /\ node' \in [Nodes -> NodeRec]
           /\ CurrentTypes' /\ cur_cmd' = NoNode
           /\ outcome' \in [Callers -> Outcome]
<1>1. cmdfreeq' \in Seq(Nodes)
  BY SeqTypes DEF Complete, QueueTypes
<1>2. node' \in [Nodes -> NodeRec]
  <2>1. Done(n, result) \in [Nodes -> NodeRec]
    BY DoneType
  <2>2. Cleaned(Done(n, result), n) \in [Nodes -> NodeRec]
    BY <2>1, CleanedType
  <2> QED
    BY <2>1, <2>2 DEF Complete
<1> QED
  BY <1>1, <1>2 DEF Complete, CurrentTypes, CallerTypes

(* hw_host_to_card, successful or not.                                     *)
LEMMA HostToCardTypes ==
    ASSUME NEW p \in Packet, packets \in Seq(Packet), dnld_sent \in BOOLEAN,
           HostToCard(p) \/ HostToCardFails
    PROVE  packets' \in Seq(Packet) /\ dnld_sent' \in BOOLEAN
  BY SeqTypes DEF HostToCard, HostToCardFails

(* The packets the driver hands over.                                      *)
LEMMA PacketTypes ==
    /\ \A k \in {"data", "confirm_sleep", "confirm_wake"} : [kind |-> k] \in Packet
    /\ QueueTypes => \A n \in Nodes : CmdPacket(n) \in Packet
<1>1. \A k \in {"data", "confirm_sleep", "confirm_wake"} : [kind |-> k] \in Packet
  BY DEF Packet
<1>2. ASSUME QueueTypes, NEW n \in Nodes PROVE CmdPacket(n) \in Packet
  <2>1. node[n] \in NodeRec
    BY <1>2 DEF QueueTypes
  <2>2. [cmd |-> node[n].cmd, seq |-> node[n].seq, rid |-> node[n].rid] \in CmdMsg
    BY <2>1 DEF NodeRec, CmdMsg
  <2> QED
    BY <2>2 DEF CmdPacket, Packet
<1> QED
  BY <1>1, <1>2
-----------------------------------------------------------------------------
(* The state after lbs_start_card.                                         *)
LEMMA InitTypes == Init => TypeInv
<1> SUFFICES ASSUME Init PROVE TypeInv
  OBVIOUS
<1> USE DEF Init, PrivInit
<1>1. QueueTypes
  BY FreeNodeType, NodesAssumption DEF QueueTypes
<1>2. NoResp \in Response
  BY RidTypes DEF NoResp, Response, FwResult
<1>3. ReplyTypes
  BY <1>2 DEF ReplyTypes
<1>4. CurrentTypes
  BY DEF CurrentTypes, Outcome, FwResult
<1>5. TimerTypes
  <2>1. nr_retries \in 0..3
    OBVIOUS
  <2>2. cmd_timed_out \in BOOLEAN /\ timer \in BOOLEAN /\ timer_running \in BOOLEAN
    BY Zenon
  <2> QED
    BY <2>1, <2>2 DEF TimerTypes
<1>6. PowerTypes
  BY SwitchAssumption DEF PowerTypes, PsState, PsMode
<1>7. TxTypes
  BY SwitchAssumption, BoundsAssumption DEF TxTypes
<1>8. RemoveTypes /\ MainTypes
  BY DEF RemoveTypes, MainTypes, MainLabel
<1>9. CardTypes
  <2>1. fw_cmds \in Seq(CmdMsg) /\ fw_events \in 0..MaxEvents
    BY BoundsAssumption, EmptySeq
  <2>2. fw_ack \in BOOLEAN /\ fw_ps \in {"off", "on", "asleep"} /\ bug \in BOOLEAN
    BY Zenon
  <2> QED
    BY <2>1, <2>2 DEF CardTypes
<1>10. [api |-> "async", cmd |-> "GENERIC"] \in Call
  BY DEF Call, Api, Command
<1>11. CallerTypes
  BY <1>10 DEF CallerTypes, Outcome, FwResult
<1>12. Holding /\ Serving /\ Building
  BY DEF Holding, Serving, Building
<1>13. seqnum \in Nat /\ dnld_sent \in BOOLEAN /\ main_woken \in BOOLEAN
       /\ event_fifo \in Seq(Event) /\ packets \in Seq(Packet)
  BY EmptySeq
<1> QED
  BY <1>1, <1>3, <1>4, <1>5, <1>6, <1>7, <1>8, <1>9, <1>11, <1>12, <1>13
  DEF TypeInv, TypeOK
-----------------------------------------------------------------------------
(* The top of the loop of lbs_thread, and its end.                         *)
LEMMA LoopTypes ==
    ASSUME TypeInv, MainCheck \/ MainWakeUp \/ MainExit \/ MainRun
    PROVE  TypeInv'
<1>1. CASE MainCheck
  <2>1. UNCHANGED <<nodeVars, curVars, seqnum, timeVars, dnld_sent, respVars,
               event_fifo, psVars, txVars, removeVars, callerVars, packets,
               fwVars>>
    BY <1>1 DEF MainCheck
  <2>2. MainTypes' /\ Serving'
    BY <1>1 DEF MainCheck, TypeInv, TypeOK, MainTypes, MainLabel, Serving
  <2>3. main_woken' \in BOOLEAN
    BY <1>1
    DEF MainCheck, ShouldSleep, NothingToDo, kthread_should_stop, TypeInv,
        TypeOK
  <2> QED
    BY <2>1, <2>2, <2>3, Unchanged DEF TypeInv, TypeOK
<1>2. CASE MainWakeUp
  <2>1. UNCHANGED <<nodeVars, curVars, seqnum, timeVars, dnld_sent, respVars,
               event_fifo, psVars, txVars, removeVars, callerVars, packets,
               fwVars>>
    BY <1>2 DEF MainWakeUp
  <2>2. MainTypes' /\ Serving' /\ main_woken' \in BOOLEAN
    BY <1>2
    DEF MainWakeUp, Goto, TypeInv, TypeOK, MainTypes, MainLabel, Serving
  <2> QED
    BY <2>1, <2>2, Unchanged DEF TypeInv, TypeOK
<1>3. CASE MainExit
  <2>1. UNCHANGED <<nodeVars, curVars, seqnum, dnld_sent, respVars,
               event_fifo, psVars, txVars, removeVars, callerVars, packets,
               fwVars>>
    BY <1>3 DEF MainExit
  <2>2. MainTypes' /\ Serving' /\ main_woken' \in BOOLEAN
    BY <1>3 DEF MainExit, Goto, TypeInv, TypeOK, MainTypes, MainLabel, Serving
  <2>3. TimerTypes'
    BY <1>3 DEF MainExit, TypeInv, TypeOK, TimerTypes
  <2> QED
    BY <2>1, <2>2, <2>3, Unchanged DEF TypeInv, TypeOK
<1>4. CASE MainRun
  <2>1. UNCHANGED <<nodeVars, curVars, seqnum, timeVars, dnld_sent, respVars,
               event_fifo, psVars, txVars, removeVars, main_woken, callerVars,
               packets, fwVars>>
    BY <1>4 DEF MainRun
  <2>2. MainTypes' /\ Serving'
    BY <1>4
    DEF MainRun, TypeInv, TypeOK, MainTypes, MainLabel, Serving, ReplyTypes
  <2> QED
    BY <2>1, <2>2, Unchanged DEF TypeInv, TypeOK
<1> QED
  BY <1>1, <1>2, <1>3, <1>4

(* lbs_process_command_response.                                           *)
LEMMA ResponseTypes ==
    ASSUME TypeInv,
           DropResponse \/ PsOrErrorResponse \/ MainRespWakeup \/ GoodResponse
           \/ MainFinish \/ MainConsume
    PROVE  TypeInv'
<1>1. CASE DropResponse
  <2>1. UNCHANGED <<nodeVars, curVars, seqnum, timeVars, dnld_sent, respVars,
               event_fifo, psVars, txVars, removeVars, callerVars, packets,
               fwVars>>
    BY <1>1 DEF DropResponse
  <2>2. MainTypes' /\ Serving' /\ main_woken' \in BOOLEAN
    BY <1>1
    DEF DropResponse, Goto, TypeInv, TypeOK, MainTypes, MainLabel, Serving
  <2> QED
    BY <2>1, <2>2, Unchanged DEF TypeInv, TypeOK
<1>2. CASE PsOrErrorResponse
  <2>1. UNCHANGED <<seqnum, dnld_sent, respVars, event_fifo, txVars,
               removeVars, packets, fwVars>>
    BY <1>2 DEF PsOrErrorResponse
  <2>2. cur_cmd \in Nodes /\ resp[main_idx] \in Response
    BY <1>2
    DEF PsOrErrorResponse, AnswerArrived, Unexpected, TypeInv, TypeOK,
        CurrentTypes, ReplyTypes, MainTypes
  <2>3. resp[main_idx].result \in Outcome
    BY <2>2 DEF Response, Outcome
  <2>4. TimerTypes'
    <3>1. nr_retries' \in 0..3
      BY <1>2
      DEF PsOrErrorResponse, AnswerArrived, EndRetries, TypeInv, TypeOK,
          TimerTypes
    <3>2. /\ cmd_timed_out' \in BOOLEAN /\ timer' \in BOOLEAN
          /\ timer_running' \in BOOLEAN
      BY <1>2, Zenon
      DEF PsOrErrorResponse, AnswerArrived, EndRetries, TypeInv, TypeOK,
          TimerTypes
    <3> QED
      BY <3>1, <3>2 DEF TimerTypes
  <2>5. PowerTypes'
    BY <1>2
    DEF PsOrErrorResponse, PsAfter, Entered, Exited, TypeInv, TypeOK,
        PowerTypes, PsState
  <2>6. QueueTypes' /\ CurrentTypes' /\ cur_cmd' \in Nodes \cup {NoNode}
        /\ outcome' \in [Callers -> Outcome]
    BY <1>2, <2>2, <2>3, CompleteTypes
    DEF PsOrErrorResponse, TypeInv, TypeOK, CurrentTypes, QueueTypes,
        CallerTypes, nodeVars
  <2>7. CallerTypes' /\ Holding'
    BY <1>2, <2>6 DEF PsOrErrorResponse, TypeInv, TypeOK, CallerTypes, Holding
  <2>8. MainTypes' /\ Serving' /\ main_woken' \in BOOLEAN
    BY <1>2, <2>2
    DEF PsOrErrorResponse, Goto, TypeInv, TypeOK, MainTypes, MainLabel,
        Serving
  <2> QED
    BY <2>1, <2>2, <2>3, <2>4, <2>5, <2>6, <2>7, <2>8, Unchanged
    DEF TypeInv, TypeOK
<1>3. CASE MainRespWakeup
  <2>1. UNCHANGED <<timeVars, dnld_sent, respVars, event_fifo, psVars, txVars,
               removeVars, callerVars, packets, fwVars>>
    BY <1>3 DEF MainRespWakeup
  <2>2. QueueTypes' /\ seqnum' \in Nat /\ cur_cmd_retcode' \in Outcome
    BY <1>3, PrepareTypes
    DEF MainRespWakeup, TypeInv, TypeOK, CurrentTypes, Command, PsCommand
  <2>3. CurrentTypes'
    BY <1>3, <2>2 DEF MainRespWakeup, TypeInv, TypeOK, CurrentTypes
  <2>4. MainTypes' /\ Serving' /\ main_woken' \in BOOLEAN
    BY <1>3
    DEF MainRespWakeup, Goto, TypeInv, TypeOK, MainTypes, MainLabel, Serving
  <2> QED
    BY <2>1, <2>2, <2>3, <2>4, Unchanged DEF TypeInv, TypeOK
<1>4. CASE GoodResponse
  <2>1. UNCHANGED <<nodeVars, seqnum, dnld_sent, respVars, event_fifo, psVars,
               txVars, removeVars, callerVars, packets, fwVars>>
    BY <1>4 DEF GoodResponse
  <2>2. cur_cmd \in Nodes /\ resp[main_idx] \in Response
    BY <1>4
    DEF GoodResponse, AnswerArrived, Unexpected, TypeInv, TypeOK,
        CurrentTypes, ReplyTypes, MainTypes
  <2>3. TimerTypes'
    <3>1. nr_retries' \in 0..3
      BY <1>4
      DEF GoodResponse, AnswerArrived, EndRetries, TypeInv, TypeOK, TimerTypes
    <3>2. /\ cmd_timed_out' \in BOOLEAN /\ timer' \in BOOLEAN
          /\ timer_running' \in BOOLEAN
      BY <1>4, Zenon
      DEF GoodResponse, AnswerArrived, EndRetries, TypeInv, TypeOK, TimerTypes
    <3> QED
      BY <3>1, <3>2 DEF TimerTypes
  <2>4. CurrentTypes'
    BY <1>4, <2>2
    DEF GoodResponse, TypeInv, TypeOK, CurrentTypes, Response, Outcome
  <2>5. MainTypes' /\ Serving' /\ main_woken' \in BOOLEAN
    BY <1>4, <2>2
    DEF GoodResponse, Goto, TypeInv, TypeOK, MainTypes, MainLabel, Serving
  <2> QED
    BY <2>1, <2>2, <2>3, <2>4, <2>5, Unchanged DEF TypeInv, TypeOK
<1>5. CASE MainFinish
  <2>1. UNCHANGED <<seqnum, timeVars, dnld_sent, respVars, event_fifo, psVars,
               txVars, removeVars, packets, fwVars>>
    BY <1>5 DEF MainFinish
  <2>2. cur_cmd \in Nodes /\ resp[main_idx].result \in Outcome
    BY <1>5
    DEF MainFinish, Serving, TypeInv, TypeOK, ReplyTypes, MainTypes, Response,
        Outcome
  <2>3. QueueTypes' /\ CurrentTypes' /\ outcome' \in [Callers -> Outcome]
    BY <1>5, <2>2, CompleteTypes DEF MainFinish, TypeInv, TypeOK, QueueTypes
  <2>4. CallerTypes' /\ Holding'
    BY <1>5, <2>3 DEF MainFinish, TypeInv, TypeOK, CallerTypes, Holding
  <2>5. MainTypes' /\ Serving' /\ main_woken' \in BOOLEAN
    BY <1>5
    DEF MainFinish, Goto, TypeInv, TypeOK, MainTypes, MainLabel, Serving
  <2> QED
    BY <2>1, <2>2, <2>3, <2>4, <2>5, Unchanged DEF TypeInv, TypeOK
<1>6. CASE MainConsume
  <2>1. UNCHANGED <<nodeVars, curVars, seqnum, timeVars, dnld_sent,
               event_fifo, psVars, txVars, removeVars, main_woken, callerVars,
               packets, fwVars>>
    BY <1>6 DEF MainConsume
  <2>2. NoResp \in Response
    BY RidTypes DEF NoResp, Response, FwResult
  <2>3. ReplyTypes'
    BY <1>6, <2>2 DEF MainConsume, TypeInv, TypeOK, ReplyTypes
  <2>4. MainTypes' /\ Serving'
    BY <1>6 DEF MainConsume, TypeInv, TypeOK, MainTypes, MainLabel, Serving
  <2> QED
    BY <2>1, <2>2, <2>3, <2>4, Unchanged DEF TypeInv, TypeOK
<1> QED
  BY <1>1, <1>2, <1>3, <1>4, <1>5, <1>6

(* lbs_mac_event_disconnected.                                             *)
LEMMA DisconnectedTypes ==
    ASSUME TypeInv, Disconnected,
           UNCHANGED <<cur_cmd, psstate, psmode, needtowakeup, xmit, sent_tx>>
    PROVE  /\ QueueTypes' /\ CurrentTypes' /\ seqnum' \in Nat
           /\ PowerTypes' /\ TxTypes' /\ Building'
<1>1. QueueTypes' /\ seqnum' \in Nat /\ cur_cmd_retcode' \in Outcome
  <2>1. CASE UNCHANGED <<nodeVars, seqnum, cur_cmd_retcode>>
    BY <2>1, Unchanged DEF TypeInv, TypeOK, CurrentTypes
  <2>2. CASE PrepareNoWait("EXIT_PS")
    BY <2>2, PrepareTypes DEF TypeInv, TypeOK, CurrentTypes, Command, PsCommand
  <2> QED
    BY <2>1, <2>2 DEF Disconnected
<1>2. CurrentTypes'
  BY <1>1 DEF TypeInv, TypeOK, CurrentTypes
<1>3. PowerTypes'
  BY DEF Disconnected, TypeInv, TypeOK, PowerTypes
<1>4. TxTypes' /\ Building'
  BY DEF Disconnected, TypeInv, TypeOK, TxTypes, Building
<1> QED
  BY <1>1, <1>2, <1>3, <1>4

(* The callbacks, handle_cmd_response among them.                          *)
LEMMA CallbackTypes == TypeInv /\ MainCallback => TypeInv'
<1> SUFFICES ASSUME TypeInv, MainCallback PROVE TypeInv'
  OBVIOUS
<1>1. UNCHANGED <<timeVars, dnld_sent, respVars, event_fifo, removeVars,
                  callerVars, packets, fwVars>>
  BY DEF MainCallback
<1>2. UNCHANGED <<cur_cmd, psstate, psmode, needtowakeup, xmit, sent_tx>>
  BY DEF MainCallback
<1>3. /\ QueueTypes' /\ CurrentTypes' /\ seqnum' \in Nat
      /\ PowerTypes' /\ TxTypes' /\ Building'
  <2>1. CASE Disconnected
    BY <2>1, <1>2, DisconnectedTypes
  <2>2. CASE UNCHANGED <<nodeVars, seqnum, cur_cmd_retcode, connect_status,
                         tx_pending_len, txq_stopped>>
    BY <2>2, <1>2, Unchanged
    DEF TypeInv, TypeOK, curVars, psVars, txVars
  <2>3. CASE Associated
    <3>1. UNCHANGED <<nodeVars, curVars, seqnum, tx_pending_len>>
      BY <2>3, <1>2 DEF Associated, curVars
    <3>2. PowerTypes'
      BY <2>3, <1>2 DEF Associated, TypeInv, TypeOK, PowerTypes
    <3>3. TxTypes' /\ Building'
      BY <2>3, <1>2 DEF Associated, TypeInv, TypeOK, TxTypes, Building
    <3> QED
      BY <3>1, <3>2, <3>3, Unchanged DEF TypeInv, TypeOK
  <2> QED
    BY <2>1, <2>2, <2>3 DEF MainCallback
<1>4. MainTypes' /\ Serving' /\ main_woken' \in BOOLEAN
  BY <1>2 DEF MainCallback, Goto, TypeInv, TypeOK, MainTypes, MainLabel, Serving
<1> QED
  BY <1>1, <1>3, <1>4, Unchanged DEF TypeInv, TypeOK

(* Timeouts and retries (main.c).                                          *)
LEMMA TimeoutTypes ==
    ASSUME TypeInv, GiveUp \/ Requeue \/ NoTimeout \/ ClearTimeout
    PROVE  TypeInv'
<1>1. CASE GiveUp
  <2>1. UNCHANGED <<seqnum, dnld_sent, respVars, event_fifo, psVars, txVars,
               removeVars, packets, fwVars>>
    BY <1>1 DEF GiveUp
  <2>2. cur_cmd \in Nodes /\ "timedout" \in Outcome
    BY <1>1 DEF GiveUp, TimedOut, TypeInv, TypeOK, CurrentTypes, Outcome
  <2>3. QueueTypes' /\ CurrentTypes' /\ outcome' \in [Callers -> Outcome]
    BY <1>1, <2>2, CompleteTypes DEF GiveUp, TypeInv, TypeOK, QueueTypes
  <2>4. CallerTypes' /\ Holding'
    BY <1>1, <2>3 DEF GiveUp, TypeInv, TypeOK, CallerTypes, Holding
  <2>5. TimerTypes'
    <3>1. nr_retries' \in 0..3
      BY <1>1 DEF GiveUp, CountAfterGivingUp, TypeInv, TypeOK, TimerTypes
    <3>2. /\ cmd_timed_out' \in BOOLEAN /\ timer' \in BOOLEAN
          /\ timer_running' \in BOOLEAN
      BY <1>1, Zenon
      DEF GiveUp, CountAfterGivingUp, TypeInv, TypeOK, TimerTypes
    <3> QED
      BY <3>1, <3>2 DEF TimerTypes
  <2>6. MainTypes' /\ Serving' /\ main_woken' \in BOOLEAN
    BY <1>1 DEF GiveUp, Goto, TypeInv, TypeOK, MainTypes, MainLabel, Serving
  <2> QED
    BY <2>1, <2>2, <2>3, <2>4, <2>5, <2>6, Unchanged DEF TypeInv, TypeOK
<1>2. CASE Requeue
  <2>1. UNCHANGED <<seqnum, respVars, event_fifo, psVars, txVars, removeVars,
               callerVars, packets, fwVars>>
    BY <1>2 DEF Requeue
  <2>2. Requeued \in Seq(Nodes)
    BY <1>2, SeqTypes
    DEF Requeue, Requeued, TimedOut, TypeInv, TypeOK, CurrentTypes, QueueTypes
  <2>3. QueueTypes' /\ CurrentTypes' /\ dnld_sent' \in BOOLEAN
    BY <1>2, <2>2 DEF Requeue, TypeInv, TypeOK, CurrentTypes, QueueTypes
  <2>4. TimerTypes'
    <3>1. nr_retries' \in 0..3
      BY <1>2 DEF Requeue, MaxRetries, TypeInv, TypeOK, TimerTypes
    <3>2. /\ cmd_timed_out' \in BOOLEAN /\ timer' \in BOOLEAN
          /\ timer_running' \in BOOLEAN
      BY <1>2, Zenon DEF Requeue, MaxRetries, TypeInv, TypeOK, TimerTypes
    <3> QED
      BY <3>1, <3>2 DEF TimerTypes
  <2>5. MainTypes' /\ Serving' /\ main_woken' \in BOOLEAN
    BY <1>2 DEF Requeue, Goto, TypeInv, TypeOK, MainTypes, MainLabel, Serving
  <2> QED
    BY <2>1, <2>2, <2>3, <2>4, <2>5, Unchanged DEF TypeInv, TypeOK
<1>3. CASE NoTimeout
  <2>1. UNCHANGED <<nodeVars, curVars, seqnum, timeVars, dnld_sent, respVars,
               event_fifo, psVars, txVars, removeVars, callerVars, packets,
               fwVars>>
    BY <1>3 DEF NoTimeout
  <2>2. MainTypes' /\ Serving' /\ main_woken' \in BOOLEAN
    BY <1>3
    DEF NoTimeout, Goto, TypeInv, TypeOK, MainTypes, MainLabel, Serving
  <2> QED
    BY <2>1, <2>2, Unchanged DEF TypeInv, TypeOK
<1>4. CASE ClearTimeout
  <2>1. UNCHANGED <<nodeVars, curVars, seqnum, dnld_sent, respVars,
               event_fifo, psVars, txVars, removeVars, callerVars, packets,
               fwVars>>
    BY <1>4 DEF ClearTimeout
  <2>2. TimerTypes'
    BY <1>4 DEF ClearTimeout, TypeInv, TypeOK, TimerTypes
  <2>3. MainTypes' /\ Serving' /\ main_woken' \in BOOLEAN
    BY <1>4
    DEF ClearTimeout, Goto, TypeInv, TypeOK, MainTypes, MainLabel, Serving
  <2> QED
    BY <2>1, <2>2, <2>3, Unchanged DEF TypeInv, TypeOK
<1> QED
  BY <1>1, <1>2, <1>3, <1>4

(* Events (lbs_process_event).                                             *)
LEMMA EventTypes ==
    ASSUME TypeInv,
           DeauthEvent \/ PsSleepEvent \/ PsAwakeEvent \/ HostAwakeEvent
           \/ OtherEvent \/ NoMoreEvents
    PROVE  TypeInv'
<1>1. CASE DeauthEvent
  <2>1. UNCHANGED <<timeVars, dnld_sent, respVars, removeVars, mainVars,
               main_woken, callerVars, packets, fwVars>>
    BY <1>1 DEF DeauthEvent, NextEvent
  <2>2. event_fifo' \in Seq(Event)
    BY <1>1, HeadTailProperties DEF DeauthEvent, NextEvent, TypeInv, TypeOK
  <2>3. UNCHANGED <<cur_cmd, psstate, psmode, needtowakeup, xmit, sent_tx>>
    BY <1>1 DEF DeauthEvent, NextEvent
  <2>4. QueueTypes' /\ CurrentTypes' /\ seqnum' \in Nat /\ PowerTypes'
        /\ TxTypes' /\ Building'
    BY <1>1, <2>3, DisconnectedTypes DEF DeauthEvent
  <2>5. Serving'
    BY <2>1, <2>3 DEF TypeInv, Serving, mainVars
  <2> QED
    BY <2>1, <2>2, <2>3, <2>4, <2>5, Unchanged DEF TypeInv, TypeOK
<1>2. CASE PsSleepEvent
  <2>1. UNCHANGED <<nodeVars, curVars, seqnum, timeVars, dnld_sent, respVars,
               txVars, removeVars, main_woken, callerVars, packets, fwVars>>
    BY <1>2 DEF PsSleepEvent, NextEvent, curVars, txVars
  <2>2. event_fifo' \in Seq(Event)
    BY <1>2, HeadTailProperties DEF PsSleepEvent, NextEvent, TypeInv, TypeOK
  <2>3. PowerTypes'
    BY <1>2 DEF PsSleepEvent, NextEvent, TypeInv, TypeOK, PowerTypes, PsState
  <2>4. MainTypes' /\ Serving'
    BY <1>2
    DEF PsSleepEvent, NextEvent, TypeInv, TypeOK, MainTypes, MainLabel,
        Serving
  <2> QED
    BY <2>1, <2>2, <2>3, <2>4, Unchanged DEF TypeInv, TypeOK
<1>3. CASE PsAwakeEvent
  <2>1. UNCHANGED <<timeVars, dnld_sent, respVars, txVars, removeVars,
               mainVars, main_woken, callerVars, packets, fwVars>>
    BY <1>3 DEF PsAwakeEvent, NextEvent, txVars
  <2>2. event_fifo' \in Seq(Event)
    BY <1>3, HeadTailProperties DEF PsAwakeEvent, NextEvent, TypeInv, TypeOK
  <2>3. QueueTypes' /\ seqnum' \in Nat /\ cur_cmd_retcode' \in Outcome
    <3>1. CASE UNCHANGED <<nodeVars, seqnum, cur_cmd_retcode>>
      BY <3>1, Unchanged DEF TypeInv, TypeOK, CurrentTypes
    <3>2. CASE PrepareNoWait("EXIT_PS")
      BY <3>2, PrepareTypes DEF TypeInv, TypeOK, CurrentTypes, Command, PsCommand
    <3> QED
      BY <1>3, <3>1, <3>2 DEF PsAwakeEvent
  <2>4. CurrentTypes' /\ Serving'
    BY <1>3, <2>1, <2>3
    DEF PsAwakeEvent, NextEvent, TypeInv, TypeOK, CurrentTypes, Serving,
        mainVars
  <2>5. PowerTypes'
    BY <1>3 DEF PsAwakeEvent, NextEvent, TypeInv, TypeOK, PowerTypes, PsState
  <2> QED
    BY <2>1, <2>2, <2>3, <2>4, <2>5, Unchanged DEF TypeInv, TypeOK
<1>4. CASE HostAwakeEvent
  <2>1. UNCHANGED <<nodeVars, curVars, timeVars, respVars, psVars, txVars,
               removeVars, mainVars, main_woken, callerVars, fwVars>>
    BY <1>4 DEF HostAwakeEvent, NextEvent, curVars, psVars, txVars
  <2>2. event_fifo' \in Seq(Event)
    BY <1>4, HeadTailProperties DEF HostAwakeEvent, NextEvent, TypeInv, TypeOK
  <2>3. seqnum' \in Nat
    BY <1>4, NextSeqType DEF HostAwakeEvent, TypeInv, TypeOK
  <2>4. packets' \in Seq(Packet) /\ dnld_sent' \in BOOLEAN
    BY <1>4, HostToCardTypes, PacketTypes DEF HostAwakeEvent, TypeInv, TypeOK
  <2>5. Serving'
    BY <2>1 DEF TypeInv, Serving, mainVars, curVars
  <2> QED
    BY <2>1, <2>2, <2>3, <2>4, <2>5, Unchanged DEF TypeInv, TypeOK
<1>5. CASE OtherEvent
  <2>1. UNCHANGED <<nodeVars, curVars, seqnum, timeVars, dnld_sent, respVars,
               psVars, txVars, removeVars, mainVars, main_woken, callerVars,
               packets, fwVars>>
    BY <1>5 DEF OtherEvent, NextEvent, curVars, psVars, txVars
  <2>2. event_fifo' \in Seq(Event)
    BY <1>5, HeadTailProperties DEF OtherEvent, NextEvent, TypeInv, TypeOK
  <2>3. Serving'
    BY <2>1 DEF TypeInv, Serving, mainVars, curVars
  <2> QED
    BY <2>1, <2>2, <2>3, Unchanged DEF TypeInv, TypeOK
<1>6. CASE NoMoreEvents
  <2>1. UNCHANGED <<nodeVars, curVars, seqnum, timeVars, dnld_sent, respVars,
               event_fifo, psVars, txVars, removeVars, callerVars, packets,
               fwVars>>
    BY <1>6 DEF NoMoreEvents
  <2>2. MainTypes' /\ Serving' /\ main_woken' \in BOOLEAN
    BY <1>6
    DEF NoMoreEvents, Goto, TypeInv, TypeOK, MainTypes, MainLabel, Serving
  <2> QED
    BY <2>1, <2>2, Unchanged DEF TypeInv, TypeOK
<1> QED
  BY <1>1, <1>2, <1>3, <1>4, <1>5, <1>6

(* The power save handshake (lbs_ps_confirm_sleep).                        *)
LEMMA SleepTypes ==
    ASSUME TypeInv,
           MainPreSleep \/ MainConfirmDelayed \/ MainConfirm
           \/ MainConfirmSent
    PROVE  TypeInv'
<1>1. CASE MainPreSleep
  <2>1. UNCHANGED <<nodeVars, curVars, seqnum, timeVars, dnld_sent, respVars,
               event_fifo, txVars, removeVars, main_woken, callerVars,
               packets, fwVars>>
    BY <1>1 DEF MainPreSleep
  <2>2. PowerTypes'
    BY <1>1 DEF MainPreSleep, TypeInv, TypeOK, PowerTypes, PsState
  <2>3. MainTypes' /\ Serving'
    BY <1>1 DEF MainPreSleep, TypeInv, TypeOK, MainTypes, MainLabel, Serving
  <2> QED
    BY <2>1, <2>2, <2>3, Unchanged DEF TypeInv, TypeOK
<1>2. CASE MainConfirmDelayed
  <2>1. UNCHANGED <<nodeVars, curVars, seqnum, timeVars, dnld_sent, respVars,
               event_fifo, psVars, txVars, removeVars, main_woken, callerVars,
               packets, fwVars>>
    BY <1>2 DEF MainConfirmDelayed
  <2>2. MainTypes' /\ Serving'
    BY <1>2
    DEF MainConfirmDelayed, TypeInv, TypeOK, MainTypes, MainLabel, Serving
  <2> QED
    BY <2>1, <2>2, Unchanged DEF TypeInv, TypeOK
<1>3. CASE MainConfirm
  <2>1. UNCHANGED <<nodeVars, curVars, seqnum, timeVars, respVars, event_fifo,
               psVars, txVars, removeVars, main_woken, callerVars, fwVars>>
    BY <1>3 DEF MainConfirm
  <2>2. packets' \in Seq(Packet) /\ dnld_sent' \in BOOLEAN
    BY <1>3, HostToCardTypes, PacketTypes DEF MainConfirm, TypeInv, TypeOK
  <2>3. MainTypes' /\ Serving'
    BY <1>3 DEF MainConfirm, TypeInv, TypeOK, MainTypes, MainLabel, Serving
  <2> QED
    BY <2>1, <2>2, <2>3, Unchanged DEF TypeInv, TypeOK
<1>4. CASE MainConfirmSent
  <2>1. UNCHANGED <<nodeVars, curVars, seqnum, timeVars, respVars, event_fifo,
               txVars, removeVars, main_woken, callerVars, packets, fwVars>>
    BY <1>4 DEF MainConfirmSent
  <2>2. dnld_sent' \in BOOLEAN
    BY <1>4 DEF MainConfirmSent
  <2>3. PowerTypes'
    BY <1>4 DEF MainConfirmSent, TypeInv, TypeOK, PowerTypes, PsState
  <2>4. MainTypes' /\ Serving'
    BY <1>4
    DEF MainConfirmSent, TypeInv, TypeOK, MainTypes, MainLabel, Serving
  <2> QED
    BY <2>1, <2>2, <2>3, <2>4, Unchanged DEF TypeInv, TypeOK
<1> QED
  BY <1>1, <1>2, <1>3, <1>4

(* lbs_execute_next_command, and the data packets after it.                *)
LEMMA ExecuteTypes ==
    ASSUME TypeInv,
           SubmitNext \/ WakeFirmwareFirst \/ IgnoreEnterPs \/ EnterPowerSave
           \/ NothingToExecute \/ MainTx
    PROVE  TypeInv'
<1>1. CASE SubmitNext
  <2>1. UNCHANGED <<seqnum, respVars, event_fifo, psVars, txVars, removeVars,
               callerVars, fwVars>>
    BY <1>1 DEF SubmitNext
  <2>2. Head(cmdpendingq) \in Nodes /\ Tail(cmdpendingq) \in Seq(Nodes)
    BY <1>1, HeadTailProperties DEF SubmitNext, TypeInv, TypeOK, QueueTypes
  <2>3. node' \in [Nodes -> NodeRec]
    <3> DEFINE n == Head(cmdpendingq)
    <3>1. n \in Nodes /\ node \in [Nodes -> NodeRec]
      BY <2>2 DEF TypeInv, TypeOK, QueueTypes
    <3>2. [node[n] EXCEPT !.sent = @ + 1] \in NodeRec
      BY <3>1 DEF NodeRec
    <3>3. node' = [node EXCEPT ![n] = [node[n] EXCEPT !.sent = @ + 1]]
      BY <1>1 DEF SubmitNext
    <3> HIDE DEF n
    <3> QED
      BY <3>1, <3>2, <3>3
  <2>4. QueueTypes'
    BY <1>1, <2>2, <2>3 DEF SubmitNext, TypeInv, TypeOK, QueueTypes
  <2>5. CurrentTypes'
    BY <1>1, <2>2 DEF SubmitNext, CurrentTypes, Outcome, FwResult
  <2>6. packets' \in Seq(Packet) /\ dnld_sent' \in BOOLEAN
    BY <1>1, <2>2, HostToCardTypes, PacketTypes
    DEF SubmitNext, HandOver, TypeInv, TypeOK
  <2>7. TimerTypes'
    BY <1>1 DEF SubmitNext, HandOver, TypeInv, TypeOK, TimerTypes
  <2>8. MainTypes' /\ Serving' /\ main_woken' \in BOOLEAN
    BY <1>1
    DEF SubmitNext, Goto, TypeInv, TypeOK, MainTypes, MainLabel, Serving
  <2> QED
    BY <2>1, <2>2, <2>3, <2>4, <2>5, <2>6, <2>7, <2>8, Unchanged
    DEF TypeInv, TypeOK
<1>2. CASE WakeFirmwareFirst
  <2>1. UNCHANGED <<timeVars, dnld_sent, respVars, event_fifo, psVars, txVars,
               removeVars, callerVars, packets, fwVars>>
    BY <1>2 DEF WakeFirmwareFirst
  <2>2. QueueTypes' /\ seqnum' \in Nat /\ cur_cmd_retcode' \in Outcome
    BY <1>2, PrepareTypes
    DEF WakeFirmwareFirst, TypeInv, TypeOK, CurrentTypes, Command, PsCommand
  <2>3. CurrentTypes'
    BY <1>2, <2>2 DEF WakeFirmwareFirst, TypeInv, TypeOK, CurrentTypes
  <2>4. MainTypes' /\ Serving' /\ main_woken' \in BOOLEAN
    BY <1>2
    DEF WakeFirmwareFirst, Goto, TypeInv, TypeOK, MainTypes, MainLabel,
        Serving
  <2> QED
    BY <2>1, <2>2, <2>3, <2>4, Unchanged DEF TypeInv, TypeOK
<1>3. CASE IgnoreEnterPs
  <2>1. UNCHANGED <<seqnum, timeVars, dnld_sent, respVars, event_fifo, psVars,
               txVars, removeVars, packets, fwVars>>
    BY <1>3 DEF IgnoreEnterPs
  <2>2. Head(cmdpendingq) \in Nodes /\ cmdpendingq' \in Seq(Nodes)
        /\ "ok" \in Outcome
    BY <1>3, HeadTailProperties
    DEF IgnoreEnterPs, TypeInv, TypeOK, QueueTypes, Outcome, FwResult
  <2>3. QueueTypes' /\ CurrentTypes' /\ outcome' \in [Callers -> Outcome]
    BY <1>3, <2>2, CompleteTypes
    DEF IgnoreEnterPs, TypeInv, TypeOK, QueueTypes
  <2>4. CallerTypes' /\ Holding'
    BY <1>3, <2>3 DEF IgnoreEnterPs, TypeInv, TypeOK, CallerTypes, Holding
  <2>5. MainTypes' /\ Serving' /\ main_woken' \in BOOLEAN
    BY <1>3
    DEF IgnoreEnterPs, Goto, TypeInv, TypeOK, MainTypes, MainLabel, Serving
  <2> QED
    BY <2>1, <2>2, <2>3, <2>4, <2>5, Unchanged DEF TypeInv, TypeOK
<1>4. CASE EnterPowerSave
  <2>1. UNCHANGED <<timeVars, dnld_sent, respVars, event_fifo, psVars, txVars,
               removeVars, callerVars, packets, fwVars>>
    BY <1>4 DEF EnterPowerSave
  <2>2. QueueTypes' /\ seqnum' \in Nat /\ cur_cmd_retcode' \in Outcome
    BY <1>4, PrepareTypes
    DEF EnterPowerSave, TypeInv, TypeOK, CurrentTypes, Command, PsCommand
  <2>3. CurrentTypes'
    BY <1>4, <2>2 DEF EnterPowerSave, TypeInv, TypeOK, CurrentTypes
  <2>4. MainTypes' /\ Serving' /\ main_woken' \in BOOLEAN
    BY <1>4
    DEF EnterPowerSave, Goto, TypeInv, TypeOK, MainTypes, MainLabel, Serving
  <2> QED
    BY <2>1, <2>2, <2>3, <2>4, Unchanged DEF TypeInv, TypeOK
<1>5. CASE NothingToExecute
  <2>1. UNCHANGED <<nodeVars, curVars, seqnum, timeVars, dnld_sent, respVars,
               event_fifo, psVars, txVars, removeVars, callerVars, packets,
               fwVars>>
    BY <1>5 DEF NothingToExecute
  <2>2. MainTypes' /\ Serving' /\ main_woken' \in BOOLEAN
    BY <1>5
    DEF NothingToExecute, Goto, TypeInv, TypeOK, MainTypes, MainLabel, Serving
  <2> QED
    BY <2>1, <2>2, Unchanged DEF TypeInv, TypeOK
<1>6. CASE MainTx
  <2>1. UNCHANGED <<nodeVars, curVars, seqnum, timeVars, respVars, event_fifo,
               psVars, removeVars, callerVars, fwVars>>
    BY <1>6 DEF MainTx
  <2>2. packets' \in Seq(Packet) /\ dnld_sent' \in BOOLEAN
    BY <1>6, HostToCardTypes, PacketTypes
    DEF MainTx, HostToCardFails, TypeInv, TypeOK
  <2>3. TxTypes' /\ Building'
    BY <1>6 DEF MainTx, TypeInv, TypeOK, TxTypes, Building
  <2>4. MainTypes' /\ Serving' /\ main_woken' \in BOOLEAN
    BY <1>6 DEF MainTx, Goto, TypeInv, TypeOK, MainTypes, MainLabel, Serving
  <2> QED
    BY <2>1, <2>2, <2>3, <2>4, Unchanged DEF TypeInv, TypeOK
<1> QED
  BY <1>1, <1>2, <1>3, <1>4, <1>5, <1>6

(* command_timer.                                                          *)
LEMMA TimerStepTypes ==
    ASSUME TypeInv, TimerExpires \/ TimerHandler
    PROVE  TypeInv'
<1>1. CASE TimerExpires
  <2>1. UNCHANGED <<nodeVars, curVars, seqnum, dnld_sent, respVars,
               event_fifo, psVars, txVars, removeVars, mainVars, main_woken,
               callerVars, packets, fwVars>>
    BY <1>1 DEF TimerExpires
  <2>2. TimerTypes'
    BY <1>1 DEF TimerExpires, TypeInv, TypeOK, TimerTypes
  <2> QED
    BY <2>1, <2>2, Unchanged DEF TypeInv, TypeOK
<1>2. CASE TimerHandler
  <2>1. UNCHANGED <<nodeVars, curVars, seqnum, dnld_sent, respVars,
               event_fifo, psVars, txVars, removeVars, mainVars, callerVars,
               packets, fwVars>>
    BY <1>2 DEF TimerHandler
  <2>2. TimerTypes'
    BY <1>2 DEF TimerHandler, TypeInv, TypeOK, TimerTypes
  <2>3. main_woken' \in BOOLEAN
    BY <1>2, WakeType DEF TimerHandler, TypeInv, TypeOK
  <2> QED
    BY <2>1, <2>2, <2>3, Unchanged DEF TypeInv, TypeOK
<1> QED
  BY <1>1, <1>2

(* The SDIO glue and the firmware behind it (if_sdio.c).                   *)
LEMMA CardTypesKept ==
    ASSUME TypeInv, CardStep
    PROVE  TypeInv'
<1>1. CASE WritePacket
  <2>1. UNCHANGED <<nodeVars, curVars, seqnum, timeVars, dnld_sent, respVars,
               event_fifo, psVars, txVars, removeVars, mainVars, main_woken,
               callerVars>>
    BY <1>1 DEF WritePacket, hostElsewhere, psVars
  <2>2. Head(packets) \in Packet /\ packets' \in Seq(Packet)
    BY <1>1, HeadTailProperties DEF WritePacket, TypeInv, TypeOK
  <2>3. Head(packets).kind = "cmd" => Head(packets).msg \in CmdMsg
    BY <2>2 DEF Packet
  <2>4. fw_cmds' \in Seq(CmdMsg)
    BY <1>1, <2>3, AppendProperties
    DEF WritePacket, TypeInv, TypeOK, CardTypes
  <2>5. CardTypes'
    BY <1>1, <2>4 DEF WritePacket, TypeInv, TypeOK, CardTypes
  <2> QED
    BY <2>1, <2>2, <2>3, <2>4, <2>5, Unchanged DEF TypeInv, TypeOK
<1>2. CASE DropPacket
  <2>1. UNCHANGED <<nodeVars, curVars, seqnum, timeVars, dnld_sent, respVars,
               event_fifo, psVars, txVars, removeVars, mainVars, main_woken,
               callerVars, fwVars>>
    BY <1>2 DEF DropPacket, hostElsewhere, psVars
  <2>2. packets' \in Seq(Packet)
    BY <1>2, HeadTailProperties DEF DropPacket, TypeInv, TypeOK
  <2> QED
    BY <2>1, <2>2, Unchanged DEF TypeInv, TypeOK
<1>3. CASE DownloadInterrupt
  <2>1. UNCHANGED <<nodeVars, curVars, seqnum, timeVars, respVars, event_fifo,
               psVars, txVars, removeVars, mainVars, callerVars, packets>>
    BY <1>3 DEF DownloadInterrupt, hostElsewhere, psVars
  <2>2. dnld_sent' \in BOOLEAN
    BY <1>3 DEF DownloadInterrupt
  <2>3. main_woken' \in BOOLEAN
    BY <1>3, WakeType DEF DownloadInterrupt, WakeForNext, TypeInv, TypeOK
  <2>4. CardTypes'
    BY <1>3 DEF DownloadInterrupt, TypeInv, TypeOK, CardTypes
  <2> QED
    BY <2>1, <2>2, <2>3, <2>4, Unchanged DEF TypeInv, TypeOK
<1>4. CASE ResponseInterrupt
  <2>1. UNCHANGED <<nodeVars, curVars, seqnum, timeVars, dnld_sent,
               event_fifo, txVars, removeVars, mainVars, callerVars, packets>>
    BY <1>4 DEF ResponseInterrupt, hostElsewhere, psVars
  <2>2. Head(fw_cmds) \in CmdMsg /\ fw_cmds' \in Seq(CmdMsg)
    BY <1>4, HeadTailProperties
    DEF ResponseInterrupt, TypeInv, TypeOK, CardTypes
  <2>3. CardTypes'
    BY <1>4, <2>2 DEF ResponseInterrupt, FwPsAfter, TypeInv, TypeOK, CardTypes
  <2>4. ReplyTypes'
    <3> DEFINE m == Head(fw_cmds)
               i == 1 - resp_idx
    <3>1. resp \in [{0, 1} -> Response] /\ resp_idx \in {0, 1} /\ i \in {0, 1}
      BY DEF TypeInv, TypeOK, ReplyTypes
    <3>2. CASE UNCHANGED respVars
      BY <3>2, Unchanged DEF TypeInv, TypeOK
    <3>3. ASSUME NEW r \in Results, NotifyResponse(i),
                 resp' = [resp EXCEPT ![i] = [cmd |-> m.cmd, seq |-> m.seq,
                                              rid |-> m.rid, result |-> r]]
          PROVE  ReplyTypes'
      <4>1. [cmd |-> m.cmd, seq |-> m.seq, rid |-> m.rid, result |-> r] \in Response
        BY <2>2, SwitchAssumption DEF CmdMsg, Response
      <4> QED
        BY <3>1, <3>3, <4>1 DEF NotifyResponse, ReplyTypes
    <3> QED
      BY <1>4, <3>2, <3>3 DEF ResponseInterrupt
  <2>5. PowerTypes'
    BY <1>4
    DEF ResponseInterrupt, NotifyResponse, hostElsewhere, Awoken, TypeInv,
        TypeOK, PowerTypes, PsState
  <2>6. main_woken' \in BOOLEAN
    BY <1>4, WakeType DEF ResponseInterrupt, NotifyResponse, TypeInv, TypeOK
  <2> QED
    BY <2>1, <2>2, <2>3, <2>4, <2>5, <2>6, Unchanged DEF TypeInv, TypeOK
<1>5. CASE LoseResponse
  <2>1. UNCHANGED <<nodeVars, curVars, seqnum, timeVars, dnld_sent, respVars,
               event_fifo, psVars, txVars, removeVars, mainVars, main_woken,
               callerVars, packets>>
    BY <1>5 DEF LoseResponse, hostElsewhere, psVars
  <2>2. fw_cmds' \in Seq(CmdMsg)
    BY <1>5, HeadTailProperties DEF LoseResponse, TypeInv, TypeOK, CardTypes
  <2>3. CardTypes'
    BY <1>5, <2>2 DEF LoseResponse, FwPsAfter, TypeInv, TypeOK, CardTypes
  <2> QED
    BY <2>1, <2>2, <2>3, Unchanged DEF TypeInv, TypeOK
<1>6. CASE EventInterrupt
  <2>1. UNCHANGED <<nodeVars, curVars, seqnum, timeVars, dnld_sent, respVars,
               txVars, removeVars, mainVars, callerVars, packets>>
    BY <1>6 DEF EventInterrupt, hostElsewhere, psVars
  <2>2. event_fifo' \in Seq(Event)
    BY <1>6, SwitchAssumption, AppendProperties
    DEF EventInterrupt, Event, TypeInv, TypeOK
  <2>3. CardTypes'
    BY <1>6, BoundsAssumption
    DEF EventInterrupt, Raises, TypeInv, TypeOK, CardTypes
  <2>4. PowerTypes'
    BY <1>6
    DEF EventInterrupt, hostElsewhere, Awoken, TypeInv, TypeOK, PowerTypes,
        PsState
  <2>5. main_woken' \in BOOLEAN
    BY <1>6, WakeType DEF EventInterrupt, TypeInv, TypeOK
  <2> QED
    BY <2>1, <2>2, <2>3, <2>4, <2>5, Unchanged DEF TypeInv, TypeOK
<1> QED
  BY <1>1, <1>2, <1>3, <1>4, <1>5, <1>6 DEF CardStep

(* lbs_hard_start_xmit.                                                    *)
LEMMA TxTypesKept ==
    ASSUME TypeInv, TxStep
    PROVE  TypeInv'
<1>1. CASE XmitDropped
  <2>1. UNCHANGED <<nodeVars, curVars, seqnum, timeVars, dnld_sent, respVars,
               event_fifo, psVars, removeVars, mainVars, callerVars, packets,
               fwVars>>
    BY <1>1 DEF XmitDropped, txElsewhere
  <2>2. TxTypes' /\ Building'
    BY <1>1, BoundsAssumption
    DEF XmitDropped, TypeInv, TypeOK, TxTypes, Building
  <2>3. main_woken' \in BOOLEAN
    BY <1>1, WakeType DEF XmitDropped, TypeInv, TypeOK
  <2> QED
    BY <2>1, <2>2, <2>3, Unchanged DEF TypeInv, TypeOK
<1>2. CASE XmitBusy
  <2>1. UNCHANGED <<nodeVars, curVars, seqnum, timeVars, dnld_sent, respVars,
               event_fifo, psVars, removeVars, mainVars, callerVars, packets,
               fwVars>>
    BY <1>2 DEF XmitBusy, txElsewhere
  <2>2. TxTypes' /\ Building'
    BY <1>2, BoundsAssumption DEF XmitBusy, TypeInv, TypeOK, TxTypes, Building
  <2>3. main_woken' \in BOOLEAN
    BY <1>2, WakeType DEF XmitBusy, TypeInv, TypeOK
  <2> QED
    BY <2>1, <2>2, <2>3, Unchanged DEF TypeInv, TypeOK
<1>3. CASE XmitBuild
  <2>1. UNCHANGED <<nodeVars, curVars, seqnum, timeVars, dnld_sent, respVars,
               event_fifo, psVars, removeVars, mainVars, main_woken,
               callerVars, packets, fwVars>>
    BY <1>3 DEF XmitBuild, txElsewhere
  <2>2. TxTypes' /\ Building'
    BY <1>3, BoundsAssumption
    DEF XmitBuild, TypeInv, TypeOK, TxTypes, Building
  <2> QED
    BY <2>1, <2>2, Unchanged DEF TypeInv, TypeOK
<1>4. CASE XmitLineUp
  <2>1. UNCHANGED <<nodeVars, curVars, seqnum, timeVars, dnld_sent, respVars,
               event_fifo, psVars, removeVars, mainVars, callerVars, packets,
               fwVars>>
    BY <1>4 DEF XmitLineUp, txElsewhere
  <2>2. TxTypes' /\ Building'
    BY <1>4, BoundsAssumption
    DEF XmitLineUp, TypeInv, TypeOK, TxTypes, Building
  <2>3. main_woken' \in BOOLEAN
    BY <1>4, WakeType DEF XmitLineUp, TypeInv, TypeOK
  <2> QED
    BY <2>1, <2>2, <2>3, Unchanged DEF TypeInv, TypeOK
<1> QED
  BY <1>1, <1>2, <1>3, <1>4 DEF TxStep

(* if_sdio_remove, lbs_stop_card and lbs_remove_card.                      *)
LEMMA RemoveTypesKept ==
    ASSUME TypeInv, RemoveStep
    PROVE  TypeInv'
<1>1. CASE CardRemoved
  <2>1. UNCHANGED <<nodeVars, curVars, seqnum, timeVars, dnld_sent, respVars,
               event_fifo, psVars, txVars, mainVars, main_woken, callerVars,
               packets, fwVars>>
    BY <1>1 DEF CardRemoved, rmElsewhere, timeVars, psVars, txVars
  <2>2. RemoveTypes'
    BY <1>1 DEF CardRemoved, TypeInv, TypeOK, RemoveTypes
  <2> QED
    BY <2>1, <2>2, Unchanged DEF TypeInv, TypeOK
<1>2. CASE FlushPending
  <2>1. UNCHANGED <<curVars, seqnum, dnld_sent, respVars, event_fifo, psVars,
               mainVars, main_woken, callerVars, packets, fwVars>>
    BY <1>2 DEF FlushPending, rmElsewhere, timeVars, psVars, txVars
  <2>2. RemoveTypes'
    BY <1>2 DEF FlushPending, TypeInv, TypeOK, RemoveTypes
  <2>3. TimerTypes'
    BY <1>2 DEF FlushPending, rmElsewhere, TypeInv, TypeOK, TimerTypes
  <2>4. TxTypes' /\ Building'
    BY <1>2 DEF FlushPending, rmElsewhere, TypeInv, TypeOK, TxTypes, Building
  <2>5. ASSUME NEW n \in Nodes
        PROVE  [node[n] EXCEPT !.result = "noent", !.woken = TRUE] \in NodeRec
    BY DEF TypeInv, TypeOK, QueueTypes, NodeRec, Outcome
  <2>6. QueueTypes'
    BY <1>2, <2>5 DEF FlushPending, TypeInv, TypeOK, QueueTypes
  <2> QED
    BY <2>1, <2>2, <2>3, <2>4, <2>5, <2>6, Unchanged DEF TypeInv, TypeOK
<1>3. CASE CancelWork
  <2>1. UNCHANGED <<nodeVars, curVars, seqnum, timeVars, dnld_sent, respVars,
               event_fifo, txVars, mainVars, main_woken, callerVars, packets,
               fwVars>>
    BY <1>3 DEF CancelWork, rmElsewhere, timeVars, psVars, txVars
  <2>2. RemoveTypes'
    BY <1>3 DEF CancelWork, TypeInv, TypeOK, RemoveTypes
  <2>3. PowerTypes'
    BY <1>3 DEF CancelWork, rmElsewhere, TypeInv, TypeOK, PowerTypes, PsMode
  <2> QED
    BY <2>1, <2>2, <2>3, Unchanged DEF TypeInv, TypeOK
<1>4. CASE StopThread
  <2>1. UNCHANGED <<nodeVars, curVars, seqnum, timeVars, dnld_sent, respVars,
               event_fifo, psVars, txVars, mainVars, callerVars, packets,
               fwVars>>
    BY <1>4 DEF StopThread, rmElsewhere, timeVars, psVars, txVars
  <2>2. RemoveTypes'
    BY <1>4 DEF StopThread, TypeInv, TypeOK, RemoveTypes
  <2>3. main_woken' \in BOOLEAN
    BY <1>4, WakeType DEF StopThread, TypeInv, TypeOK
  <2> QED
    BY <2>1, <2>2, <2>3, Unchanged DEF TypeInv, TypeOK
<1>5. CASE FreeAdapter
  <2>1. UNCHANGED <<nodeVars, curVars, seqnum, dnld_sent, respVars,
               event_fifo, psVars, txVars, mainVars, main_woken, callerVars,
               packets, fwVars>>
    BY <1>5 DEF FreeAdapter, rmElsewhere, timeVars, psVars, txVars
  <2>2. RemoveTypes'
    BY <1>5 DEF FreeAdapter, TypeInv, TypeOK, RemoveTypes
  <2>3. TimerTypes'
    BY <1>5 DEF FreeAdapter, rmElsewhere, TypeInv, TypeOK, TimerTypes
  <2> QED
    BY <2>1, <2>2, <2>3, Unchanged DEF TypeInv, TypeOK
<1> QED
  BY <1>1, <1>2, <1>3, <1>4, <1>5 DEF RemoveStep

(* lbs_get_cmd_ctrl_node and the filling in of the node.                   *)
LEMMA GetNodeTypes ==
    ASSUME TypeInv, NEW c \in Callers, NEW api \in Api, NEW cmd \in Command,
           pc[c] = "idle", GetNode(c, api, cmd)
    PROVE  /\ QueueTypes' /\ seqnum' \in Nat /\ CallerTypes' /\ Holding'
           /\ main_woken' \in BOOLEAN
<1> DEFINE n == Head(cmdfreeq)
<1>1. call' \in [Callers -> Call] /\ calls' \in [Callers -> Nat] /\ calls[c] + 1 \in Nat
  <2>1. [api |-> api, cmd |-> cmd] \in Call
    BY DEF Call
  <2> QED
    BY <2>1 DEF GetNode, TypeInv, TypeOK, CallerTypes
<1>2. ASSUME NEW value \in Outcome, ReturnEarly(c, value), main_woken' \in BOOLEAN
      PROVE  /\ QueueTypes' /\ seqnum' \in Nat /\ CallerTypes' /\ Holding'
             /\ main_woken' \in BOOLEAN
  BY <1>1, <1>2, Unchanged DEF ReturnEarly, TypeInv, TypeOK, CallerTypes, Holding
<1>3. CASE surpriseremoved
  BY <1>2, <1>3 DEF GetNode, TypeInv, TypeOK, Outcome
<1>4. CASE ~surpriseremoved /\ cmdfreeq = <<>>
  BY <1>2, <1>4, WakeType DEF GetNode, TypeInv, TypeOK, Outcome
<1>5. CASE ~surpriseremoved /\ cmdfreeq # <<>>
  <2>1. n \in Nodes /\ Tail(cmdfreeq) \in Seq(Nodes)
    BY <1>5, HeadTailProperties DEF TypeInv, TypeOK, QueueTypes
  <2>2. node[n] \in NodeRec
    BY <2>1 DEF TypeInv, TypeOK, QueueTypes
  <2>3. Filled(cmd, NextSeq, Callback(api), <<c, calls[c] + 1>>) \in NodeRec
    BY <1>1, FilledType, NextSeqType, RidTypes DEF Callback, TypeInv, TypeOK
  <2>4. [Filled(cmd, NextSeq, Callback(api), <<c, calls[c] + 1>>)
            EXCEPT !.woken = node[n].woken] \in NodeRec
    BY <2>2, <2>3 DEF NodeRec
  <2>5. QueueTypes'
    <3> DEFINE new == [Filled(cmd, NextSeq, Callback(api), <<c, calls[c] + 1>>)
                          EXCEPT !.woken = node[n].woken]
    <3>1. node' = [node EXCEPT ![n] = new]
      BY <1>5 DEF GetNode
    <3>2. cmdfreeq' = Tail(cmdfreeq) /\ cmdpendingq' = cmdpendingq
      BY <1>5 DEF GetNode
    <3>3. new \in NodeRec
      BY <2>4
    <3> HIDE DEF new, n
    <3> QED
      BY <2>1, <3>1, <3>2, <3>3 DEF TypeInv, TypeOK, QueueTypes
  <2>6. CallerTypes' /\ Holding'
    <3>1. /\ pc' = [pc EXCEPT ![c] = "filled"] /\ held' = [held EXCEPT ![c] = n]
          /\ outcome' = [outcome EXCEPT ![c] = "pending"] /\ ret' = ret
      BY <1>5 DEF GetNode
    <3> HIDE DEF n
    <3> QED
      BY <1>1, <2>1, <3>1 DEF TypeInv, TypeOK, CallerTypes, Holding, Outcome
  <2>7. seqnum' \in Nat /\ main_woken' \in BOOLEAN
    BY <1>5, NextSeqType DEF GetNode, TypeInv, TypeOK
  <2> QED
    BY <2>5, <2>6, <2>7
<1> QED
  BY <1>3, <1>4, <1>5

(* __lbs_cmd, lbs_cmd_async, lbs_prepare_and_send_command, lbs_set_power.   *)
LEMMA CallerTypesKept ==
    ASSUME TypeInv, NEW c \in Callers, CallerStep(c)
    PROVE  TypeInv'
<1>1. CASE Issue(c)
  <2>1. UNCHANGED <<curVars, timeVars, dnld_sent, respVars, event_fifo,
               psVars, txVars, removeVars, mainVars, packets, fwVars>>
    BY <1>1 DEF Issue, elsewhere, curVars, psVars
  <2>2. ASSUME NEW k \in Program[c][calls[c] + 1], k.api \in Api
        PROVE  k.cmd \in Command
    <3>1. Program[c] \in Seq(SUBSET CallOrPs) /\ calls[c] + 1 \in 1..Len(Program[c])
      BY <1>1, ProgramAssumption, LenProperties DEF Issue, TypeInv, TypeOK, CallerTypes
    <3>2. k \in CallOrPs
      BY <2>2, <3>1, ElementOfSeq
    <3> QED
      BY <2>2, <3>2 DEF CallOrPs, Call, PsCommand, Command
  <2>3. QueueTypes' /\ seqnum' \in Nat /\ CallerTypes' /\ Holding'
        /\ main_woken' \in BOOLEAN
    BY <1>1, <2>2, GetNodeTypes DEF Issue
  <2> QED
    BY <2>1, <2>2, <2>3, Unchanged DEF TypeInv, TypeOK
<1>2. CASE SetPower(c)
  <2>1. UNCHANGED <<curVars, timeVars, dnld_sent, respVars, event_fifo,
               txVars, removeVars, mainVars, packets, fwVars>>
    BY <1>2 DEF SetPower, elsewhere, curVars
  <2>2. QueueTypes' /\ seqnum' \in Nat /\ CallerTypes' /\ Holding'
        /\ main_woken' \in BOOLEAN
    <3>1. CASE \E cmd \in Command : GetNode(c, "wait", cmd)
      BY <1>2, <3>1, GetNodeTypes DEF SetPower, Api
    <3>2. CASE /\ ReturnEarly(c, "ok") /\ calls' = [calls EXCEPT ![c] = @ + 1]
               /\ UNCHANGED <<call, main_woken>>
      BY <3>2, Unchanged
      DEF ReturnEarly, TypeInv, TypeOK, CallerTypes, Holding, Outcome, FwResult
    <3>3. "ENTER_PS" \in Command /\ "EXIT_PS" \in Command
      BY DEF Command, PsCommand
    <3> QED
      BY <1>2, <3>1, <3>2, <3>3 DEF SetPower, lbs_set_power_on, lbs_set_power_off
  <2>3. PowerTypes'
    BY <1>2
    DEF SetPower, lbs_set_power_on, lbs_set_power_off, elsewhere, TypeInv,
        TypeOK, PowerTypes, PsMode
  <2> QED
    BY <2>1, <2>2, <2>3, Unchanged DEF TypeInv, TypeOK
<1>3. CASE Queue(c)
  <2>1. UNCHANGED <<curVars, seqnum, timeVars, dnld_sent, respVars,
               event_fifo, psVars, txVars, removeVars, mainVars, packets,
               fwVars>>
    BY <1>3 DEF Queue, elsewhere, psVars, curVars
  <2>2. held[c] \in Nodes /\ Enqueued(held[c], call[c].cmd) \in Seq(Nodes)
    BY <1>3, EnqueuedType DEF Queue, TypeInv, TypeOK, Holding, QueueTypes
  <2>3. node' \in [Nodes -> NodeRec]
    <3>1. node \in [Nodes -> NodeRec] /\ node[held[c]].seq \in Nat
      BY <2>2 DEF TypeInv, TypeOK, QueueTypes, NodeRec
    <3>2. ASSUME NEW s \in Nat
          PROVE  [node[held[c]] EXCEPT !.seq = s, !.woken = FALSE, !.result = "ok"]
                 \in NodeRec
      BY <2>2, <3>1 DEF NodeRec, Outcome, FwResult
    <3>3. PICK s \in {node[held[c]].seq, seqnum} :
             node' = [node EXCEPT ![held[c]] = [node[held[c]] EXCEPT
                                    !.seq = s, !.woken = FALSE, !.result = "ok"]]
      BY <1>3 DEF Queue
    <3> QED
      BY <2>2, <3>1, <3>2, <3>3 DEF TypeInv, TypeOK
  <2>4. QueueTypes'
    BY <1>3, <2>2, <2>3 DEF Queue, TypeInv, TypeOK, QueueTypes
  <2>5. CallerTypes' /\ Holding'
    BY <1>3, <2>2
    DEF Queue, TypeInv, TypeOK, CallerTypes, Holding, Outcome, FwResult
  <2>6. main_woken' \in BOOLEAN
    BY <1>3, WakeType DEF Queue, TypeInv, TypeOK
  <2> QED
    BY <2>1, <2>2, <2>3, <2>4, <2>5, <2>6, Unchanged DEF TypeInv, TypeOK
<1>4. CASE ReturnSync(c)
  <2>1. UNCHANGED <<curVars, seqnum, timeVars, dnld_sent, respVars,
               event_fifo, psVars, txVars, removeVars, mainVars, main_woken,
               packets, fwVars>>
    BY <1>4 DEF ReturnSync, elsewhere, psVars, curVars
  <2>2. held[c] \in Nodes /\ node[held[c]].result \in Outcome
    BY <1>4 DEF ReturnSync, TypeInv, TypeOK, Holding, QueueTypes, NodeRec
  <2>3. QueueTypes'
    BY <1>4, <2>2, CleanedType, AppendProperties
    DEF ReturnSync, TypeInv, TypeOK, QueueTypes
  <2>4. CallerTypes' /\ Holding'
    BY <1>4, <2>2
    DEF ReturnSync, TypeInv, TypeOK, CallerTypes, Holding, Outcome, FwResult
  <2> QED
    BY <2>1, <2>2, <2>3, <2>4, Unchanged DEF TypeInv, TypeOK
<1>5. CASE EndWait(c)
  <2>1. UNCHANGED <<nodeVars, curVars, seqnum, timeVars, dnld_sent, respVars,
               event_fifo, psVars, txVars, removeVars, mainVars, main_woken,
               packets, fwVars>>
    BY <1>5 DEF EndWait, elsewhere, psVars, curVars
  <2>2. CallerTypes' /\ Holding'
    BY <1>5
    DEF EndWait, TypeInv, TypeOK, CallerTypes, Holding, Outcome, FwResult
  <2> QED
    BY <2>1, <2>2, Unchanged DEF TypeInv, TypeOK
<1>6. CASE ReturnLegacy(c)
  <2>1. UNCHANGED <<nodeVars, seqnum, timeVars, dnld_sent, respVars,
               event_fifo, psVars, txVars, removeVars, mainVars, main_woken,
               packets, fwVars>>
    BY <1>6 DEF ReturnLegacy, elsewhere, psVars
  <2>2. CallerTypes' /\ Holding'
    BY <1>6
    DEF ReturnLegacy, TypeInv, TypeOK, CallerTypes, Holding, Outcome, FwResult
  <2>3. CurrentTypes' /\ Serving'
    BY <1>6
    DEF ReturnLegacy, elsewhere, TypeInv, TypeOK, CurrentTypes, Outcome,
        FwResult, Serving, mainVars
  <2> QED
    BY <2>1, <2>2, <2>3, Unchanged DEF TypeInv, TypeOK
<1> QED
  BY <1>1, <1>2, <1>3, <1>4, <1>5, <1>6 DEF CallerStep
-----------------------------------------------------------------------------
(* Every step of the driver keeps the types.                               *)
LEMMA StepTypes == TypeInv /\ [Next]_vars => TypeInv'
<1> SUFFICES ASSUME TypeInv, [Next]_vars PROVE TypeInv'
  OBVIOUS
<1>1. CASE UNCHANGED vars
  BY <1>1, Unchanged DEF vars, TypeInv, TypeOK
<1>2. CASE Running
  <2>1. CASE MainStep
    BY <2>1, LoopTypes, ResponseTypes, CallbackTypes, TimeoutTypes, EventTypes,
       SleepTypes, ExecuteTypes DEF MainStep
  <2>2. CASE TimerExpires \/ TimerHandler
    BY <2>2, TimerStepTypes
  <2> QED
    BY <1>2, <2>1, <2>2, CallerTypesKept, CardTypesKept, TxTypesKept, RemoveTypesKept
    DEF Running
<1> QED
  BY <1>1, <1>2 DEF Next, AllReturned, Halted

(* Type correctness: whatever the callers, the timer, the card, the        *)
(* network layer and the removal do, every field of struct lbs_private     *)
(* keeps its type, up to LBS_NUM_CMD_BUFFERS nodes and any bound.          *)
THEOREM TypeCorrectness == Spec => []TypeOK
<1>1. TypeInv => TypeOK
  BY DEF TypeInv
<1> QED
  BY InitTypes, StepTypes, <1>1, PTL DEF Spec
=============================================================================
