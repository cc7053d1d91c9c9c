----------------------------- MODULE LbsThread -----------------------------
(***************************************************************************)
(* The main thread of the driver, lbs_thread (main.c), with what it calls: *)
(* lbs_process_command_response and lbs_process_event (cmdresp.c),         *)
(* lbs_execute_next_command, lbs_submit_command and the power save         *)
(* handshake (cmd.c).                                                      *)
(*                                                                         *)
(* main is the program counter.  One turn of the loop visits               *)
(*   check [asleep] run [resp callback finish consume] timeout             *)
(*   [clear_timeout] events [confirm confirm_sent] pre_sleep exec tx       *)
(***************************************************************************)
EXTENDS LbsPriv

Goto(label) ==
    /\ main' = label
    /\ UNCHANGED <<main_ret, main_idx, main_woken>>

(* if_sdio_remove has called kthread_stop.                                 *)
kthread_should_stop == remover = "stopping"

(* The decision at the top of the loop, once add_wait_queue and            *)
(* set_current_state(TASK_INTERRUPTIBLE) have been done: the thread is on  *)
(* the wait queue and a wake-up before the decision is not lost.           *)
NothingToDo ==
    /\ ~cmd_timed_out
    /\ \/ dnld_sent
       \/ /\ tx_pending_len <= 0
          /\ resp[resp_idx] = NoResp
          /\ cur_cmd # NoNode \/ (cmdpendingq = <<>> /\ event_fifo = <<>>)

ShouldSleep_EvenIfStopped ==
    surpriseremoved \/ (~kthread_should_stop /\ (psstate = "SLEEP" \/ NothingToDo))

ShouldSleep ==
    ~kthread_should_stop /\ (surpriseremoved \/ psstate = "SLEEP" \/ NothingToDo)

(* schedule() returns at once if the thread has been woken since it joined *)
(* the wait queue.                                                         *)
MainCheck ==
    /\ main = "check"
    /\ main' = IF ShouldSleep THEN "asleep" ELSE "run"
    /\ main_woken' = (main_woken /\ ShouldSleep)
    /\ UNCHANGED <<nodeVars, curVars, seqnum, timeVars, dnld_sent, respVars,
                   event_fifo, psVars, txVars, removeVars, main_ret,
                   main_idx, callerVars, packets, fwVars>>

MainWakeUp ==
    /\ main = "asleep"
    /\ main_woken
    /\ main' = "run"
    /\ main_woken' = FALSE
    /\ UNCHANGED <<nodeVars, curVars, seqnum, timeVars, dnld_sent, respVars,
                   event_fifo, psVars, txVars, removeVars, main_ret,
                   main_idx, callerVars, packets, fwVars>>

(* The loop ends; the timer is deleted.                                    *)
MainExit ==
    /\ main = "run"
    /\ kthread_should_stop
    /\ timer' = FALSE
    /\ Goto("dead")
    /\ UNCHANGED <<nodeVars, curVars, seqnum, nr_retries, cmd_timed_out,
                   timer_running, dnld_sent, respVars, event_fifo, psVars,
                   txVars, removeVars, callerVars, packets, fwVars>>

(* After the wait: go round again if the card is gone, otherwise look at   *)
(* the response buffer the driver flipped to last.                         *)
MainRun ==
    /\ main = "run"
    /\ ~kthread_should_stop
    /\ main' = CASE surpriseremoved             -> "check"
                 [] resp[resp_idx] # NoResp     -> "resp"
                 [] OTHER                       -> "timeout"
    /\ main_idx' = IF main' = "resp" THEN resp_idx ELSE 0
    /\ UNCHANGED <<nodeVars, curVars, seqnum, timeVars, dnld_sent, respVars,
                   event_fifo, psVars, txVars, removeVars, main_ret,
                   main_woken, callerVars, packets, fwVars>>
-----------------------------------------------------------------------------
(* lbs_process_command_response.                                           *)

(* CMD_RET of a command: PS_MODE answers both of its actions.              *)
CmdRet(cmd) == IF cmd \in PsCommand THEN "PS_MODE" ELSE cmd

Unexpected_AnyNumber(r) ==
    cur_cmd # NoNode => r.cmd # node[cur_cmd].cmd \/ r.result = "defer"

(* The checks under driver_lock that make the response go unused.          *)
Unexpected(r) ==
    cur_cmd # NoNode =>
        \/ r.seq # node[cur_cmd].seq
        \/ /\ CmdRet(r.cmd) # CmdRet(node[cur_cmd].cmd)
           /\ r.cmd # "ASSOCIATE"
           /\ node[cur_cmd].cmd # "ASSOCIATE"
        \/ r.result = "defer"

DropResponse ==
    /\ main = "resp"
    /\ Unexpected(resp[main_idx])
    /\ Goto("consume")
    /\ UNCHANGED <<nodeVars, curVars, seqnum, timeVars, dnld_sent, respVars,
                   event_fifo, psVars, txVars, removeVars, callerVars,
                   packets, fwVars>>

(* del_timer does not wait for a handler that already runs.                *)
EndRetries_CountKept ==
    /\ timer' = FALSE /\ cmd_timed_out' = FALSE
    /\ UNCHANGED <<timer_running, nr_retries>>
EndRetries ==
    /\ timer' = FALSE /\ cmd_timed_out' = FALSE /\ nr_retries' = 0
    /\ UNCHANGED timer_running

AnswerArrived ==
    /\ main = "resp"
    /\ ~Unexpected(resp[main_idx])
    /\ EndRetries

(* What the reply to PS_MODE says of the firmware: 0 with the action.      *)
Entered(r) == r.cmd = "ENTER_PS" /\ r.result = "ok"
Exited(r)  == r.cmd = "EXIT_PS" /\ r.result = "ok"

PsAfter_ResultIgnored(r) ==
    CASE r.cmd = "ENTER_PS" -> "AWAKE" [] r.cmd = "EXIT_PS" -> "FULL_POWER" [] OTHER -> psstate
PsAfter(r) ==
    CASE Entered(r) -> "AWAKE" [] Exited(r) -> "FULL_POWER" [] OTHER -> psstate

(* A reply to PS_MODE, or an error: the command completes at once.  After  *)
(* an ENTER_PS while disconnected the locks are dropped first, to queue an *)
(* EXIT_PS (MainRespWakeup).  (The firmware's mode is infrastructure: only *)
(* there does lbs_set_power use PS_MODE.)                                  *)
PsOrErrorResponse ==
    LET r == resp[main_idx] IN
    /\ AnswerArrived
    /\ r.cmd \in PsCommand \/ r.result # "ok"
    /\ psstate' = PsAfter(r)
    /\ needtowakeup' = (needtowakeup /\ ~Entered(r) /\ ~Exited(r))
    /\ \/ /\ Entered(r) /\ ~connect_status
          /\ Goto("resp_wakeup")
          /\ cur_cmd_retcode' = r.result
          /\ UNCHANGED <<nodeVars, cur_cmd, outcome>>
       \/ /\ ~(Entered(r) /\ ~connect_status)
          /\ Goto("consume")
          /\ Complete(cur_cmd, r.result)
          /\ UNCHANGED cmdpendingq
    /\ UNCHANGED <<seqnum, dnld_sent, respVars, event_fifo, psmode,
                   connect_status, txVars, removeVars, pc, held, call,
                   calls, ret, packets, fwVars>>

MainRespWakeup ==
    /\ main = "resp_wakeup"
    /\ PrepareNoWait("EXIT_PS")
    /\ Goto("finish")
    /\ UNCHANGED <<cur_cmd, timeVars, dnld_sent, respVars, event_fifo, psVars,
                   txVars, removeVars, callerVars, packets, fwVars>>

(* A successful reply to any other command: the lock is dropped for the    *)
(* callback.                                                               *)
GoodResponse ==
    LET r == resp[main_idx] IN
    /\ AnswerArrived
    /\ r.cmd \notin PsCommand /\ r.result = "ok"
    /\ cur_cmd_retcode' = r.result
    /\ Goto("callback")
    /\ UNCHANGED <<nodeVars, cur_cmd, seqnum, dnld_sent, respVars, event_fifo,
                   psVars, txVars, removeVars, callerVars, packets, fwVars>>

(* lbs_mac_event_disconnected: from an event or from the reply to          *)
(* DEAUTHENTICATE.  The pending packet is thrown away and, in power save,  *)
(* the firmware is told to leave it.                                       *)
Disconnected ==
    \/ /\ ~connect_status
       /\ UNCHANGED <<nodeVars, seqnum, cur_cmd_retcode, connect_status,
                      tx_pending_len, txq_stopped>>
    \/ /\ connect_status
       /\ connect_status' = FALSE
       /\ tx_pending_len' = 0
       /\ txq_stopped' = TRUE
       /\ IF psstate # "FULL_POWER"
          THEN PrepareNoWait("EXIT_PS")
          ELSE UNCHANGED <<nodeVars, seqnum, cur_cmd_retcode>>

Associated_QueueLeft ==
    connect_status' = TRUE /\ UNCHANGED <<nodeVars, seqnum, cur_cmd_retcode, tx_pending_len, txq_stopped>>

(* lbs_ret_80211_associate, when the firmware has associated.              *)
Associated ==
    /\ connect_status' = TRUE
    /\ txq_stopped' = (txq_stopped /\ tx_pending_len # 0)
    /\ UNCHANGED <<nodeVars, seqnum, cur_cmd_retcode, tx_pending_len>>

(* The callback of the node, or handle_cmd_response.  DEAUTHENTICATE       *)
(* disconnects, and so does an ASSOCIATE whose status code (in the body)   *)
(* is an error; one for a BSS that is gone from the list does nothing.     *)
(* The others only copy data.                                              *)
MainCallback ==
    /\ main = "callback"
    /\ \/ /\ node[cur_cmd].cb = "null" /\ resp[main_idx].cmd = "DEAUTHENTICATE"
          /\ Disconnected
       \/ /\ node[cur_cmd].cb = "null" /\ resp[main_idx].cmd = "ASSOCIATE"
          /\ \/ Associated
             \/ Disconnected
       \/ /\ node[cur_cmd].cb = "null" => resp[main_idx].cmd # "DEAUTHENTICATE"
          /\ UNCHANGED <<nodeVars, seqnum, cur_cmd_retcode, connect_status,
                         tx_pending_len, txq_stopped>>
    /\ Goto("finish")
    /\ UNCHANGED <<cur_cmd, timeVars, dnld_sent, respVars, event_fifo, psstate,
                   psmode, needtowakeup, xmit, sent_tx, removeVars,
                   callerVars, packets, fwVars>>

(* The lock is taken again and the command completes.                      *)
MainFinish ==
    /\ main = "finish"
    /\ Complete(cur_cmd, resp[main_idx].result)
    /\ Goto("consume")
    /\ UNCHANGED <<cmdpendingq, seqnum, timeVars, dnld_sent, respVars,
                   event_fifo, psVars, txVars, removeVars, pc, held, call,
                   calls, ret, packets, fwVars>>

(* Only now is the buffer free for if_sdio_handle_cmd: resp_len is zeroed. *)
MainConsume ==
    /\ main = "consume"
    /\ resp' = [resp EXCEPT ![main_idx] = NoResp]
    /\ main' = "timeout"
    /\ main_idx' = 0
    /\ UNCHANGED <<nodeVars, curVars, seqnum, timeVars, dnld_sent, resp_idx,
                   event_fifo, psVars, txVars, removeVars, main_ret,
                   main_woken, callerVars, packets, fwVars>>
-----------------------------------------------------------------------------
(* Timeouts: up to 3 resubmissions, from the head of the queue.  None of   *)
(* this is under driver_lock.                                              *)
TimedOut == cmd_timed_out /\ cur_cmd # NoNode

MaxRetries_OneMore == 4
MaxRetries == 3

CountAfterGivingUp_Kept == nr_retries
CountAfterGivingUp == 0

GiveUp ==
    /\ main = "timeout"
    /\ TimedOut /\ nr_retries + 1 > MaxRetries
    /\ nr_retries' = CountAfterGivingUp
    /\ cmd_timed_out' = FALSE
    /\ Complete(cur_cmd, "timedout")
    /\ Goto("events")
    /\ UNCHANGED <<cmdpendingq, seqnum, timer, timer_running, dnld_sent,
                   respVars, event_fifo, psVars, txVars, removeVars, pc,
                   held, call, calls, ret, packets, fwVars>>

Requeued_Last == Append(cmdpendingq, cur_cmd)
Requeued_Nowhere == cmdpendingq
Requeued == <<cur_cmd>> \o cmdpendingq

Requeue ==
    /\ main = "timeout"
    /\ TimedOut /\ nr_retries + 1 <= MaxRetries
    /\ nr_retries' = nr_retries + 1
    /\ cmd_timed_out' = FALSE
    /\ cur_cmd' = NoNode
    /\ dnld_sent' = FALSE
    /\ cmdpendingq' = Requeued
    /\ Goto("events")
    /\ UNCHANGED <<cmdfreeq, node, cur_cmd_retcode, seqnum, timer,
                   timer_running, respVars, event_fifo, psVars, txVars,
                   removeVars, callerVars, packets, fwVars>>

(* The test fails, and cmd_timed_out is cleared all the same, a step       *)
(* later: the timer's handler may run in between.                          *)
NoTimeout ==
    /\ main = "timeout"
    /\ ~TimedOut
    /\ Goto("clear_timeout")
    /\ UNCHANGED <<nodeVars, curVars, seqnum, timeVars, dnld_sent, respVars,
                   event_fifo, psVars, txVars, removeVars, callerVars,
                   packets, fwVars>>

ClearTimeout ==
    /\ main = "clear_timeout"
    /\ cmd_timed_out' = FALSE
    /\ Goto("events")
    /\ UNCHANGED <<nodeVars, curVars, seqnum, nr_retries, timer, timer_running,
                   dnld_sent, respVars, event_fifo, psVars, txVars,
                   removeVars, callerVars, packets, fwVars>>
-----------------------------------------------------------------------------
(* Events, one at a time: popped under the lock, then processed.  While    *)
(* disconnecting the code sleeps for a second between the two.             *)
NextEvent(e) ==
    /\ main = "events"
    /\ event_fifo # <<>>
    /\ Head(event_fifo) = e
    /\ event_fifo' = Tail(event_fifo)
    /\ UNCHANGED <<cur_cmd, timeVars, respVars, psmode, xmit, sent_tx,
                   removeVars, callerVars, fwVars>>

(* Disassociation and link loss are handled like deauthentication.         *)
DeauthEvent ==
    /\ NextEvent("DEAUTHENTICATED")
    /\ Disconnected
    /\ UNCHANGED <<mainVars, main_woken, dnld_sent, psstate, needtowakeup, packets>>

(* The firmware wants to sleep.                                            *)
PsSleepEvent ==
    /\ NextEvent("PS_SLEEP")
    /\ \/ /\ psstate = "FULL_POWER"
          /\ UNCHANGED <<psstate, main, main_ret>>
       \/ /\ psstate # "FULL_POWER"
          /\ psstate' = "PRE_SLEEP"
          /\ main' = "confirm"
          /\ main_ret' = "events"
    /\ UNCHANGED <<nodeVars, cur_cmd_retcode, seqnum, dnld_sent, needtowakeup,
                   connect_status, tx_pending_len, txq_stopped, main_idx,
                   main_woken, packets>>

PsAwakeEvent ==
    /\ NextEvent("PS_AWAKE")
    /\ \/ /\ psstate = "FULL_POWER"
          /\ UNCHANGED <<psstate, nodeVars, seqnum, cur_cmd_retcode>>
       \/ /\ psstate # "FULL_POWER"
          /\ psstate' = "AWAKE"
          /\ IF needtowakeup
             THEN PrepareNoWait("EXIT_PS")
             ELSE UNCHANGED <<nodeVars, seqnum, cur_cmd_retcode>>
    /\ UNCHANGED <<mainVars, main_woken, dnld_sent, needtowakeup,
                   connect_status, tx_pending_len, txq_stopped, packets>>

(* lbs_send_confirmwake: a command sent outside the queue, numbered but    *)
(* never waited for.                                                       *)
HostAwakeEvent ==
    /\ NextEvent("HOST_AWAKE")
    /\ seqnum' = NextSeq
    /\ HostToCard([kind |-> "confirm_wake"]) \/ HostToCardFails
    /\ UNCHANGED <<mainVars, main_woken, nodeVars, cur_cmd_retcode, psstate,
                   needtowakeup, connect_status, tx_pending_len, txq_stopped>>

(* Events that are only logged or passed on to user space.                 *)
OtherEvent ==
    /\ NextEvent("OTHER")
    /\ UNCHANGED <<mainVars, main_woken, nodeVars, cur_cmd_retcode, seqnum,
                   dnld_sent, psstate, needtowakeup, connect_status,
                   tx_pending_len, txq_stopped, packets>>

NoMoreEvents ==
    /\ main = "events"
    /\ event_fifo = <<>>
    /\ Goto("pre_sleep")
    /\ UNCHANGED <<nodeVars, curVars, seqnum, timeVars, dnld_sent, respVars,
                   event_fifo, psVars, txVars, removeVars, callerVars, packets,
                   fwVars>>
-----------------------------------------------------------------------------
(* A sleep request left unanswered by the event handler is confirmed here, *)
(* unless the link is gone.                                                *)
MainPreSleep ==
    /\ main = "pre_sleep"
    /\ \/ /\ psstate = "PRE_SLEEP" /\ ~dnld_sent /\ cur_cmd = NoNode
          /\ \/ connect_status /\ main' = "confirm" /\ UNCHANGED psstate
             \/ ~connect_status /\ main' = "exec" /\ psstate' = "AWAKE"
       \/ /\ ~(psstate = "PRE_SLEEP" /\ ~dnld_sent /\ cur_cmd = NoNode)
          /\ main' = "exec"
          /\ UNCHANGED psstate
    /\ main_ret' = IF main' = "confirm" THEN "exec" ELSE main_ret
    /\ UNCHANGED <<nodeVars, curVars, seqnum, timeVars, dnld_sent, respVars,
                   event_fifo, psmode, needtowakeup, connect_status, txVars,
                   removeVars, main_idx, main_woken, callerVars, packets, fwVars>>

(* lbs_ps_confirm_sleep: the conditions are tested under the lock, ...     *)
SleepAllowed ==
    ~dnld_sent /\ cur_cmd = NoNode /\ event_fifo = <<>> /\ resp[resp_idx] = NoResp

MainConfirmDelayed ==
    /\ main = "confirm"
    /\ ~SleepAllowed
    /\ main' = main_ret
    /\ main_ret' = "check"
    /\ UNCHANGED <<nodeVars, curVars, seqnum, timeVars, dnld_sent, respVars,
                   event_fifo, psVars, txVars, removeVars, main_idx, main_woken,
                   callerVars, packets, fwVars>>

(* ... then lbs_send_confirmsleep hands the confirmation to the card, ...  *)
MainConfirm ==
    /\ main = "confirm"
    /\ SleepAllowed
    /\ \/ /\ HostToCard([kind |-> "confirm_sleep"])
          /\ main' = "confirm_sent"
          /\ UNCHANGED main_ret
       \/ /\ HostToCardFails
          /\ main' = main_ret
          /\ main_ret' = "check"
    /\ UNCHANGED <<nodeVars, curVars, seqnum, timeVars, respVars, event_fifo,
                   psVars, txVars, removeVars, main_idx, main_woken, callerVars,
                   fwVars>>

(* ... and takes the lock again to forget the packet, whose reception it   *)
(* does not wait for, and to sleep if nothing has arrived meanwhile.       *)
MainConfirmSent ==
    /\ main = "confirm_sent"
    /\ dnld_sent' = FALSE
    /\ psstate' = IF event_fifo = <<>> /\ resp[resp_idx] = NoResp
                  THEN "SLEEP" ELSE psstate
    /\ main' = main_ret
    /\ main_ret' = "check"
    /\ UNCHANGED <<nodeVars, curVars, seqnum, timeVars, respVars, event_fifo,
                   psmode, needtowakeup, connect_status, txVars, removeVars,
                   main_idx, main_woken, callerVars, packets, fwVars>>
-----------------------------------------------------------------------------
(* lbs_execute_next_command.                                               *)
MayExecute_Asleep == main = "exec" /\ ~dnld_sent /\ cur_cmd = NoNode
MayExecute ==
    /\ main = "exec"
    /\ psstate \notin {"SLEEP", "PRE_SLEEP"}
    /\ ~dnld_sent /\ cur_cmd = NoNode

(* lbs_submit_command: whether or not the packet can be handed over, the   *)
(* timer is started.                                                       *)
CmdPacket(n) ==
    [kind |-> "cmd",
     msg |-> [cmd |-> node[n].cmd, seq |-> node[n].seq, rid |-> node[n].rid]]

HandOver_UntimedIfFailed(n) ==
    \/ HostToCard(CmdPacket(n)) /\ timer' = TRUE
    \/ HostToCardFails /\ UNCHANGED timer
HandOver(n) ==
    /\ HostToCard(CmdPacket(n)) \/ HostToCardFails
    /\ timer' = TRUE

SubmitNext ==
    LET n == Head(cmdpendingq) IN
    /\ MayExecute
    /\ cmdpendingq # <<>>
    /\ psstate = "FULL_POWER" \/ node[n].cmd \in {"RSSI", "EXIT_PS"}
    /\ cmdpendingq' = Tail(cmdpendingq)
    /\ cur_cmd' = n
    /\ cur_cmd_retcode' = "ok"
    /\ node' = [node EXCEPT ![n].sent = @ + 1]
    /\ HandOver(n)
    /\ Goto("tx")
    /\ UNCHANGED <<cmdfreeq, seqnum, nr_retries, cmd_timed_out, timer_running,
                   respVars, event_fifo, psVars, txVars, removeVars, callerVars,
                   fwVars>>

(* In power save (AWAKE) any other command waits for an EXIT_PS, which     *)
(* lbs_ps_wakeup puts before it, and ENTER_PS is done already.  (The       *)
(* branches for SLEEP and PRE_SLEEP are not reached: MayExecute.)          *)
WakeFirmwareFirst ==
    /\ MayExecute
    /\ cmdpendingq # <<>>
    /\ psstate # "FULL_POWER"
    /\ node[Head(cmdpendingq)].cmd \notin {"RSSI"} \cup PsCommand
    /\ PrepareNoWait("EXIT_PS")
    /\ Goto("tx")
    /\ UNCHANGED <<cur_cmd, timeVars, dnld_sent, respVars, event_fifo, psVars,
                   txVars, removeVars, callerVars, packets, fwVars>>

IgnoreEnterPs ==
    /\ MayExecute
    /\ cmdpendingq # <<>>
    /\ psstate # "FULL_POWER"
    /\ node[Head(cmdpendingq)].cmd = "ENTER_PS"
    /\ cmdpendingq' = Tail(cmdpendingq)
    /\ Complete(Head(cmdpendingq), "ok")
    /\ Goto("tx")
    /\ UNCHANGED <<seqnum, timeVars, dnld_sent, respVars, event_fifo, psVars,
                   txVars, removeVars, pc, held, call, calls, ret, packets, fwVars>>

(* With nothing to do and power save wanted, ask the firmware to enter it. *)
(* (The interface is connected, without WPA: of its keys, which this part  *)
(* of the code also asks for, LbsKeys; no mesh interface is connected.)    *)
EnterPowerSave ==
    /\ MayExecute
    /\ cmdpendingq = <<>>
    /\ psmode # "CAM" /\ psstate = "FULL_POWER" /\ connect_status
    /\ PrepareNoWait("ENTER_PS")
    /\ Goto("tx")
    /\ UNCHANGED <<cur_cmd, timeVars, dnld_sent, respVars, event_fifo, psVars,
                   txVars, removeVars, callerVars, packets, fwVars>>

(* Nothing can be executed: on to the data packets, or, asleep, back to    *)
(* the top of the loop.                                                    *)
NothingToExecute ==
    /\ main = "exec"
    /\ \/ ~MayExecute
       \/ cmdpendingq = <<>> /\ ~(psmode # "CAM" /\ psstate = "FULL_POWER" /\ connect_status)
    /\ Goto(IF psstate \in {"SLEEP", "PRE_SLEEP"} THEN "check" ELSE "tx")
    /\ UNCHANGED <<nodeVars, curVars, seqnum, timeVars, dnld_sent, respVars,
                   event_fifo, psVars, txVars, removeVars, callerVars, packets,
                   fwVars>>

(* Hand over the packet lbs_hard_start_xmit lined up, and let the network  *)
(* layer give another one.                                                 *)
MainTx ==
    /\ main = "tx"
    /\ \/ /\ ~dnld_sent /\ tx_pending_len > 0
          /\ \/ HostToCard([kind |-> "data"])
             \/ "memory" \in Faults /\ UNCHANGED packets /\ dnld_sent' = FALSE
          /\ tx_pending_len' = 0
          /\ txq_stopped' = (txq_stopped /\ ~connect_status)
       \/ /\ ~(~dnld_sent /\ tx_pending_len > 0)
          /\ UNCHANGED <<packets, dnld_sent, tx_pending_len, txq_stopped>>
    /\ Goto("check")
    /\ UNCHANGED <<nodeVars, curVars, seqnum, timeVars, respVars, event_fifo,
                   psVars, xmit, sent_tx, removeVars, callerVars, fwVars>>

-----------------------------------------------------------------------------
(* command_timer: it expires when the firmware is late, or when it can be  *)
(* waited for no more: nothing is on the bus, in the firmware or being     *)
(* done.  Its handler (command_timer_fn) then has to get the lock, which   *)
(* takes it a moment: the command may complete, or another be submitted,   *)
(* before.                                                                 *)
NoAnswerComes ==
    /\ packets = <<>> /\ ~fw_ack /\ fw_cmds = <<>>
    /\ main = "asleep" /\ ~main_woken

TimerExpires ==
    /\ timer /\ ~timer_running
    /\ "late" \in Faults \/ NoAnswerComes
    /\ timer' = FALSE
    /\ timer_running' = TRUE
    /\ UNCHANGED <<nodeVars, curVars, seqnum, nr_retries, cmd_timed_out,
                   dnld_sent, respVars, event_fifo, psVars, txVars, removeVars,
                   mainVars, main_woken, callerVars, packets, fwVars>>

TimerHandler ==
    /\ timer_running
    /\ timer_running' = FALSE
    /\ \/ /\ cur_cmd # NoNode
          /\ cmd_timed_out' = TRUE
          /\ Wake
       \/ /\ cur_cmd = NoNode
          /\ UNCHANGED <<cmd_timed_out, main_woken>>
    /\ UNCHANGED <<nodeVars, curVars, seqnum, nr_retries, timer, dnld_sent,
                   respVars, event_fifo, psVars, txVars, removeVars, mainVars,
                   callerVars, packets, fwVars>>
-----------------------------------------------------------------------------
MainStep ==
    \/ MainCheck \/ MainWakeUp \/ MainExit \/ MainRun
    \/ DropResponse \/ PsOrErrorResponse \/ MainRespWakeup
    \/ GoodResponse \/ MainCallback \/ MainFinish \/ MainConsume
    \/ GiveUp \/ Requeue \/ NoTimeout \/ ClearTimeout
    \/ DeauthEvent \/ PsSleepEvent \/ PsAwakeEvent \/ HostAwakeEvent
    \/ OtherEvent \/ NoMoreEvents
    \/ MainPreSleep \/ MainConfirmDelayed \/ MainConfirm \/ MainConfirmSent
    \/ SubmitNext \/ WakeFirmwareFirst \/ IgnoreEnterPs \/ EnterPowerSave
    \/ NothingToExecute \/ MainTx
=============================================================================
