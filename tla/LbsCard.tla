------------------------------ MODULE LbsCard ------------------------------
(***************************************************************************)
(* The SDIO glue (if_sdio.c): the worker that writes queued packets to the *)
(* card, and the interrupt handler that serves the card's requests by      *)
(* calling lbs_host_to_card_done, if_sdio_handle_cmd and lbs_queue_event.  *)
(*                                                                         *)
(* The firmware is external; of it the model keeps what the driver relies  *)
(* on: it raises the download interrupt for what it received, answers its  *)
(* commands one after the other, each at most once per copy received, and  *)
(* between a confirmed sleep request and its PS_AWAKE event it sleeps.     *)
(*                                                                         *)
(* The worker and the interrupt handler both own the SDIO host while they  *)
(* work (sdio_claim_host), so their steps do not overlap.  The handler     *)
(* serves the download bit of a cause before the upload bit: a response is *)
(* only delivered when no download is left to report.  (A download that    *)
(* the card reports after the cause was read is one the worker had not     *)
(* finished yet.)                                                          *)
(***************************************************************************)
EXTENDS LbsPriv

(* Nothing here but main_woken belongs to the threads of the host.         *)
hostElsewhere == <<nodeVars, curVars, seqnum, timeVars, psmode, needtowakeup,
                   connect_status, txVars, removeVars, mainVars, callerVars>>

(* if_sdio_host_to_card_worker takes the first packet and writes it; the   *)
(* card acknowledges by an interrupt.                                      *)
WritePacket ==
    LET p == Head(packets) IN
    /\ packets # <<>>
    /\ p.kind = "cmd" => Len(fw_cmds) < FwDepth
    /\ packets' = Tail(packets)
    /\ fw_ack' = TRUE
    /\ fw_cmds' = IF p.kind = "cmd" THEN Append(fw_cmds, p.msg) ELSE fw_cmds
    /\ fw_ps' = IF p.kind = "confirm_sleep" /\ fw_ps = "on" THEN "asleep" ELSE fw_ps
    /\ UNCHANGED <<hostElsewhere, dnld_sent, respVars, event_fifo, psstate,
                   main_woken, fw_events, bug>>

(* The card does not become ready within a second, or the write fails: the *)
(* packet is freed and nobody is told.                                     *)
DropPacket ==
    /\ "write" \in Faults
    /\ packets # <<>>
    /\ packets' = Tail(packets)
    /\ UNCHANGED <<hostElsewhere, dnld_sent, respVars, event_fifo, psstate,
                   main_woken, fwVars>>

(* IF_SDIO_H_INT_DNLD: lbs_host_to_card_done.                              *)
WakeForNext_DataOnly == IF tx_pending_len > 0 THEN Wake ELSE UNCHANGED main_woken
WakeForNext ==
    IF cur_cmd = NoNode \/ tx_pending_len > 0 THEN Wake ELSE UNCHANGED main_woken

DownloadInterrupt ==
    /\ fw_ack
    /\ fw_ack' = FALSE
    /\ dnld_sent' = FALSE
    /\ WakeForNext
    /\ UNCHANGED <<hostElsewhere, respVars, event_fifo, psstate, packets,
                   fw_cmds, fw_ps, fw_events, bug>>

(* Both wake the driver from its own sleep.                                *)
Awoken_NotByInterrupts == psstate
Awoken == IF psstate = "SLEEP" THEN "AWAKE" ELSE psstate

NotifyResponse_OnlyFromSleep(i) ==
    /\ resp_idx' = i
    /\ psstate' = Awoken
    /\ IF psstate = "SLEEP" THEN Wake ELSE UNCHANGED main_woken
NotifyResponse(i) ==
    /\ resp_idx' = i
    /\ psstate' = Awoken
    /\ Wake

(* The firmware does what it answers with 0.                               *)
FwPsAfter(m, r) == CASE r = "ok" /\ m.cmd = "ENTER_PS" -> "on"
                     [] r = "ok" /\ m.cmd = "EXIT_PS"  -> "off"
                     [] OTHER                          -> fw_ps

(* IF_SDIO_H_INT_UPLD with a response: if_sdio_handle_cmd stores it in the *)
(* buffer the main thread does not look at, which must be empty            *)
(* (BUG_ON(priv->resp_len[i])), and lbs_notify_command_response flips the  *)
(* index and wakes the main thread.                                        *)
ResponseInterrupt ==
    LET m == Head(fw_cmds)
        i == 1 - resp_idx IN
    /\ ~fw_ack /\ fw_ps # "asleep"
    /\ fw_cmds # <<>>
    /\ fw_cmds' = Tail(fw_cmds)
    /\ \/ /\ resp[i] # NoResp
          /\ bug' = TRUE
          /\ UNCHANGED <<respVars, psstate, main_woken, fw_ps>>
       \/ /\ resp[i] = NoResp
          /\ \E r \in Results :
                /\ resp' = [resp EXCEPT ![i] = [cmd |-> m.cmd, seq |-> m.seq,
                                                rid |-> m.rid, result |-> r]]
                /\ fw_ps' = FwPsAfter(m, r)
          /\ NotifyResponse(i)
          /\ UNCHANGED bug
    /\ UNCHANGED <<hostElsewhere, dnld_sent, event_fifo, packets, fw_ack, fw_events>>

(* Reading the response from the card fails: it is gone, though the        *)
(* firmware has acted on the command.                                      *)
LoseResponse ==
    /\ "read" \in Faults
    /\ ~fw_ack /\ fw_ps # "asleep"
    /\ fw_cmds # <<>>
    /\ fw_cmds' = Tail(fw_cmds)
    /\ \E r \in Results : fw_ps' = FwPsAfter(Head(fw_cmds), r)
    /\ UNCHANGED <<hostElsewhere, dnld_sent, respVars, event_fifo, psstate,
                   main_woken, packets, fw_ack, fw_events, bug>>

(* When the firmware raises which event.  It always wakes up again.        *)
Raises(e) ==
    /\ e = "PS_AWAKE" \/ fw_events < MaxEvents
    /\ e = "PS_SLEEP" => fw_ps = "on"
    /\ e = "PS_AWAKE" => fw_ps = "asleep"

(* IF_SDIO_H_INT_UPLD with an event: lbs_queue_event.  __kfifo_put copies  *)
(* what fits: in a full fifo nothing, and nobody is told.                  *)
EventInterrupt ==
    /\ ~fw_ack
    /\ \E e \in FwEvents \cup {"PS_AWAKE"} :
          /\ Raises(e)
          /\ fw_events' = IF e = "PS_AWAKE" THEN fw_events ELSE fw_events + 1
          /\ event_fifo' = IF Len(event_fifo) < FifoSize
                           THEN Append(event_fifo, e) ELSE event_fifo
          /\ fw_ps' = IF e = "PS_AWAKE" THEN "on" ELSE fw_ps
    /\ psstate' = Awoken
    /\ Wake
    /\ UNCHANGED <<hostElsewhere, dnld_sent, respVars, packets, fw_cmds, fw_ack, bug>>

CardStep ==
    \/ WritePacket \/ DropPacket
    \/ DownloadInterrupt \/ ResponseInterrupt \/ LoseResponse \/ EventInterrupt
=============================================================================
