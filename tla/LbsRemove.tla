----------------------------- MODULE LbsRemove -----------------------------
(***************************************************************************)
(* Pulling the card out: if_sdio_remove (if_sdio.c), lbs_stop_card and     *)
(* lbs_remove_card (main.c), one after the other in the thread of the SDIO *)
(* core.                                                                   *)
(***************************************************************************)
EXTENDS LbsPriv

rmElsewhere == <<curVars, seqnum, nr_retries, cmd_timed_out, dnld_sent,
                 respVars, event_fifo, psstate, needtowakeup, connect_status,
                 tx_pending_len, xmit, sent_tx, mainVars, callerVars, packets,
                 fwVars>>

(* if_sdio_remove: surpriseremoved is set, and nobody is woken.            *)
CardRemoved ==
    /\ Hotplug
    /\ remover = "plugged"
    /\ remover' = "removed"
    /\ surpriseremoved' = TRUE
    /\ UNCHANGED <<rmElsewhere, nodeVars, psmode, timer, timer_running,
                   txq_stopped, main_woken>>

(* lbs_stop_card: del_timer_sync waits for the handler; then the waiters   *)
(* of the nodes on cmdpendingq are told -ENOENT.  The nodes stay on the    *)
(* list.                                                                   *)
FlushPending ==
    /\ remover = "removed"
    /\ ~timer_running
    /\ timer' = FALSE
    /\ node' = [n \in Nodes |->
                   IF n \in ToSet(cmdpendingq)
                   THEN [node[n] EXCEPT !.result = "noent", !.woken = TRUE]
                   ELSE node[n]]
    /\ txq_stopped' = TRUE
    /\ remover' = "flushed"
    /\ UNCHANGED <<rmElsewhere, cmdfreeq, cmdpendingq, psmode, timer_running,
                   surpriseremoved, main_woken>>

(* lbs_remove_card: cancel_delayed_work_sync and cancel_work_sync wait for *)
(* the work items to end.  (The EXIT_PS of lbs_ps_wakeup is refused, the   *)
(* card being gone.)                                                       *)
CancelWork ==
    /\ remover = "flushed"
    /\ \A c \in Workers : pc[c] = "idle"
    /\ psmode' = "CAM"
    /\ remover' = "cancelled"
    /\ UNCHANGED <<rmElsewhere, nodeVars, timer, timer_running, txq_stopped,
                   surpriseremoved, main_woken>>

(* kthread_stop wakes the main thread, wherever it sleeps, ...             *)
StopThread ==
    /\ remover = "cancelled"
    /\ remover' = "stopping"
    /\ Wake
    /\ UNCHANGED <<rmElsewhere, nodeVars, psmode, timer, timer_running,
                   txq_stopped, surpriseremoved>>

(* ... and waits for its end; lbs_free_adapter deletes the timer and,      *)
(* like free_netdev after it, frees the memory.                            *)
FreeAdapter ==
    /\ remover = "stopping"
    /\ main = "dead"
    /\ timer' = FALSE
    /\ remover' = "freed"
    /\ UNCHANGED <<rmElsewhere, nodeVars, psmode, timer_running, txq_stopped,
                   surpriseremoved, main_woken>>

RemoveStep == CardRemoved \/ FlushPending \/ CancelWork \/ StopThread \/ FreeAdapter
=============================================================================
