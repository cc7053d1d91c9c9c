------------------------------- MODULE LbsTx -------------------------------
(***************************************************************************)
(* lbs_hard_start_xmit (tx.c) on one network device: the packet is built   *)
(* in tx_pending_buf between two critical sections, and lined up for the   *)
(* main thread.  The network layer calls it only while the queue of the    *)
(* device is not stopped, one call at a time.                              *)
(***************************************************************************)
EXTENDS LbsPriv

txElsewhere == <<nodeVars, curVars, seqnum, timeVars, dnld_sent, respVars,
                 event_fifo, psVars, removeVars, mainVars, callerVars, packets,
                 fwVars>>

(* The card is gone, or the packet has a length the firmware cannot take:  *)
(* it is freed.                                                            *)
XmitDropped ==
    /\ xmit = "idle" /\ ~txq_stopped /\ sent_tx < MaxTx
    /\ sent_tx' = sent_tx + 1
    /\ Wake
    /\ UNCHANGED <<txElsewhere, tx_pending_len, txq_stopped, xmit>>

(* A packet is pending already: NETDEV_TX_BUSY, with the queue stopped.    *)
XmitBusy ==
    /\ xmit = "idle" /\ ~txq_stopped /\ sent_tx < MaxTx
    /\ ~surpriseremoved
    /\ tx_pending_len # 0
    /\ txq_stopped' = TRUE
    /\ Wake
    /\ UNCHANGED <<txElsewhere, tx_pending_len, xmit, sent_tx>>

XmitBuild ==
    /\ xmit = "idle" /\ ~txq_stopped /\ sent_tx < MaxTx
    /\ ~surpriseremoved
    /\ tx_pending_len = 0
    /\ txq_stopped' = TRUE
    /\ tx_pending_len' = -1
    /\ xmit' = "building"
    /\ UNCHANGED <<txElsewhere, main_woken, sent_tx>>

XmitLineUp ==
    /\ xmit = "building"
    /\ tx_pending_len' = 1
    /\ xmit' = "idle"
    /\ sent_tx' = sent_tx + 1
    /\ Wake
    /\ UNCHANGED <<txElsewhere, txq_stopped>>

TxStep == XmitDropped \/ XmitBusy \/ XmitBuild \/ XmitLineUp
=============================================================================
