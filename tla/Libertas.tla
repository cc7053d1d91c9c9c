------------------------------ MODULE Libertas ------------------------------
(***************************************************************************)
(* The driver: callers, main thread, timer, SDIO glue with the firmware    *)
(* behind it, transmit path and removal, interleaved.                      *)
(***************************************************************************)
EXTENDS LbsCmd, LbsThread, LbsCard, LbsTx, LbsRemove

(* All the calls have been made and have returned.  The driver may stop    *)
(* there; a state without successor anywhere else is a deadlock.           *)
AllReturned ==
    /\ \A c \in Callers : pc[c] = "idle" /\ calls[c] = Len(Program[c])
    /\ UNCHANGED vars

(* After a BUG_ON nothing runs any more.                                   *)
Halted == bug /\ UNCHANGED vars

Init == PrivInit

Running ==
    \/ \E c \in Callers : CallerStep(c)
    \/ MainStep
    \/ TimerExpires
    \/ TimerHandler
    \/ CardStep
    \/ TxStep
    \/ RemoveStep

Next ==
    \/ ~bug /\ Running
    \/ AllReturned
    \/ Halted

Spec == Init /\ [][Next]_vars

(* What the kernel and the card do eventually: a runnable thread runs, a   *)
(* caller whose condition is true returns, queued work is executed, a      *)
(* pending interrupt is served, an expired timer's handler gets the lock.  *)
(* Nobody has to make a call, hand over a packet or pull out the card.     *)
Fairness ==
    /\ WF_vars(~bug /\ MainStep)
    /\ \A c \in Callers :
          /\ WF_vars(~bug /\ Queue(c))
          /\ WF_vars(~bug /\ ReturnSync(c))
          /\ WF_vars(~bug /\ EndWait(c))
          /\ WF_vars(~bug /\ ReturnLegacy(c))
    /\ WF_vars(~bug /\ WritePacket)
    /\ WF_vars(~bug /\ DownloadInterrupt)
    /\ WF_vars(~bug /\ ResponseInterrupt)
    /\ WF_vars(~bug /\ fw_ps = "asleep" /\ EventInterrupt)
    /\ WF_vars(~bug /\ TimerExpires)
    /\ WF_vars(~bug /\ TimerHandler)
    /\ WF_vars(~bug /\ XmitLineUp)
    /\ WF_vars(~bug /\ FlushPending)
    /\ WF_vars(~bug /\ CancelWork)
    /\ WF_vars(~bug /\ StopThread)
    /\ WF_vars(~bug /\ FreeAdapter)

FairSpec == Spec /\ Fairness
-----------------------------------------------------------------------------
(* Who owns a command buffer: a free list, the pending list, cur_cmd, or   *)
(* the caller that is filling it or will free it.                          *)
Holds(c) == pc[c] = "filled" \/ (pc[c] = "wait" /\ call[c].api = "sync")

Queued == ToSet(cmdpendingq) \cup ({cur_cmd} \ {NoNode})

(* Command buffers are neither shared nor lost: no list holds a node       *)
(* twice, no node is on two lists or still under way when it is free, two  *)
(* callers never hold the same one, and every node is somewhere.  This is  *)
(* what lbs_get_cmd_ctrl_node, lbs_complete_command and __lbs_cmd agree    *)
(* on about who frees what (cmd.c).                                        *)
NodeOwnership ==
    /\ IsInjective(cmdfreeq) /\ IsInjective(cmdpendingq)
    /\ ToSet(cmdfreeq) \cap Queued = {}
    /\ cur_cmd \notin ToSet(cmdpendingq)
    /\ \A c \in Callers : Holds(c) => held[c] \notin ToSet(cmdfreeq)
    /\ \A c \in Callers : pc[c] = "filled" => held[c] \notin Queued
    /\ \A c, d \in Callers : c # d /\ Holds(c) /\ Holds(d) => held[c] # held[d]
    /\ \A n \in Nodes : \/ n \in ToSet(cmdfreeq) \cup Queued
                        \/ \E c \in Callers : Holds(c) /\ held[c] = n

(* __lbs_cmd returns what its own command completed with, and not before   *)
(* it completed: neither another command's result nor a stale one.         *)
SyncReturnsOwnResult ==
    [][\A c \in Callers :
          pc[c] = "wait" /\ call[c].api = "sync" /\ pc'[c] = "idle"
          => outcome[c] # "pending" /\ ret'[c] = outcome[c]]_vars

(* The checks of lbs_process_command_response suffice: a response it acts  *)
(* on answers the command in flight, though older copies of earlier        *)
(* commands may still be answered after a timeout.                         *)
AcceptedIsAnswer ==
    [][AnswerArrived => resp[main_idx].rid = node[cur_cmd].rid]_vars

(* "Excessive timeouts": a command is given up, with -ETIMEDOUT, only      *)
(* after it has been submitted four times.                                 *)
GiveUpAfterFour == [][GiveUp => node[cur_cmd].sent = 4]_vars

(* While retries are being counted, they are counted for the command in    *)
(* flight or for the one that will be submitted next.                      *)
RetriedIsNext ==
    nr_retries > 0 =>
        \/ cur_cmd # NoNode /\ node[cur_cmd].sent = nr_retries + 1
        \/ /\ cur_cmd = NoNode /\ cmdpendingq # <<>>
           /\ node[Head(cmdpendingq)].sent = nr_retries

(* The main thread is not left asleep with something to do: if nothing has *)
(* woken it, it would decide to sleep again.                               *)
NoLostWakeup == main = "asleep" /\ ~main_woken => ShouldSleep

(* The BUG_ON of if_sdio_handle_cmd is never hit: of the two response      *)
(* buffers the one to be filled is empty.                                  *)
ResponseBufferFree == ~bug

(* A command in flight is always watched: while the main thread sleeps,    *)
(* the timer is armed or its expiry has been recorded, until the removal   *)
(* of the card stops the timer.                                            *)
InFlightIsTimed ==
    cur_cmd # NoNode /\ main = "asleep"
    => timer \/ timer_running \/ cmd_timed_out \/ surpriseremoved

(* Driver and firmware agree on power save: with no PS_MODE command under  *)
(* way or being retried, the driver thinks it has left power save only if  *)
(* the firmware has.  (PS_MODE replies and lbs_mac_event_disconnected,     *)
(* cmdresp.c, keep psstate; the firmware acts on what it answered with 0.) *)
PsAgreement ==
    psstate = "FULL_POWER"
    => \/ fw_ps = "off"
       \/ \E n \in Queued : node[n].cmd \in PsCommand /\ node[n].sent > 0

(* Once the driver sleeps it hands nothing to the card until an interrupt  *)
(* has woken it: lbs_ps_confirm_sleep goes to sleep only if no event and   *)
(* no response came while the confirmation was under way.                  *)
SilentInSleep ==
    [][psstate = "SLEEP" => Len(packets') <= Len(packets)]_vars

(* The network layer can go on sending: while the interface is associated  *)
(* its queue does not stay stopped.                                        *)
QueueRestarted == txq_stopped /\ connect_status ~> ~txq_stopped \/ ~connect_status

(* Every call returns, unless the card is removed meanwhile.               *)
EveryCallReturns ==
    \A c \in Callers : pc[c] # "idle" ~> pc[c] = "idle" \/ surpriseremoved

(* Removing the card comes to an end.                                      *)
RemovalCompletes == surpriseremoved ~> remover = "freed"
=============================================================================
