------------------------------- MODULE LbsCmd -------------------------------
(***************************************************************************)
(* The command interface of the driver (cmd.c): __lbs_cmd, lbs_cmd_async   *)
(* and lbs_prepare_and_send_command, executed by any number of processes   *)
(* and work items at the same time, and lbs_set_power (wext.c), which is   *)
(* built on them.                                                          *)
(*                                                                         *)
(* A call runs  idle -> filled -> wait -> ret -> idle.  The locals of the  *)
(* function survive from step to step in held[c] (cmdnode) and call[c].    *)
(***************************************************************************)
EXTENDS LbsPriv

(* Everything the command interface does not touch.                        *)
elsewhere == <<cur_cmd, timeVars, dnld_sent, respVars, event_fifo, psstate,
               needtowakeup, connect_status, txVars, removeVars, mainVars,
               packets, fwVars>>

Callback(api) == IF api \in {"sync", "async"} THEN api ELSE "null"

(* The caller returns without a node.                                      *)
ReturnEarly(c, value) ==
    /\ ret' = [ret EXCEPT ![c] = value]
    /\ UNCHANGED <<nodeVars, seqnum, pc, held, outcome>>

(* The head of __lbs_cmd_async and of lbs_prepare_and_send_command: take a *)
(* node from cmdfreeq (lbs_get_cmd_ctrl_node) and number the command.      *)
GetNode(c, api, cmd) ==
    /\ call' = [call EXCEPT ![c] = [api |-> api, cmd |-> cmd]]
    /\ calls' = [calls EXCEPT ![c] = @ + 1]
    /\ \/ /\ surpriseremoved
          /\ ReturnEarly(c, IF api \in {"sync", "async"} THEN "noent" ELSE "fail")
          /\ UNCHANGED main_woken
       \/ /\ ~surpriseremoved
          /\ cmdfreeq = <<>>
          /\ ReturnEarly(c, IF api \in {"sync", "async"} THEN "nobufs" ELSE "fail")
          /\ Wake
       \/ /\ ~surpriseremoved
          /\ cmdfreeq # <<>>
          /\ LET n == Head(cmdfreeq) IN
             /\ cmdfreeq' = Tail(cmdfreeq)
             /\ held' = [held EXCEPT ![c] = n]
             /\ node' = [node EXCEPT ![n] =
                            [Filled(cmd, NextSeq, Callback(api), <<c, calls[c] + 1>>)
                                EXCEPT !.woken = node[n].woken]]
          /\ seqnum' = NextSeq
          /\ pc' = [pc EXCEPT ![c] = "filled"]
          /\ outcome' = [outcome EXCEPT ![c] = "pending"]
          /\ UNCHANGED <<cmdpendingq, ret, main_woken>>

(* A process makes its next call, of a command that can be prepared: one   *)
(* that cannot gives its node back and is refused (cmd.c:1508-1514).       *)
Issue(c) ==
    /\ pc[c] = "idle"
    /\ calls[c] < Len(Program[c])
    /\ \E k \in Program[c][calls[c] + 1] :
          /\ k.api \in Api
          /\ GetNode(c, k.api, k.cmd)
    /\ UNCHANGED <<elsewhere, cur_cmd_retcode, psmode>>

(* iwconfig power on / off.  The call made is legacy and waits.  Requests  *)
(* that are refused before they store anything (a period, a timeout, a     *)
(* firmware without power save) are no calls.                              *)
lbs_set_power_on(c) ==
    /\ psmode' = "MAX_PSP"
    /\ IF psmode = "CAM" /\ connect_status
       THEN GetNode(c, "wait", "ENTER_PS")
       ELSE /\ ReturnEarly(c, "ok")
            /\ calls' = [calls EXCEPT ![c] = @ + 1]
            /\ UNCHANGED <<call, main_woken>>

lbs_set_power_off(c) ==
    /\ psmode' = "CAM"
    /\ IF psstate # "FULL_POWER"
       THEN GetNode(c, "wait", "EXIT_PS")
       ELSE /\ ReturnEarly(c, "ok")
            /\ calls' = [calls EXCEPT ![c] = @ + 1]
            /\ UNCHANGED <<call, main_woken>>

SetPower(c) ==
    /\ pc[c] = "idle"
    /\ calls[c] < Len(Program[c])
    /\ \E k \in Program[c][calls[c] + 1] :
          \/ k.api = "power_on"  /\ lbs_set_power_on(c)
          \/ k.api = "power_off" /\ lbs_set_power_off(c)
    /\ UNCHANGED <<elsewhere, cur_cmd_retcode>>

(* lbs_queue_cmd and the wake-up of the main thread after it.  The number  *)
(* put in the buffer is the value the increment left in a register or,     *)
(* when the compiler reloads it, what priv->seqnum has become since:       *)
(* nothing protects seqnum.  cmdwaitqwoken is reset just before queueing.  *)
Queue(c) ==
    LET n == held[c] IN
    /\ pc[c] = "filled"
    /\ \E s \in {node[n].seq, seqnum} :
          node' = [node EXCEPT ![n].seq = s, ![n].woken = FALSE, ![n].result = "ok"]
    /\ cmdpendingq' = Enqueued(n, call[c].cmd)
    /\ Wake
    /\ pc' = [pc EXCEPT ![c] = CASE call[c].api \in {"sync", "wait"} -> "wait"
                                 [] call[c].api = "nowait"           -> "ret"
                                 [] OTHER                            -> "idle"]
    /\ held' = [held EXCEPT ![c] = IF call[c].api \in {"sync", "wait"} THEN n ELSE NoNode]
    /\ UNCHANGED <<elsewhere, cmdfreeq, cur_cmd_retcode, seqnum, psmode,
                   call, calls, ret, outcome>>

(* wait_event_interruptible in __lbs_cmd returns because cmdwaitqwoken is  *)
(* set or, its result being ignored, because a signal arrived.  The node's *)
(* result is returned and the node freed, in one critical section.         *)
ReturnSync(c) ==
    LET n == held[c] IN
    /\ pc[c] = "wait"
    /\ call[c].api = "sync"
    /\ node[n].woken \/ c \in Signals
    /\ ret' = [ret EXCEPT ![c] = node[n].result]
    /\ node' = Cleaned(node, n)
    /\ cmdfreeq' = Append(cmdfreeq, n)
    /\ pc' = [pc EXCEPT ![c] = "idle"]
    /\ held' = [held EXCEPT ![c] = NoNode]
    /\ UNCHANGED <<elsewhere, cmdpendingq, cur_cmd_retcode, seqnum, psmode,
                   main_woken, call, calls, outcome>>

(* The same wait in lbs_prepare_and_send_command.  The node is not the     *)
(* caller's any more once it is complete.                                  *)
EndWait(c) ==
    /\ pc[c] = "wait"
    /\ call[c].api = "wait"
    /\ node[held[c]].woken \/ c \in Signals
    /\ pc' = [pc EXCEPT ![c] = "ret"]
    /\ held' = [held EXCEPT ![c] = NoNode]
    /\ UNCHANGED <<elsewhere, nodeVars, cur_cmd_retcode, seqnum, psmode,
                   main_woken, call, calls, ret, outcome>>

(* The end of lbs_prepare_and_send_command: priv->cur_cmd_retcode, under   *)
(* the lock, decides between 0 and -1, and is cleared.                     *)
ReturnLegacy(c) ==
    /\ pc[c] = "ret"
    /\ ret' = [ret EXCEPT ![c] = IF cur_cmd_retcode # "ok" THEN "fail" ELSE "ok"]
    /\ cur_cmd_retcode' = "ok"
    /\ pc' = [pc EXCEPT ![c] = "idle"]
    /\ UNCHANGED <<elsewhere, nodeVars, seqnum, psmode, main_woken,
                   held, call, calls, outcome>>

CallerStep(c) ==
    \/ Issue(c)
    \/ SetPower(c)
    \/ Queue(c)
    \/ ReturnSync(c)
    \/ EndWait(c)
    \/ ReturnLegacy(c)
=============================================================================
