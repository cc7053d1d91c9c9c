------------------------------ MODULE LbsPriv ------------------------------
(***************************************************************************)
(* The state the parts of the Libertas driver share: struct lbs_private    *)
(* (dev.h), the command nodes it points to, the packet list of the SDIO    *)
(* glue (struct if_sdio_card) and what the host can observe of the card.   *)
(* The modules LbsCmd, LbsThread and LbsCard each add the actions of one   *)
(* part; Libertas composes them.                                           *)
(*                                                                         *)
(* driver_lock (a spin lock) is not a variable: a critical section of the  *)
(* code is one step.  Where the code touches this state WITHOUT the lock,  *)
(* the step ends before the next access another thread could disturb.      *)
(***************************************************************************)
EXTENDS Integers, Sequences, SequencesExt, FiniteSets

CONSTANTS
    Nodes,         \* the command buffers (LBS_NUM_CMD_BUFFERS = 10)
    CmdArray,      \* cmd_array: the nodes in the order they become free first
    NoNode,        \* the NULL cmd_ctrl_node pointer
    Callers,       \* the processes and work items that issue commands
    Program,       \* Program[c][k]: the calls c may choose from as its k-th
    Signals,       \* the callers a signal can reach while they wait
    SeqSize,       \* the number of sequence numbers (2^16, a u16 in the code)
    Results,       \* the results the firmware puts in its responses
    Faults,        \* what may go wrong, among FaultKind
    FwDepth,       \* bound: commands the firmware accepts before answering
    FwEvents,      \* the events the firmware may raise
    MaxEvents,     \* bound: events the firmware raises in a behaviour
    FifoSize,      \* the capacity of event_fifo (16 events in the code)
    MaxTx,         \* bound: data packets handed to the driver in a behaviour
    Hotplug,       \* may the card be pulled out?
    Workers,       \* the callers that are work items of the driver
    StartConnected,\* is the interface associated in the initial state?
    StartPsmode    \* the psmode of the initial state

(* A result of the firmware: 0, an error, or 0x0004 (DEFER, "try again").  *)
FwResult == {"ok", "error", "defer"}

(* "late": the firmware answers later than the command timer allows;       *)
(* "write", "read": a packet cannot be written to the card, a response     *)
(* cannot be read from it; "memory": hw_host_to_card cannot allocate.      *)
FaultKind == {"late", "write", "read", "memory"}

(* What a command can complete with, or a caller be told.  "fail" is the   *)
(* -1 of lbs_prepare_and_send_command, "nobufs" the -ENOBUFS of __lbs_cmd, *)
(* "pending" means that nothing has been said yet.                         *)
Outcome == FwResult \cup {"timedout", "noent", "nobufs", "fail", "pending"}

PsCommand == {"ENTER_PS", "EXIT_PS"}
Command   == {"GENERIC", "RSSI", "ASSOCIATE", "DEAUTHENTICATE"} \cup PsCommand

(* The ways to issue a command: __lbs_cmd, lbs_cmd_async, and              *)
(* lbs_prepare_and_send_command with and without CMD_OPTION_WAITFORRSP.    *)
Api      == {"sync", "async", "wait", "nowait"}
Call     == [api : Api, cmd : Command]
PowerOp  == {"power_on", "power_off"}    \* the two uses of lbs_set_power
CallOrPs == Call \cup [api : PowerOp, cmd : PsCommand]

Event    == {"PS_SLEEP", "PS_AWAKE", "DEAUTHENTICATED", "HOST_AWAKE", "OTHER"}
PsState  == {"FULL_POWER", "AWAKE", "PRE_SLEEP", "SLEEP"}
PsMode   == {"CAM", "MAX_PSP"}

ASSUME NodesAssumption   == /\ NoNode \notin Nodes
                            /\ CmdArray \in Seq(Nodes)
                            /\ IsInjective(CmdArray) /\ ToSet(CmdArray) = Nodes
ASSUME CallersAssumption == /\ "driver" \notin Callers
                            /\ Signals \subseteq Callers /\ Workers \subseteq Callers
ASSUME ProgramAssumption == /\ Program \in [Callers -> Seq(SUBSET CallOrPs)]
ASSUME BoundsAssumption  ==
    /\ SeqSize \in Nat \ {0}
    /\ FifoSize \in Nat /\ FwDepth \in Nat /\ MaxEvents \in Nat /\ MaxTx \in Nat
ASSUME SwitchAssumption  ==
    /\ Results \subseteq FwResult /\ FwEvents \subseteq Event
    /\ Faults \subseteq FaultKind
    /\ Hotplug \in BOOLEAN
    /\ StartConnected \in BOOLEAN /\ StartPsmode \in PsMode
-----------------------------------------------------------------------------
VARIABLES
    cmdfreeq,        \* list of free nodes
    cmdpendingq,     \* list of nodes waiting to be submitted
    node,            \* the contents of every cmd_ctrl_node
    cur_cmd,         \* the node in flight, or NoNode
    cur_cmd_retcode, \* the last result, shared by every legacy caller
    seqnum,          \* the last sequence number given out
    nr_retries,      \* timeouts of the current command so far
    cmd_timed_out,   \* set by the timer, cleared by the main thread
    timer,           \* is command_timer armed?
    timer_running,   \* has it expired, its handler not yet under the lock?
    dnld_sent,       \* is a packet en route to the device?
    resp,            \* the two response buffers, NoResp when resp_len is 0
    resp_idx,        \* the response buffer the main thread looks at next
    event_fifo,      \* events queued by the interrupt handler
    psstate, psmode, needtowakeup, connect_status,
    tx_pending_len,  \* 0, 1 (a packet is lined up) or -1 (being built)
    txq_stopped,     \* the netif queue of the interface
    surpriseremoved, \* the card is gone
    remover          \* how far if_sdio_remove has come

(* Threads.                                                                *)
VARIABLES
    main,        \* where the main thread is in lbs_thread
    main_ret,    \* where lbs_ps_confirm_sleep returns to
    main_idx,    \* the local resp_idx
    main_woken,  \* on waitq, has the main thread been made runnable?
    pc,          \* per caller: "idle", "filled", "wait", "ret"
    held,        \* per caller: the node its local cmdnode points to
    call,        \* per caller: the call it is executing or executed last
    calls,       \* per caller: the number of calls made
    ret,         \* per caller: what its last call returned
    outcome,     \* per caller (history): how the command of its last call
                 \* completed, "pending" until then
    xmit,        \* lbs_hard_start_xmit: "idle" or "building"
    sent_tx      \* bound: data packets handed to the driver so far

(* The card.                                                               *)
VARIABLES
    packets,     \* card->packets: handed to the SDIO worker, not yet written
    fw_cmds,     \* commands the firmware received and has not answered
    fw_ack,      \* the IF_SDIO_H_INT_DNLD bit of the interrupt cause
    fw_ps,       \* the firmware's power save: "off", "on", "asleep"
    fw_events,   \* bound: events raised so far
    bug          \* a BUG_ON of the driver was hit: the kernel stops there

nodeVars   == <<cmdfreeq, cmdpendingq, node>>
curVars    == <<cur_cmd, cur_cmd_retcode>>
timeVars   == <<nr_retries, cmd_timed_out, timer, timer_running>>
respVars   == <<resp, resp_idx>>
psVars     == <<psstate, psmode, needtowakeup, connect_status>>
txVars     == <<tx_pending_len, txq_stopped, xmit, sent_tx>>
mainVars   == <<main, main_ret, main_idx>>
callerVars == <<pc, held, call, calls, ret, outcome>>
removeVars == <<surpriseremoved, remover>>
fwVars     == <<fw_cmds, fw_ack, fw_ps, fw_events, bug>>

vars == <<nodeVars, curVars, seqnum, timeVars, dnld_sent, respVars, event_fifo,
          psVars, txVars, removeVars, mainVars, main_woken, callerVars,
          packets, fwVars>>
-----------------------------------------------------------------------------
(* History.  A request is named by its caller and the number of the call;  *)
(* requests of the driver itself are all named DriverRid.                  *)
DriverRid == <<"driver", 0>>
NoRid     == <<"driver", 1>>
Rid       == (Callers \X Nat) \cup {DriverRid, NoRid}

(* struct cmd_ctrl_node: the command and its sequence number (in cmdbuf),  *)
(* the callback ("null", "async" for lbs_cmd_async_callback, "sync" for    *)
(* one given to __lbs_cmd), result and cmdwaitqwoken.  rid and sent (how   *)
(* often the command was submitted) are history.                           *)
NodeRec == [cmd : Command \cup {"none"}, seq : Nat, cb : {"null", "async", "sync"},
            result : Outcome, woken : BOOLEAN, rid : Rid, sent : Nat]

FreeNode == [cmd |-> "none", seq |-> 0, cb |-> "null", result |-> "ok",
             woken |-> FALSE, rid |-> NoRid, sent |-> 0]

(* A command on the bus or in the firmware, and the response to it.        *)
CmdMsg   == [cmd : Command \cup {"none"}, seq : Nat, rid : Rid]
Response == [cmd : Command \cup {"none"}, seq : Nat, rid : Rid, result : FwResult]
NoResp   == [cmd |-> "none", seq |-> 0, rid |-> NoRid, result |-> "ok"]
Packet   == [kind : {"cmd"}, msg : CmdMsg] \cup [kind : {"data", "confirm_sleep", "confirm_wake"}]

MainLabel == {"check", "asleep", "run", "resp", "resp_wakeup", "callback", "finish",
              "consume", "timeout", "clear_timeout", "events", "pre_sleep",
              "confirm", "confirm_sent", "exec", "tx", "dead"}

(* The types, part by part: one part for each of the tuples of variables.  *)
QueueTypes   == /\ cmdfreeq \in Seq(Nodes) /\ cmdpendingq \in Seq(Nodes)
                /\ node \in [Nodes -> NodeRec]
CurrentTypes == /\ cur_cmd \in Nodes \cup {NoNode}
                /\ cur_cmd_retcode \in Outcome
TimerTypes   == /\ nr_retries \in 0..3 /\ cmd_timed_out \in BOOLEAN
                /\ timer \in BOOLEAN /\ timer_running \in BOOLEAN
ReplyTypes   == /\ resp \in [{0, 1} -> Response]
                /\ resp_idx \in {0, 1}
PowerTypes   == /\ psstate \in PsState /\ psmode \in PsMode
                /\ needtowakeup \in BOOLEAN /\ connect_status \in BOOLEAN
TxTypes      == /\ tx_pending_len \in {-1, 0, 1} /\ txq_stopped \in BOOLEAN
                /\ xmit \in {"idle", "building"} /\ sent_tx \in 0..MaxTx
RemoveTypes  == /\ surpriseremoved \in BOOLEAN
                /\ remover \in {"plugged", "removed", "flushed", "cancelled",
                                "stopping", "freed"}
MainTypes    == /\ main \in MainLabel /\ main_ret \in {"check", "events", "exec"}
                /\ main_idx \in {0, 1}
CallerTypes  == /\ pc \in [Callers -> {"idle", "filled", "wait", "ret"}]
                /\ held \in [Callers -> Nodes \cup {NoNode}]
                /\ call \in [Callers -> Call] /\ calls \in [Callers -> Nat]
                /\ ret \in [Callers -> Outcome] /\ outcome \in [Callers -> Outcome]
CardTypes    == /\ fw_cmds \in Seq(CmdMsg) /\ fw_ack \in BOOLEAN
                /\ fw_ps \in {"off", "on", "asleep"} /\ fw_events \in 0..MaxEvents
                /\ bug \in BOOLEAN

TypeOK ==
    /\ QueueTypes /\ CurrentTypes /\ TimerTypes /\ ReplyTypes /\ PowerTypes
    /\ TxTypes /\ RemoveTypes /\ MainTypes /\ CallerTypes /\ CardTypes
    /\ seqnum \in Nat /\ dnld_sent \in BOOLEAN /\ main_woken \in BOOLEAN
    /\ event_fifo \in Seq(Event) /\ packets \in Seq(Packet)
-----------------------------------------------------------------------------
(* Operations of the shared state that several threads perform.            *)

(* wake_up_interruptible(&priv->waitq): the main thread is on the queue    *)
(* between add_wait_queue and remove_wait_queue only.  At "check" it may   *)
(* or may not have joined the queue yet.                                   *)
Wake == main_woken' \in {main_woken \/ main = "asleep", main \in {"check", "asleep"}}

(* list_add for an EXIT_PS while in power save, list_add_tail otherwise    *)
(* (lbs_queue_cmd).                                                        *)
Enqueued(n, cmd) ==
    IF cmd = "EXIT_PS" /\ psstate # "FULL_POWER"
    THEN <<n>> \o cmdpendingq
    ELSE Append(cmdpendingq, n)

NextSeq == (seqnum + 1) % SeqSize

Filled(cmd, seq, cb, rid) ==
    [cmd |-> cmd, seq |-> seq, cb |-> cb, result |-> "ok", woken |-> FALSE,
     rid |-> rid, sent |-> 0]

(* lbs_prepare_and_send_command(PS_MODE, cmd, wait_option 0) called by the *)
(* main thread itself.  It reads and clears cur_cmd_retcode like any other *)
(* legacy call, unless it gives up before queueing.  One step: what other  *)
(* threads do to the lists between its critical sections commutes with it, *)
(* and that two commands can get one number Queue (LbsCmd) shows.          *)
PrepareNoWait(cmd) ==
    IF surpriseremoved \/ cmdfreeq = <<>>
    THEN UNCHANGED <<nodeVars, seqnum, cur_cmd_retcode>>
    ELSE LET n == Head(cmdfreeq) IN
         /\ cmdfreeq' = Tail(cmdfreeq)
         /\ seqnum' = NextSeq
         /\ node' = [node EXCEPT ![n] = Filled(cmd, NextSeq, "null", DriverRid)]
         /\ cmdpendingq' = Enqueued(n, cmd)
         /\ cur_cmd_retcode' = "ok"

(* __lbs_cleanup_and_insert_cmd: the buffer is zeroed and the node goes to *)
(* the tail of cmdfreeq; result and cmdwaitqwoken stay.                    *)
Cleaned(nd, n) == [nd EXCEPT ![n] = [FreeNode EXCEPT !.result = nd[n].result,
                                                      !.woken = nd[n].woken]]

(* Some definitions are preceded by a faulty form, named X_Fault: what a   *)
(* plausible bug would make of X.  No action uses it; putting it in the    *)
(* place of X shows that a property notices (PROJECT.json, "mutants").     *)

(* lbs_complete_command(priv, n, result): the waiter is told.  A node with *)
(* no callback, or lbs_cmd_async's, is free at once; __lbs_cmd frees its   *)
(* node itself.                                                            *)
Done_ResultForgotten(n, result) == [node EXCEPT ![n].woken = TRUE]
Done(n, result) == [node EXCEPT ![n].result = result, ![n].woken = TRUE]

FreedByCaller_Never(n) == FALSE
FreedByCaller(n) == node[n].cb = "sync"

Complete(n, result) ==
    /\ cur_cmd_retcode' = IF n = cur_cmd THEN result ELSE cur_cmd_retcode
    /\ \/ /\ FreedByCaller(n)
          /\ node' = Done(n, result)
          /\ UNCHANGED cmdfreeq
       \/ /\ ~FreedByCaller(n)
          /\ node' = Cleaned(Done(n, result), n)
          /\ cmdfreeq' = Append(cmdfreeq, n)
    /\ cur_cmd' = NoNode
    /\ outcome' = [c \in Callers |-> IF node[n].rid = <<c, calls[c]>>
                                     THEN result ELSE outcome[c]]

(* hw_host_to_card = if_sdio_host_to_card: the packet is appended to the   *)
(* list and dnld_sent is set, or nothing happens and an error is returned. *)
HostToCard(packet) ==
    /\ packets' = Append(packets, packet)
    /\ dnld_sent' = TRUE

HostToCardFails ==
    /\ "memory" \in Faults
    /\ UNCHANGED <<packets, dnld_sent>>
-----------------------------------------------------------------------------
(* The state after lbs_add_card and the initial commands of lbs_start_card. *)
PrivInit ==
    /\ cmdfreeq = CmdArray
    /\ cmdpendingq = <<>>
    /\ node = [n \in Nodes |-> FreeNode]
    /\ cur_cmd = NoNode /\ cur_cmd_retcode = "ok"
    /\ seqnum = 0
    /\ nr_retries = 0 /\ cmd_timed_out = FALSE
    /\ timer = FALSE /\ timer_running = FALSE
    /\ dnld_sent = FALSE
    /\ resp = [i \in {0, 1} |-> NoResp] /\ resp_idx = 0
    /\ event_fifo = <<>>
    /\ psstate = "FULL_POWER" /\ psmode = StartPsmode
    /\ needtowakeup = FALSE /\ connect_status = StartConnected
    /\ tx_pending_len = 0 /\ txq_stopped = ~StartConnected
    /\ xmit = "idle" /\ sent_tx = 0
    /\ surpriseremoved = FALSE /\ remover = "plugged"
    /\ main = "check" /\ main_ret = "check" /\ main_idx = 0 /\ main_woken = FALSE
    /\ pc = [c \in Callers |-> "idle"]
    /\ held = [c \in Callers |-> NoNode]
    /\ call = [c \in Callers |-> [api |-> "async", cmd |-> "GENERIC"]]
    /\ calls = [c \in Callers |-> 0]
    /\ ret = [c \in Callers |-> "ok"]
    /\ outcome = [c \in Callers |-> "pending"]
    /\ packets = <<>> /\ fw_cmds = <<>> /\ fw_ack = FALSE
    /\ fw_ps = "off" /\ fw_events = 0 /\ bug = FALSE

=============================================================================
