-------------------------- MODULE LibertasService --------------------------
(***************************************************************************)
(* The driver implements CmdService, as long as every caller uses          *)
(* __lbs_cmd, no signal interrupts one and the card stays.  The commands   *)
(* the driver gives itself to enter and leave power save are not part of   *)
(* the service: they pass between those of the clients.                    *)
(***************************************************************************)
EXTENDS Libertas

ClientOf(n) == node[n].rid[1]

(* The requests on cmdpendingq, those of the driver among them; the        *)
(* clients on such a list, and which of them stands before which.          *)
ClientsQueued == [i \in DOMAIN cmdpendingq |-> ClientOf(cmdpendingq[i])]

ClientsOn(s) == Callers \cap ToSet(s)

OrderOf(s) ==
    {p \in Callers \X Callers : \E i, j \in DOMAIN s : i < j /\ p = <<s[i], s[j]>>}

ServiceQueue  == ClientsOn(ClientsQueued)
ServiceBefore == OrderOf(ClientsQueued)

ServiceServing ==
    IF cur_cmd # NoNode /\ ClientOf(cur_cmd) \in Callers THEN ClientOf(cur_cmd) ELSE "driver"

ServiceAnswer ==
    [c \in Callers |-> IF pc[c] = "wait" /\ node[held[c]].woken
                       THEN {node[held[c]].result} ELSE {}]

Service == INSTANCE CmdService WITH
    Clients <- Callers, Nobody <- "driver",
    Answers <- {"ok", "error", "timedout"}, Refusals <- {"nobufs"},
    queue <- ServiceQueue, before <- ServiceBefore, serving <- ServiceServing,
    answer <- ServiceAnswer, returned <- ret

(* The command interface with its buffers, lists, retries, power save and  *)
(* threads (cmd.c, cmdresp.c, main.c) is an implementation of CmdService.  *)
ImplementsService == Service!SSpec
=============================================================================
