------------------------------ MODULE LbsRadio ------------------------------
(***************************************************************************)
(* The channel of the radio, which the mesh and the other interface share. *)
(* The association worker (assoc_helper_channel) and an ioctl of the mesh  *)
(* device (lbs_mesh_set_freq, lbs_mesh_set_essid), which no lock keeps     *)
(* apart, move it by commands between which the other's may come, and keep *)
(* what they believe it to be in curbssparams.channel.                     *)
(*                                                                         *)
(* The firmware, external, is what the comments of assoc.c take it to be:  *)
(* it does not let the channel be set while the mesh is on, and starting   *)
(* the mesh moves the radio.                                               *)
(***************************************************************************)
EXTENDS Integers

CONSTANTS
    RadioChannels,  \* the channels of the region
    ErrorCodes,     \* the results of a command the firmware refuses
    RadioFaults     \* \subseteq {"refused", "lost"}

ASSUME RadioAssumption ==
    /\ RadioChannels \subseteq 1 .. 14
    /\ ErrorCodes \subseteq Nat \ {0}

VARIABLES
    mesh_dev,    \* whether there is a mesh device
    fw,          \* the firmware: [mesh, channel]
    channel,     \* curbssparams.channel
    caller,      \* per caller: where it is, the channel it is to set, the
                 \* command it waits for and, once it has come, the answer
    sync,        \* whether the work sync_channel is queued
    target,      \* history: the channel the last call was to set, or none
    disturbed,   \* history: since it began a command has failed, or another
                 \* call was under way
    failed       \* history: some command has failed

radioVars == <<mesh_dev, fw, channel, caller, sync, target, disturbed, failed>>

Callers == {"worker", "ioctl", "sync"}
NoChannel == 0

(* A command, and what its caller gets: the result, which is negative if   *)
(* there was no answer, and the channel of the answer.                     *)
Command(op, c) == [op |-> op, channel |-> c]
None     == Command("none", NoChannel)
Pending  == [ret |-> 0, channel |-> -1]
TimedOut == -110
AtEase   == [pc |-> "idle", want |-> NoChannel, cmd |-> None, answer |-> Pending]

RadioInit ==
    /\ mesh_dev \in BOOLEAN
    /\ channel \in RadioChannels
    /\ fw = [mesh |-> mesh_dev, channel |-> channel]
    /\ sync = FALSE
    /\ caller = [p \in Callers |-> AtEase]
    /\ target = NoChannel /\ disturbed = FALSE /\ failed = FALSE
-----------------------------------------------------------------------------
(* The firmware carries out a command.  A call that began when no other    *)
(* was under way is disturbed by a failure or by another call.             *)
Effect(cmd) ==
    CASE cmd.op = "start" -> [fw EXCEPT !.mesh = TRUE, !.channel = cmd.channel]
      [] cmd.op = "stop"  -> [fw EXCEPT !.mesh = FALSE]
      [] cmd.op = "set" /\ ~fw.mesh -> [fw EXCEPT !.channel = cmd.channel]
      [] OTHER -> fw

Refused(cmd) == cmd.op = "set" /\ fw.mesh

Waiting(p) == caller[p].pc # "idle" /\ caller[p].answer = Pending

Answered(p, ret) ==
    caller' = [caller EXCEPT ![p].answer = [ret |-> ret, channel |->
        IF ret = 0 /\ caller[p].cmd.op \in {"get", "set"} THEN fw'.channel
        ELSE NoChannel]]

Disturbed == disturbed' = TRUE /\ target' = NoChannel

Serve(p) ==
    LET cmd == caller[p].cmd IN
    /\ Waiting(p)
    /\ UNCHANGED <<mesh_dev, channel, sync>>
    /\ \/ /\ ~Refused(cmd)
          /\ fw' = Effect(cmd)
          /\ Answered(p, 0)
          /\ UNCHANGED <<target, disturbed, failed>>
       \/ /\ Refused(cmd) \/ "refused" \in RadioFaults
          /\ UNCHANGED fw
          /\ \E code \in ErrorCodes : Answered(p, code)
          /\ Disturbed /\ failed' = TRUE
       \/ /\ "lost" \in RadioFaults
          /\ fw' \in {fw, Effect(cmd)}
          /\ Answered(p, TimedOut)
          /\ Disturbed /\ failed' = TRUE

(* MESH_AUTO_STARTED: the firmware starts the mesh by itself, and says so; *)
(* the event has the channel read, once for all the events meanwhile.      *)
AutoStarted_WhenIdle == sync \/ caller["sync"].pc = "idle"
AutoStarted == TRUE
MeshAutoStarted(c) ==
    /\ mesh_dev
    /\ fw' = [fw EXCEPT !.mesh = TRUE, !.channel = c]
    /\ sync' = AutoStarted
    /\ target' = NoChannel
    /\ disturbed' = (disturbed \/ \E p \in Callers \ {"sync"} : caller[p].pc # "idle")
    /\ UNCHANGED <<mesh_dev, channel, caller, failed>>
-----------------------------------------------------------------------------
(* The callers.  Each step takes the answer to the command before and      *)
(* gives the next.                                                         *)
Got(p, pc) == caller[p].pc = pc /\ caller[p].answer # Pending

Send(p, pc, cmd) ==
    caller' = [caller EXCEPT ![p].pc = pc, ![p].cmd = cmd, ![p].answer = Pending]

Done(p) == caller' = [caller EXCEPT ![p] = AtEase]

Begin(p, c, pc, cmd) ==
    /\ caller[p].pc = "idle"
    /\ caller' = [caller EXCEPT ![p] =
                     [pc |-> pc, want |-> c, cmd |-> cmd, answer |-> Pending]]
    /\ IF \A q \in Callers \ {p} : caller[q].pc = "idle"
       THEN disturbed' = FALSE /\ target' = c
       ELSE Disturbed
    /\ UNCHANGED <<fw, failed>>

Elsewhere == <<mesh_dev, sync>>
Settled   == <<fw, target, disturbed, failed>>

Get == Command("get", NoChannel)

(* lbs_update_channel: lbs_get_channel returns the result, if it is one,   *)
(* or the channel; either is taken for a channel if it is positive.        *)
Reading(p) ==
    IF caller[p].answer.ret # 0 THEN caller[p].answer.ret
    ELSE caller[p].answer.channel

UpdateChannel(p) == channel' = IF Reading(p) > 0 THEN Reading(p) ELSE channel

(* assoc_helper_channel.                                                   *)
SetChannel(c) ==
    /\ Begin("worker", c, "look", Get)
    /\ UNCHANGED <<Elsewhere, channel>>

First(c) == IF mesh_dev THEN Command("stop", c) ELSE Command("set", c)

Looked ==
    LET w == caller["worker"] IN
    /\ Got("worker", "look")
    /\ UpdateChannel("worker")
    /\ IF Reading("worker") < 0 \/ w.want = channel'
       THEN Done("worker")
       ELSE Send("worker", First(w.want).op, First(w.want))
    /\ UNCHANGED <<Elsewhere, Settled>>

MeshOff ==
    /\ Got("worker", "stop")
    /\ Send("worker", "set", Command("set", caller["worker"].want))
    /\ UNCHANGED <<Elsewhere, Settled, channel>>

(* lbs_set_channel believes the answer; the channel is read all the same.  *)
ChannelSet ==
    LET answer == caller["worker"].answer IN
    /\ Got("worker", "set")
    /\ channel' = IF answer.ret = 0 THEN answer.channel ELSE channel
    /\ Send("worker", "check", Get)
    /\ UNCHANGED <<Elsewhere, Settled>>

(* Unless the channel cannot be read the mesh is started on it again.      *)
Restarts(c) == mesh_dev
Checked ==
    /\ Got("worker", "check")
    /\ UpdateChannel("worker")
    /\ IF Reading("worker") < 0 \/ ~Restarts(channel')
       THEN Done("worker")
       ELSE Send("worker", "restart", Command("start", channel'))
    /\ UNCHANGED <<Elsewhere, Settled>>

Restarted ==
    /\ Got("worker", "restart")
    /\ Done("worker")
    /\ UNCHANGED <<Elsewhere, Settled, channel>>

(* lbs_mesh_set_freq; "mesh channel change forces eth disconnect".         *)
MeshSetFreq(c) ==
    /\ mesh_dev
    /\ IF c # channel
       THEN Begin("ioctl", c, "leave", Command("leave", NoChannel))
       ELSE Begin("ioctl", c, "move", Command("start", c))
    /\ UNCHANGED <<Elsewhere, channel>>

Left ==
    /\ Got("ioctl", "leave")
    /\ Send("ioctl", "move", Command("start", caller["ioctl"].want))
    /\ UNCHANGED <<Elsewhere, Settled, channel>>

Moved ==
    /\ Got("ioctl", "move")
    /\ Send("ioctl", "look", Get)
    /\ UNCHANGED <<Elsewhere, Settled, channel>>

LookedAgain(p) ==
    /\ Got(p, "look")
    /\ UpdateChannel(p)
    /\ Done(p)
    /\ UNCHANGED <<Elsewhere, Settled>>

(* lbs_mesh_set_essid starts the mesh anew where it is thought to be.      *)
MeshSetEssid ==
    /\ mesh_dev
    /\ Begin("ioctl", NoChannel, "rename", Command("start", channel))
    /\ UNCHANGED <<Elsewhere, channel>>

Renamed ==
    /\ Got("ioctl", "rename")
    /\ Done("ioctl")
    /\ UNCHANGED <<Elsewhere, Settled, channel>>

(* lbs_sync_channel_worker.                                                *)
SyncChannel ==
    /\ sync
    /\ sync' = FALSE
    /\ Begin("sync", NoChannel, "look", Get)
    /\ UNCHANGED <<mesh_dev, channel>>

ChannelNext ==
    \/ \E p \in Callers : Serve(p)
    \/ \E c \in RadioChannels : SetChannel(c) \/ MeshSetFreq(c) \/ MeshAutoStarted(c)
    \/ Looked \/ MeshOff \/ ChannelSet \/ Checked \/ Restarted
    \/ Left \/ Moved \/ MeshSetEssid \/ Renamed
    \/ SyncChannel \/ \E p \in {"ioctl", "sync"} : LookedAgain(p)

RadioSpec == RadioInit /\ [][ChannelNext]_radioVars
-----------------------------------------------------------------------------
AtRest == ~sync /\ \A p \in Callers : caller[p].pc = "idle"

(* assoc_helper_channel, lbs_mesh_set_freq, lbs_mesh_set_essid and the     *)
(* work sync_channel each leave the driver and the radio on one channel,   *)
(* and on the one that was asked for, whatever has gone wrong before: only *)
(* a failure or another call in the middle of the last one spoils it.      *)
InStep ==
    AtRest /\ ~disturbed =>
        /\ channel = fw.channel
        /\ target # NoChannel => channel = target

(* assoc_helper_channel turns the mesh off for a moment only: as long as   *)
(* no command fails, the mesh is on again when the calls have returned,    *)
(* however the worker and the ioctls met.                                  *)
MeshStaysOn == AtRest /\ mesh_dev /\ ~failed => fw.mesh

(* The radio is shared without harm: both of the above.                    *)
RadioShared == InStep /\ MeshStaysOn
=============================================================================
