------------------------------ MODULE LbsProbe ------------------------------
(***************************************************************************)
(* How a card is taken into service and out of it: if_sdio_probe with      *)
(* lbs_add_card and lbs_start_card, if_sdio_remove with lbs_stop_card and  *)
(* lbs_remove_card.  Each step takes something, or fails and jumps to the  *)
(* label that gives back what the steps before it took.                    *)
(***************************************************************************)
EXTENDS Integers

CONSTANTS
    ProbeFaults \* \subseteq Fallible: the steps that may fail

Fallible == {"model", "func", "irq", "ioport", "program", "adapter", "fifo",
             "thread", "intmask", "setup", "register", "register_mesh"}

ASSUME ProbeAssumption == ProbeFaults \subseteq Fallible

VARIABLES
    ppc,       \* where probe or remove is
    held,      \* what the driver holds of the system: "device" is ethX with
               \* the driver's state in it, "adapter" what the state points to
    claims,    \* how often it has claimed the host
    mesh_ptr,  \* priv->mesh_dev is not NULL
    cause,     \* (history) the step that failed
    misfreed   \* (history) what was undone that was not done: freed, or
               \* unregistered

undoVars  == <<mesh_ptr, cause, misfreed>>
probeVars == <<ppc, held, claims, undoVars>>

ProbeInit ==
    /\ ppc = "absent"
    /\ held = {}
    /\ claims = 0
    /\ mesh_ptr = FALSE
    /\ cause = "none" /\ misfreed = {}

Go(from, to, taken, given) ==
    /\ ppc = from
    /\ ppc' = to
    /\ held' = (held \cup taken) \ given

Fails(what) == what \in ProbeFaults /\ cause' = what

(* A step that takes something, or fails and goes to a label.              *)
StepOf(what, from, to, taken, label) ==
    \/ Go(from, to, taken, {}) /\ UNCHANGED cause
    \/ Go(from, label, {}, {}) /\ Fails(what)

(* The model decides which firmware; an unknown one is not served.         *)
Identify ==
    /\ StepOf("model", "absent", "card", {"card"}, "failed")
    /\ UNCHANGED <<claims, mesh_ptr, misfreed>>

KnownModel ==
    /\ StepOf("model", "card", "enable", {}, "free")
    /\ claims' = IF ppc' = "enable" THEN claims + 1 ELSE claims
    /\ UNCHANGED <<mesh_ptr, misfreed>>

EnableFunc ==
    /\ StepOf("func", "enable", "irq", {"func"}, "release")
    /\ UNCHANGED <<claims, mesh_ptr, misfreed>>

ClaimIrq ==
    /\ StepOf("irq", "irq", "ioport", {"irq"}, "disable")
    /\ UNCHANGED <<claims, mesh_ptr, misfreed>>

ReadIoport_ToReclaim ==
    /\ StepOf("ioport", "ioport", "program", {}, "reclaim")
    /\ claims' = IF ppc' = "program" THEN claims - 1 ELSE claims
    /\ UNCHANGED <<mesh_ptr, misfreed>>

ReadIoport ==
    /\ StepOf("ioport", "ioport", "program", {}, "release_int")
    /\ claims' = IF ppc' = "program" THEN claims - 1 ELSE claims
    /\ UNCHANGED <<mesh_ptr, misfreed>>

(* if_sdio_prog_firmware: LbsFirmware.  It claims the host for itself.     *)
Program ==
    /\ StepOf("program", "program", "add_card", {}, "reclaim")
    /\ UNCHANGED <<claims, mesh_ptr, misfreed>>

(* lbs_add_card: the device with the driver's state in it; its table of    *)
(* networks, command buffers and event queue (lbs_init_adapter); the main  *)
(* thread and the queue for works.  What fails in it is undone there:      *)
(* lbs_free_adapter, free_netdev.  An event queue that was not made is     *)
(* then freed all the same: kfifo_alloc returns an error, never NULL.      *)
InitAdapter ==
    /\ \/ /\ StepOf("adapter", "add_card", "thread", {"device", "adapter"}, "reclaim")
          /\ UNCHANGED misfreed
       \/ /\ Go("add_card", "reclaim", {}, {}) /\ Fails("fifo")
          /\ misfreed' = misfreed \cup {"event_fifo"}
    /\ UNCHANGED <<claims, mesh_ptr>>

FreeAdapter(from, to) == Go(from, to, {}, {"adapter", "device"})

StartThread ==
    /\ \/ Go("thread", "intmask", {"thread", "worker"}, {}) /\ UNCHANGED cause
       \/ FreeAdapter("thread", "reclaim") /\ Fails("thread")
    /\ UNCHANGED <<claims, mesh_ptr, misfreed>>

(* A failure to enable interrupts goes to reclaim, as if lbs_add_card had  *)
(* not been called.                                                        *)
EnableInterrupts ==
    /\ StepOf("intmask", "intmask", "setup", {}, "reclaim")
    /\ UNCHANGED <<claims, mesh_ptr, misfreed>>

(* lbs_start_card: lbs_setup_firmware, then the device is registered; that *)
(* it cannot be is not reported, and the rest is left out.                 *)
SetupFirmware ==
    /\ StepOf("setup", "setup", "register", {}, "err_activate_card")
    /\ UNCHANGED <<claims, mesh_ptr, misfreed>>

Register ==
    /\ StepOf("register", "register", "mesh", {"netdev", "files"}, "up")
    /\ UNCHANGED <<claims, mesh_ptr, misfreed>>

(* lbs_add_mesh, on firmware that has mesh: its failure is not reported.   *)
(* A device that cannot be registered is freed and priv->mesh_dev left as  *)
(* it is; one that cannot be allocated is as good as none.                 *)
AddMesh ==
    /\ \/ StepOf("register_mesh", "mesh", "up", {"mesh_dev"}, "up") /\ mesh_ptr' = TRUE
       \/ Go("mesh", "up", {}, {}) /\ UNCHANGED <<cause, mesh_ptr>>
    /\ UNCHANGED <<claims, misfreed>>

(* In service, packets wait for packet_worker to send them.                *)
PacketsQueued ==
    /\ Go("up", "up", {"packets"}, {})
    /\ UNCHANGED <<claims, undoVars>>

PacketsSent ==
    /\ Go("up", "up", {}, {"packets"})
    /\ UNCHANGED <<claims, undoVars>>
-----------------------------------------------------------------------------
(* The labels of if_sdio_probe, each falling through to the next.  The     *)
(* first frees the device under the main thread, without lbs_free_adapter, *)
(* and then the driver's state once more, which lies in the device.        *)
ErrActivateCard ==
    /\ Go("err_activate_card", "reclaim", {}, {"device"})
    /\ misfreed' = misfreed \cup {"priv"}
    /\ UNCHANGED <<claims, mesh_ptr, cause>>

Reclaim ==
    /\ Go("reclaim", "release_int", {}, {})
    /\ claims' = claims + 1
    /\ UNCHANGED undoVars

ReleaseInt ==
    /\ Go("release_int", "disable", {}, {"irq"})
    /\ UNCHANGED <<claims, undoVars>>

DisableFunc ==
    /\ Go("disable", "release", {}, {"func"})
    /\ UNCHANGED <<claims, undoVars>>

Release ==
    /\ Go("release", "free", {}, {})
    /\ claims' = claims - 1
    /\ UNCHANGED undoVars

FreeCard ==
    /\ Go("free", "failed", {}, {"packets", "card"})
    /\ UNCHANGED <<claims, undoVars>>

(* if_sdio_remove.  lbs_stop_card: the files and the device (a command     *)
(* that waits is told so).  lbs_remove_card: the mesh device, the works,   *)
(* the main thread, the driver's state.                                    *)
StopCard ==
    /\ Go("up", "remove_mesh", {}, {"files", "netdev"})
    /\ misfreed' = misfreed \cup ({"netdev"} \ held)
    /\ UNCHANGED <<claims, mesh_ptr, cause>>

RemoveMesh ==
    /\ Go("remove_mesh", "remove_card", {}, {"mesh_dev"})
    /\ misfreed' = IF mesh_ptr THEN misfreed \cup ({"mesh_dev"} \ held) ELSE misfreed
    /\ mesh_ptr' = FALSE
    /\ UNCHANGED <<claims, cause>>

RemoveCard ==
    /\ Go("remove_card", "remove_irq", {}, {"worker", "thread", "adapter", "device"})
    /\ UNCHANGED <<claims, undoVars>>

ReleaseFunc ==
    /\ Go("remove_irq", "remove_packets", {}, {"irq", "func"})
    /\ UNCHANGED <<claims, undoVars>>

FreePackets ==
    /\ Go("remove_packets", "gone", {}, {"packets", "card"})
    /\ UNCHANGED <<claims, undoVars>>

ProbeNext ==
    \/ Identify \/ KnownModel \/ EnableFunc \/ ClaimIrq \/ ReadIoport
    \/ Program \/ InitAdapter \/ StartThread \/ EnableInterrupts
    \/ SetupFirmware \/ Register \/ AddMesh \/ PacketsQueued \/ PacketsSent
    \/ ErrActivateCard \/ Reclaim \/ ReleaseInt \/ DisableFunc \/ Release \/ FreeCard
    \/ StopCard \/ RemoveMesh \/ RemoveCard \/ ReleaseFunc \/ FreePackets

ProbeSpec == ProbeInit /\ [][ProbeNext]_probeVars
-----------------------------------------------------------------------------
(* What each failure leaves behind, and what it makes the driver free or   *)
(* unregister that is not there: err_activate_card, the jump of            *)
(* if_sdio_probe to reclaim, kfifo_free of an error, lbs_stop_card of a    *)
(* device not registered and lbs_remove_mesh of a freed one.               *)
LeftBehind(failed) ==
    CASE failed = "intmask" -> {"device", "adapter", "thread", "worker"}
      [] failed = "setup"   -> {"adapter", "thread", "worker"}
      [] OTHER              -> {}

Misfreed(failed) ==
    CASE failed = "setup"         -> {"priv"}
      [] failed = "fifo"          -> {"event_fifo"}
      [] failed = "register"      -> {"netdev"}
      [] failed = "register_mesh" -> {"mesh_dev"}
      [] OTHER                    -> {}

(* After a failed probe, whichever step failed, and after a removal the    *)
(* host is free again, all is given back and nothing is undone twice: but  *)
(* for what those five faults leave or undo, and this exactly              *)
(* (if_sdio_probe, if_sdio_remove).                                        *)
ProbeUndone ==
    ppc \in {"failed", "gone"} =>
        /\ claims = 0
        /\ held = LeftBehind(cause)
        /\ misfreed = Misfreed(cause)
=============================================================================
