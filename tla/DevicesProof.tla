---------------------------- MODULE DevicesProof ----------------------------
(***************************************************************************)
(* The card and the network devices.  The SDIO glue, for every image, card *)
(* and fault: the firmware is sent within its image whatever pieces the    *)
(* card asks for; a transfer holds the packet that is handed on; a probe   *)
(* that fails and a removal give everything back.  The devices, for all    *)
(* groups: monitor mode excludes open devices, and the multicast filter is *)
(* what the devices asked for; for all addresses: the devices have one.    *)
(* The radio, for all channels and faults: the worker and the ioctls of    *)
(* the mesh share it without harm.                                         *)
(***************************************************************************)
EXTENDS LbsFirmware, LbsProbe, LbsTransfer, LbsNetdev, LbsRegion, LbsRadio,
        SequenceTheorems, TLAPS
-----------------------------------------------------------------------------
(* The firmware.                                                           *)
Phases == {"scratch", "helper", "helper_boot", "request", "chunks", "boot",
           "ready", "failed"}

FirmwareType ==
    /\ fpc \in Phases
    /\ image \in Nat /\ firmware \in Nat /\ size \in Nat
    /\ req_size \in Nat /\ asked \in Nat
    /\ block \in [at : Nat, data : Nat, length : Nat]

(* What is left of the image begins where the last block ended.            *)
Position ==
    /\ firmware + size = image
    /\ req_size <= size /\ req_size <= asked
    /\ block.at + block.data = firmware
    /\ block.data <= block.length /\ block.length <= 512

HelperFits ==
    fpc \in {"helper", "helper_boot"} => block.data + 4 <= 64 /\ req_size = 0

WhichImage ==
    /\ fpc \in {"request", "chunks", "boot"} => image = RealSize
    /\ fpc = "boot" => size = 0

FirmwareInv == FirmwareType /\ Position /\ HelperFits /\ WhichImage

(* Least is the smaller of two numbers.                                    *)
LEMMA LeastIsLeast ==
    ASSUME NEW x \in Nat, NEW y \in Nat
    PROVE  /\ Least(x, y) \in Nat
           /\ Least(x, y) <= x /\ Least(x, y) <= y
BY DEF Least

(* A length rounded up to whole blocks of 32 bytes holds it, and stays     *)
(* within the buffer of 512 (if_sdio_prog_real).                           *)
LEMMA RoundedUp ==
    ASSUME NEW n \in Nat, n <= 512
    PROVE  /\ ((n + 31) \div 32) * 32 \in Nat
           /\ n <= ((n + 31) \div 32) * 32
           /\ ((n + 31) \div 32) * 32 <= 512
OBVIOUS

(* The invariant holds at first.                                           *)
LEMMA FirmwareInitInv == FirmwareInit => FirmwareInv
BY DEF FirmwareInit, FirmwareInv, FirmwareType, Position, HelperFits,
       WhichImage, NoBlock, Phases

(* Every step keeps it.                                                    *)
LEMMA FirmwareStepInv ==
    FirmwareInv /\ [FirmwareNext]_firmwareVars => FirmwareInv'
<1> SUFFICES ASSUME FirmwareInv, [FirmwareNext]_firmwareVars
             PROVE  FirmwareInv'
  OBVIOUS
<1>0. /\ image \in Nat /\ firmware \in Nat /\ size \in Nat
      /\ req_size \in Nat /\ asked \in Nat
  BY DEF FirmwareInv, FirmwareType
<1>0a. /\ Least(req_size, 512) \in Nat
       /\ Least(req_size, 512) <= req_size /\ Least(req_size, 512) <= 512
  BY <1>0 DEF Least
<1> USE DEF FirmwareInv, FirmwareType, Position, HelperFits, WhichImage, Phases
<1>1. CASE AlreadyLoaded
  BY <1>1 DEF AlreadyLoaded
<1>2. CASE StartHelper
  BY <1>2, ImagesAssumption DEF StartHelper, StartImage, NoBlock
<1>3. CASE HelperBlock
  <2> DEFINE chunk == Least(size, 60)
  <2>1. chunk \in Nat /\ chunk <= size /\ chunk <= 60
    BY <1>0, LeastIsLeast
  <2>2. /\ block' = [at |-> firmware, data |-> chunk, length |-> 64]
        /\ firmware' = firmware + chunk
        /\ size' = size - chunk
        /\ fpc = "helper"
        /\ UNCHANGED <<fpc, image, req_size, asked>>
    BY <1>3 DEF HelperBlock
  <2> HIDE DEF chunk
  <2> QED BY <2>1, <2>2
<1>4. CASE HelperSent
  BY <1>4 DEF HelperSent
<1>5. CASE StartReal
  BY <1>5, ImagesAssumption DEF StartReal, StartImage, NoBlock
<1>6. ASSUME NEW bytes \in Requests, Request(bytes) PROVE FirmwareInv'
  <2>1. bytes \in Nat
    BY ImagesAssumption
  <2>2. /\ Least(bytes, size) \in Nat
        /\ Least(bytes, size) <= bytes /\ Least(bytes, size) <= size
    <3> HIDE DEF FirmwareInv, FirmwareType, Position, HelperFits, WhichImage
    <3> QED BY <1>0, <2>1 DEF Least
  <2>3. CASE fpc' = "chunks"
    <3>1. /\ fpc = "request" /\ req_size' = Least(bytes, size) /\ asked' = bytes
          /\ UNCHANGED <<image, firmware, size, block>>
      BY <1>6, <2>3 DEF Request, Granted
    <3> QED BY <2>1, <2>2, <2>3, <3>1
  <2>4. CASE fpc' = "failed"
    <3>1. UNCHANGED <<image, firmware, size, block, req_size, asked>>
      BY <1>6, <2>4 DEF Request
    <3> QED BY <2>4, <3>1
  <2> QED BY <1>6, <2>3, <2>4 DEF Request
<1>7. CASE Chunk512
  <2> DEFINE chunk == Least(req_size, 512)
             long == ((chunk + 31) \div 32) * 32
  <2>1. chunk \in Nat /\ chunk <= req_size /\ chunk <= 512
    BY <1>0, <1>0a
  <2>2. long \in Nat /\ chunk <= long /\ long <= 512
    <3> HIDE DEF chunk
    <3> QED BY <2>1, RoundedUp
  <2>3. /\ block' = [at |-> firmware, data |-> chunk, length |-> long]
        /\ firmware' = firmware + chunk
        /\ size' = size - chunk
        /\ req_size' = req_size - chunk
        /\ asked' = asked - chunk
        /\ fpc = "chunks"
        /\ UNCHANGED <<fpc, image>>
    BY <1>7 DEF Chunk512
  <2> HIDE DEF chunk, long
  <2> QED BY <2>1, <2>2, <2>3
<1>8. CASE PieceSent
  BY <1>8 DEF PieceSent
<1>9. CASE RealSent
  BY <1>9 DEF RealSent
<1>10. CASE Booted
  BY <1>10 DEF Booted
<1>11. CASE DownloadFails
  BY <1>11 DEF DownloadFails
<1>12. CASE UNCHANGED firmwareVars
  BY <1>12 DEF firmwareVars
<1> QED
  BY <1>1, <1>2, <1>3, <1>4, <1>5, <1>6, <1>7, <1>8, <1>9, <1>10, <1>11,
     <1>12 DEF FirmwareNext

(* Nothing is read beyond the end of an image or sent beyond a buffer or a *)
(* request (if_sdio_prog_helper, if_sdio_prog_real), however large the     *)
(* images are and whatever the card asks for.                              *)
THEOREM FirmwareWithinImage == FirmwareSpec => []NeverBeyondTheImage
<1>1. FirmwareInv => NeverBeyondTheImage
  <2> SUFFICES ASSUME FirmwareInv PROVE NeverBeyondTheImage
    OBVIOUS
  <2>1. /\ image \in Nat /\ firmware \in Nat /\ size \in Nat
        /\ req_size \in Nat /\ block.data \in Nat
    BY DEF FirmwareInv, FirmwareType
  <2>2. block.at + block.data <= image
    BY <2>1 DEF FirmwareInv, Position
  <2>3. fpc = "boot" => image = RealSize /\ firmware = RealSize
    BY <2>1 DEF FirmwareInv, Position, WhichImage
  <2> QED
    BY <2>1, <2>2, <2>3
    DEF FirmwareInv, Position, HelperFits, NeverBeyondTheImage
<1> QED
  BY <1>1, FirmwareInitInv, FirmwareStepInv, PTL DEF FirmwareSpec
-----------------------------------------------------------------------------
(* Transfers.                                                              *)
(* Whole words hold a size.                                                *)
LEMMA WordsHold ==
    ASSUME NEW n \in Nat
    PROVE  Words4(n) \in Nat /\ n <= Words4(n) /\ Words4(n) <= n + 3
BY DEF Words4

(* A size is its whole blocks and what remains.                            *)
LEMMA DivMod ==
    ASSUME NEW n \in Nat, NEW d \in Nat, d > 0
    PROVE  /\ n % d \in Nat /\ n % d < d
           /\ (n \div d) * d \in Nat
           /\ (n \div d) * d + (n % d) = n
<1>1. n % d = n - (n \div d) * d
  OBVIOUS
<1>2. (n \div d) * d \in Nat
  OBVIOUS
<1> DEFINE q == (n \div d) * d
           r == n % d
<1>3. r \in Nat
  OBVIOUS
<1>4. r < d
  OBVIOUS
<1>5. q \in Nat /\ r = n - q
  BY <1>1, <1>2
<1>6. q + r = n
  <2> HIDE DEF q, r
  <2> QED BY <1>5
<1> QED BY <1>3, <1>4, <1>5, <1>6

(* Rounding up to whole blocks does not shrink a size.                     *)
LEMMA BlocksHold ==
    ASSUME NEW n \in Nat, NEW d \in Nat, d > 0
    PROVE  /\ ((n + d - 1) \div d) * d \in Nat
           /\ n <= ((n + d - 1) \div d) * d
<1> DEFINE m == n + d - 1
           q == (m \div d) * d
           r == m % d
<1>1. m \in Nat
  OBVIOUS
<1>2. q \in Nat /\ r \in Nat /\ r < d /\ q + r = m
  <2> HIDE DEF m
  <2> QED BY <1>1, DivMod
<1>3. n <= q
  <2> HIDE DEF q, r
  <2> QED BY <1>2
<1> QED BY <1>2, <1>3

(* Padding never shrinks a transfer (sdio_align_size), whatever the size   *)
(* of the function's blocks and whether the card moves several at once.    *)
THEOREM PaddingHolds ==
    ASSUME NEW blk \in Nat, blk > 0, NEW multi_block \in BOOLEAN, NEW sz \in Nat
    PROVE  AlignSize(blk, multi_block, sz) \in Nat
           /\ sz <= AlignSize(blk, multi_block, sz)
<1>1. Words4(sz) \in Nat /\ sz <= Words4(sz)
  BY WordsHold
<1>2. PaddedMany(blk, sz) \in Nat /\ sz <= PaddedMany(blk, sz)
  <2> DEFINE words == Words4(sz)
             whole == ((words + blk - 1) \div blk) * blk
             q == (words \div blk) * blk
             r == words % blk
  <2>1. whole \in Nat /\ words <= whole
    <3> HIDE DEF words
    <3> QED BY <1>1, BlocksHold DEF words
  <2>2. Words4(whole) \in Nat /\ whole <= Words4(whole)
    <3> HIDE DEF whole
    <3> QED BY <2>1, WordsHold
  <2>3. q \in Nat /\ r \in Nat /\ q + r = words
    <3>1. words \in Nat
      BY <1>1
    <3> HIDE DEF words
    <3> QED BY <3>1, DivMod
  <2>4. Words4(r) \in Nat /\ r <= Words4(r)
    <3> HIDE DEF r
    <3> QED BY <2>3, WordsHold
  <2>5. PaddedMany(blk, sz) \in {words, Words4(whole), q + Words4(r), sz}
    BY DEF PaddedMany
  <2>6. words \in Nat /\ sz <= words
    BY <1>1
  <2> HIDE DEF words, whole, q, r
  <2> QED BY <2>1, <2>2, <2>3, <2>4, <2>5, <2>6
<1>3. PaddedSingle(blk, sz) \in Nat /\ sz <= PaddedSingle(blk, sz)
  <2> DEFINE chunk == Smaller(blk, 512)
             q == (sz \div chunk) * chunk
             r == sz % chunk
  <2>1. chunk \in Nat /\ chunk > 0
    BY DEF Smaller
  <2>2. q \in Nat /\ r \in Nat /\ q + r = sz
    <3> HIDE DEF chunk
    <3> QED BY <2>1, DivMod
  <2>3. Words4(r) \in Nat /\ r <= Words4(r)
    <3> HIDE DEF r
    <3> QED BY <2>2, WordsHold
  <2>4. PaddedSingle(blk, sz) \in {q + Words4(r), sz}
    BY DEF PaddedSingle
  <2> HIDE DEF chunk, q, r
  <2> QED BY <2>2, <2>3, <2>4
<1> QED BY <1>1, <1>2, <1>3 DEF AlignSize

(* Unless padding carries the size past 16 bits, the packet handed on was  *)
(* read in that transfer, none of it left from an earlier one              *)
(* (if_sdio_card_to_host).                                                 *)
THEOREM PacketWasRead ==
    ASSUME NEW blk \in Nat, blk > 0, NEW multi_block \in BOOLEAN,
           NEW card_says \in Nat, NEW length \in Nat,
           AlignSize(blk, multi_block, card_says) < 65536, HandedOn(card_says, length)
    PROVE  length <= BytesRead(blk, multi_block, card_says)
<1> DEFINE read == AlignSize(blk, multi_block, card_says)
<1>1. read \in Nat /\ card_says <= read
  BY PaddingHolds
<1>2. read % 65536 = read
  <2> HIDE DEF read
  <2>1. read < 65536
    BY DEF read
  <2> QED BY <1>1, <2>1
<1> QED BY <1>1, <1>2 DEF HandedOn, BytesRead
-----------------------------------------------------------------------------
(* Probe and removal.                                                      *)
(* What the driver holds at each place, and whether the host is claimed.   *)
At(pc, things, n) == ppc = pc => held = things /\ claims = n
Within(pc, least, most) ==
    ppc = pc => least \subseteq held /\ held \subseteq most /\ claims = 0

Bus     == {"card", "func", "irq"}
Running == Bus \cup {"device", "adapter", "thread", "worker"}
Known   == Running \cup {"netdev", "files"}
All     == Known \cup {"mesh_dev", "packets"}

Going    == {"absent", "card", "enable", "irq", "ioport", "program", "add_card",
             "thread", "intmask", "setup", "register", "mesh"}
Undone   == {"reclaim", "release_int", "disable", "release", "free", "failed"}
InUse    == {"up", "remove_mesh"}
Removed  == {"remove_card", "remove_irq", "remove_packets", "gone"}

Probing ==
    /\ At("absent", {}, 0)
    /\ At("card", {"card"}, 0)
    /\ At("enable", {"card"}, 1)
    /\ At("irq", {"card", "func"}, 1)
    /\ At("ioport", Bus, 1)
    /\ At("program", Bus, 0)
    /\ At("add_card", Bus, 0)
    /\ At("thread", Bus \cup {"device", "adapter"}, 0)
    /\ At("intmask", Running, 0)
    /\ At("setup", Running, 0)
    /\ At("register", Running, 0)
    /\ At("mesh", Known, 0)
    /\ At("err_activate_card", Running, 0)

Undoing ==
    /\ At("reclaim", Bus \cup LeftBehind(cause), 0)
    /\ At("release_int", Bus \cup LeftBehind(cause), 1)
    /\ At("disable", {"card", "func"} \cup LeftBehind(cause), 1)
    /\ At("release", {"card"} \cup LeftBehind(cause), 1)
    /\ At("free", {"card"} \cup LeftBehind(cause), 0)
    /\ At("failed", LeftBehind(cause), 0)

Removing ==
    /\ Within("up", Running, All)
    /\ Within("remove_mesh", Running, Running \cup {"mesh_dev", "packets"})
    /\ Within("remove_card", Running, Running \cup {"packets"})
    /\ Within("remove_irq", Bus, Bus \cup {"packets"})
    /\ Within("remove_packets", {"card"}, {"card", "packets"})
    /\ At("gone", {}, 0)

(* What has failed and what was undone wrongly by then: priv->mesh_dev      *)
(* points at a device that is there, or at the one that was freed.         *)
Faulted ==
    /\ ppc \in Going => cause = "none" /\ misfreed = {} /\ mesh_ptr = FALSE
    /\ ppc = "err_activate_card" => cause = "setup" /\ misfreed = {}
    /\ ppc \in Undone => misfreed = Misfreed(cause)
    /\ ppc \in InUse \cup Removed => cause \in {"none", "register", "register_mesh"}
    /\ ppc = "up" => misfreed = {} /\ (cause = "register" <=> "netdev" \notin held)
    /\ ppc = "remove_mesh" => misfreed = Misfreed(cause) \ {"mesh_dev"}
    /\ ppc \in InUse =>
          /\ mesh_ptr = TRUE <=> "mesh_dev" \in held \/ cause = "register_mesh"
          /\ cause = "register_mesh" => "mesh_dev" \notin held
    /\ ppc \in Removed => misfreed = Misfreed(cause)

ProbeInv == Probing /\ Undoing /\ Removing /\ Faulted

(* The two sorts of step.                                                  *)
USE DEF At, Within, Bus, Running, Known, All, Going, Undone, InUse, Removed

LEMMA ForwardSteps ==
    ASSUME ProbeInv,
           \/ Identify \/ KnownModel \/ EnableFunc \/ ClaimIrq \/ ReadIoport
           \/ Program \/ InitAdapter \/ StartThread \/ EnableInterrupts
           \/ SetupFirmware \/ Register \/ AddMesh
    PROVE  ProbeInv'
<1> USE DEF ProbeInv, Probing, Undoing, Removing, Faulted, Go, StepOf, Fails,
            LeftBehind, Misfreed
<1>1. CASE Identify
  BY <1>1 DEF Identify
<1>2. CASE KnownModel
  <2>1. CASE ppc' = "enable"
    BY <1>2, <2>1 DEF KnownModel
  <2>2. CASE ppc' = "free"
    BY <1>2, <2>2 DEF KnownModel
  <2>3. ppc' = "enable" \/ ppc' = "free"
    BY <1>2 DEF KnownModel
  <2> QED
    BY <2>1, <2>2, <2>3
<1>3. CASE EnableFunc
  BY <1>3 DEF EnableFunc
<1>4. CASE ClaimIrq
  BY <1>4 DEF ClaimIrq
<1>5. CASE ReadIoport
  <2>1. CASE ppc' = "program"
    BY <1>5, <2>1 DEF ReadIoport
  <2>2. CASE ppc' = "release_int"
    BY <1>5, <2>2 DEF ReadIoport
  <2>3. ppc' = "program" \/ ppc' = "release_int"
    BY <1>5 DEF ReadIoport
  <2> QED
    BY <2>1, <2>2, <2>3
<1>6. CASE Program
  BY <1>6 DEF Program
<1>7. CASE InitAdapter
  BY <1>7 DEF InitAdapter
<1>8. CASE StartThread
  BY <1>8 DEF StartThread, FreeAdapter
<1>9. CASE EnableInterrupts
  <2>1. CASE ppc' = "setup"
    BY <1>9, <2>1 DEF EnableInterrupts
  <2>2. CASE ppc' = "reclaim"
    BY <1>9, <2>2 DEF EnableInterrupts
  <2>3. ppc' = "setup" \/ ppc' = "reclaim"
    BY <1>9 DEF EnableInterrupts
  <2> QED
    BY <2>1, <2>2, <2>3
<1>10. CASE SetupFirmware
  BY <1>10 DEF SetupFirmware
<1>11. CASE Register
  BY <1>11 DEF Register
<1>12. CASE AddMesh
  <2>1. /\ ppc = "mesh" /\ ppc' = "up"
        /\ held = Known /\ claims' = 0 /\ misfreed' = {}
    BY <1>12 DEF AddMesh
  <2>2. \/ held' = Known /\ cause' = "none" /\ mesh_ptr' = FALSE
        \/ held' = Known /\ cause' = "register_mesh" /\ mesh_ptr' = TRUE
        \/ held' = Known \cup {"mesh_dev"} /\ cause' = "none" /\ mesh_ptr' = TRUE
    BY <1>12, <2>1 DEF AddMesh
  <2>3. Running \subseteq held' /\ held' \subseteq All /\ "netdev" \in held'
    BY <2>2
  <2> QED
    BY <2>1, <2>2, <2>3
<1> QED
  BY <1>1, <1>2, <1>3, <1>4, <1>5, <1>6, <1>7, <1>8, <1>9, <1>10, <1>11, <1>12

LEMMA BackwardSteps ==
    ASSUME ProbeInv,
           \/ PacketsQueued \/ PacketsSent
           \/ ErrActivateCard \/ Reclaim \/ ReleaseInt \/ DisableFunc \/ Release
           \/ FreeCard \/ StopCard \/ RemoveMesh \/ RemoveCard \/ ReleaseFunc
           \/ FreePackets
    PROVE  ProbeInv'
<1> USE DEF ProbeInv, Probing, Undoing, Removing, Faulted, Go, LeftBehind,
            Misfreed, undoVars
<1>1. CASE PacketsQueued
  BY <1>1 DEF PacketsQueued
<1>2. CASE PacketsSent
  BY <1>2 DEF PacketsSent
<1>3. CASE ErrActivateCard
  BY <1>3 DEF ErrActivateCard
<1>4. CASE Reclaim
  BY <1>4 DEF Reclaim
<1>5. CASE ReleaseInt
  BY <1>5 DEF ReleaseInt
<1>6. CASE DisableFunc
  BY <1>6 DEF DisableFunc
<1>7. CASE Release
  BY <1>7 DEF Release
<1>8. CASE FreeCard
  BY <1>8 DEF FreeCard
<1>9. CASE StopCard
  BY <1>9 DEF StopCard
<1>10. CASE RemoveMesh
  BY <1>10 DEF RemoveMesh
<1>11. CASE RemoveCard
  BY <1>11 DEF RemoveCard
<1>12. CASE ReleaseFunc
  BY <1>12 DEF ReleaseFunc
<1>13. CASE FreePackets
  BY <1>13 DEF FreePackets
<1> QED
  BY <1>1, <1>2, <1>3, <1>4, <1>5, <1>6, <1>7, <1>8, <1>9, <1>10, <1>11,
     <1>12, <1>13

(* After a failed probe, whichever of the steps in ProbeFaults failed, and *)
(* after a removal the host is released, all that the driver took is given *)
(* back and nothing was undone that was not done: but for what the five    *)
(* faults named by LeftBehind and Misfreed leave or undo.                  *)
THEOREM EverythingGivenBack == ProbeSpec => []ProbeUndone
<1>1. ProbeInit => ProbeInv
  BY DEF ProbeInit, ProbeInv, Probing, Undoing, Removing, Faulted
<1>2. ProbeInv /\ [ProbeNext]_probeVars => ProbeInv'
  <2> SUFFICES ASSUME ProbeInv, [ProbeNext]_probeVars
               PROVE  ProbeInv'
    OBVIOUS
  <2>1. CASE ProbeNext
    BY <2>1, ForwardSteps, BackwardSteps DEF ProbeNext
  <2>2. CASE UNCHANGED probeVars
    BY <2>2 DEF probeVars, undoVars, ProbeInv, Probing, Undoing, Removing, Faulted
  <2> QED
    BY <2>1, <2>2
<1>3. ProbeInv => ProbeUndone
  BY DEF ProbeInv, Undoing, Removing, Faulted, ProbeUndone, LeftBehind
<1> QED
  BY <1>1, <1>2, <1>3, PTL DEF ProbeSpec
-----------------------------------------------------------------------------
(* Network devices.                                                        *)

(* From the moment the devices are seen closed until monitor mode is left, *)
(* none is open that did not slip in.                                      *)
MonitorInv ==
    /\ DOMAIN open = Devs
    /\ (monitormode \/ rpc \in {"leave", "add", "store"}) /\ (\E d \in Devs : open[d])
       => slipped

(* No device is open in monitor mode (lbs_dev_open, lbs_rtap_set), but one *)
(* that was opened while it was being set up.                              *)
THEOREM MonitorExcludesOpen == NetdevSpec => []MonitorOrOpen
<1>1. NetdevInit => MonitorInv
  BY DEF NetdevInit, MonitorInv
<1>2. MonitorInv /\ [NetdevNext \/ MonitorNext]_netdevVars => MonitorInv'
  <2> SUFFICES ASSUME MonitorInv, [NetdevNext \/ MonitorNext]_netdevVars PROVE MonitorInv'
    OBVIOUS
  <2> USE DEF MonitorInv
  <2>1. CASE UNCHANGED <<open, rtapVars, slipped>>
    BY <2>1 DEF rtapVars
  <2>2. CASE \E d \in Devs : DevOpen(d)
    <3>1. /\ ~monitormode /\ DOMAIN open' = Devs /\ UNCHANGED <<monitormode, rpc>>
          /\ slipped' = (slipped \/ rpc \in {"leave", "add", "store"})
      BY <2>2 DEF DevOpen, MayOpen, rtapVars
    <3> QED
      BY <3>1
  <2>3. CASE \E d \in Devs : DevStop(d)
    BY <2>3 DEF DevStop, Stopped, rtapVars
  <2>4. CASE RtapOn \/ RtapLeft \/ RtapAdded \/ RtapStored
    BY <2>4 DEF RtapOn, RtapLeft, RtapAdded, RtapStored
  <2>5. CASE RtapOff \/ RtapRemoved \/ RtapTell \/ RtapDone
    BY <2>5 DEF RtapOff, RtapRemoved, RtapTell, RtapDone
  <2>6. CASE \E d \in Devs : \/ DevDown(d)
                             \/ \E f \in SUBSET NetFlags : ChangeFlags(d, f)
                             \/ \E g \in Groups : JoinOrLeave(d, g)
    BY <2>1, <2>6 DEF DevDown, ChangeFlags, JoinOrLeave
  <2>7. CASE \/ MeshAdded \/ MeshRemoved \/ WorkStarts \/ AddMcastAddrs("eth", "mesh")
             \/ AddMcastAddrs("mesh", "list") \/ SendList \/ ReadControl
             \/ StoreControl \/ SendControl \/ UNCHANGED netdevVars
    BY <2>1, <2>7 DEF MeshAdded, MeshRemoved, WorkStarts, AddMcastAddrs, SendList,
       ReadControl, StoreControl, SendControl, netdevVars
  <2>8. CASE (\E wep \in BOOLEAN : KeysRead(wep)) \/ KeysStore \/ KeysSend \/ FwTakes
    BY <2>1, <2>8 DEF KeysRead, KeysStore, KeysSend, FwTakes
  <2> QED
    BY <2>2, <2>3, <2>4, <2>5, <2>6, <2>7, <2>8 DEF NetdevNext, MonitorNext
<1>3. MonitorInv => MonitorOrOpen
  BY DEF MonitorInv, MonitorOrOpen
<1> QED
  BY <1>1, <1>2, <1>3, PTL DEF NetdevSpec

(* What the firmware will have of something once the commands to it are    *)
(* carried out, or would have if the last of its kind had not been lost.   *)
FwCmd == [name : {"list"}, list : SUBSET Groups]
         \cup [name : {"control"}, control : SUBSET Bits]
         \cup [name : {"monitor"}, monitor : BOOLEAN]

Ends(name, x) ==
    \/ name \in behind
    \/ \E i \in 1..Len(cmdq) : /\ cmdq[i].name = name /\ cmdq[i][name] = x
                              /\ \A j \in (i + 1)..Len(cmdq) : cmdq[j].name # name
    \/ (\A j \in 1..Len(cmdq) : cmdq[j].name # name) /\ hw[name] = x

FwTypes == cmdq \in Seq(FwCmd) /\ DOMAIN hw = {"control", "list", "monitor"}

LEMMA EndsAppended ==
    ASSUME FwTypes, NEW cmd \in FwCmd, CmdAsync(cmd), UNCHANGED hw,
           NEW name, NEW x, Ends(name, x)
    PROVE  /\ cmd.name # name => Ends(name, x)'
           /\ cmd.name = name => Ends(name, cmd[name])'
<1> SUFFICES ASSUME cmdq' = Append(cmdq, cmd), behind' = behind \ {cmd.name}
             PROVE  /\ cmd.name # name => Ends(name, x)'
                    /\ cmd.name = name => Ends(name, cmd[name])'
  BY DEF CmdAsync, Ends
<1>1. /\ cmdq' \in Seq(FwCmd) /\ Len(cmdq') = Len(cmdq) + 1 /\ Len(cmdq) \in Nat
      /\ cmdq'[Len(cmdq) + 1] = cmd
      /\ \A i \in 1..Len(cmdq) : cmdq'[i] = cmdq[i]
  BY AppendProperties, LenProperties DEF FwTypes
<1>2. ASSUME cmd.name = name PROVE Ends(name, cmd[name])'
  BY <1>1, <1>2 DEF Ends
<1>3. ASSUME cmd.name # name, name \notin behind PROVE Ends(name, x)'
  <2>1. CASE (\A j \in 1..Len(cmdq) : cmdq[j].name # name) /\ hw[name] = x
    BY <1>1, <1>3, <2>1 DEF Ends
  <2>2. ASSUME NEW i \in 1..Len(cmdq), cmdq[i].name = name, cmdq[i][name] = x,
               \A j \in (i + 1)..Len(cmdq) : cmdq[j].name # name
        PROVE  Ends(name, x)'
    <3>1. cmdq'[i] = cmdq[i] /\ i \in 1..Len(cmdq')
      BY <1>1, <2>2
    <3>2. \A j \in (i + 1)..Len(cmdq') : cmdq'[j].name # name
      BY <1>1, <1>3, <2>2
    <3> QED
      BY <2>2, <3>1, <3>2 DEF Ends
  <2> QED
    BY <1>3, <2>1, <2>2 DEF Ends
<1> QED
  BY <1>2, <1>3 DEF Ends

LEMMA TypesSent ==
    ASSUME FwTypes, NEW cmd \in FwCmd, CmdAsync(cmd), UNCHANGED hw
    PROVE  FwTypes'
<1>1. FwCmd' = FwCmd
  BY DEF FwCmd, Bits
<1> QED
  BY <1>1, AppendProperties DEF FwTypes, CmdAsync

LEMMA EndsTaken ==
    ASSUME FwTypes, FwTakes, NEW name \in {"control", "list"}, NEW x, Ends(name, x)
    PROVE  Ends(name, x)'
<1> SUFFICES ASSUME name \notin behind, name \notin behind'
             PROVE  Ends(name, x)'
  BY DEF FwTakes, Ends
<1>1. /\ cmdq' \in Seq(FwCmd) /\ Len(cmdq') = Len(cmdq) - 1 /\ Len(cmdq) \in Nat \ {0}
      /\ \A i \in 1..(Len(cmdq) - 1) : cmdq'[i] = cmdq[i + 1]
      /\ Head(cmdq) = cmdq[1]
  BY HeadTailProperties, LenProperties, EmptySeq DEF FwTypes, FwTakes
<1>2. \/ hw'[name] = IF name = cmdq[1].name THEN cmdq[1][name] ELSE hw[name]
      \/ /\ hw' = hw
         /\ cmdq[1].name = name => \E k \in 2..Len(cmdq) : cmdq[k].name = name
  BY <1>1 DEF FwTakes, FwTypes
<1>3. Ends(name, x)'
  <2>1. CASE (\A j \in 1..Len(cmdq) : cmdq[j].name # name) /\ hw[name] = x
    BY <1>1, <1>2, <2>1 DEF Ends
  <2>2. ASSUME NEW i \in 1..Len(cmdq), cmdq[i].name = name, cmdq[i][name] = x,
               \A j \in (i + 1)..Len(cmdq) : cmdq[j].name # name
        PROVE  Ends(name, x)'
    <3>1. \A j \in i..Len(cmdq') : cmdq'[j].name # name
      BY <1>1, <2>2
    <3>2. CASE i = 1
      BY <1>1, <1>2, <2>2, <3>1, <3>2 DEF Ends
    <3>3. CASE i # 1
      <4>1. i - 1 \in 1..Len(cmdq') /\ cmdq'[i - 1] = cmdq[i]
        BY <1>1, <3>3
      <4> QED
        BY <1>1, <2>2, <3>1, <4>1 DEF Ends
    <3> QED
      BY <3>2, <3>3
  <2> QED
    BY <2>1, <2>2 DEF Ends
<1> QED
  BY <1>3

(* The multicast worker.  What the firmware will have of mac_control is    *)
(* what the driver has, but for what is about to be sent; and unless the   *)
(* work is due again, what the worker has seen so far is still right for   *)
(* the devices that are up.                                                *)
Bare(control) == control \ {"wep"}

ControlSent(ec) ==
    /\ apc # "send" => ("wep" \in ec <=> "wep" \in mac_control)
    /\ mpc # "send" => Bare(ec) = Bare(mac_control)
    /\ mpc = "send" => Bare(ec) \in {Bare(old), Bare(mac_control)}
    /\ mpc \notin {"idle", "send"} => Bare(old) = Bare(mac_control)

Served(d, control, list) ==
    /\ "promisc" \in flags[d] => "promisc" \in control
    /\ "allmulti" \in flags[d] => control \cap {"promisc", "all"} # {}
    /\ \/ control \cap {"promisc", "all"} # {}
       \/ "multi" \in control /\ groups[d] \subseteq list
       \/ groups[d] = {}

SeenOf(d, list) ==
    /\ mpc \in {"eth", "mesh", "list"} => flags[d] = {}
    /\ mpc = "list" \/ (mpc = "mesh" /\ d = "eth") => groups[d] \subseteq filter
    /\ mpc \in {"promisc", "all", "multi", "none"} => Served(d, {mpc} \cap Bits, list)
    /\ mpc = "store" => Served(d, Bare(mreg), list)
    /\ mpc \in {"send", "idle"} => Served(d, Bare(mac_control), list)

Seen(list) ==
    ~mcast_work => \A d \in present : up[d] = "up" => SeenOf(d, list)

NetTypes ==
    /\ present \in {{"eth"}, Devs}
    /\ up \in [Devs -> {"down", "up", "closing"}]
    /\ "mesh" \notin present => up["mesh"] = "down"
    /\ flags \in [Devs -> SUBSET NetFlags] /\ groups \in [Devs -> SUBSET Groups]
    /\ filter \subseteq Groups /\ FwTypes /\ monitormode \in BOOLEAN
    /\ mpc \in {"idle", "eth", "mesh", "list", "promisc", "all", "multi", "none",
                "store", "send"}
    /\ mac_control \subseteq Bits /\ mreg \subseteq Bits /\ areg \subseteq Bits
    /\ mcast_work \in BOOLEAN /\ overwritten \in BOOLEAN

Filtered ==
    \E ec \in SUBSET Bits, el \in SUBSET Groups :
        Ends("control", ec) /\ Ends("list", el) /\ ControlSent(ec) /\ Seen(el)

FilterInv == NetTypes /\ (~overwritten => Filtered)

(* Steps that send nothing.                                                *)
LEMMA EndsKept ==
    ASSUME UNCHANGED fwSideVars, NEW name, NEW x, Ends(name, x)
    PROVE  Ends(name, x)'
  BY DEF Ends, fwSideVars

LEMMA NothingSent ==
    ASSUME NetTypes', UNCHANGED fwSideVars, overwritten' = FALSE => overwritten = FALSE,
           ~overwritten => Filtered,
           \A ec \in SUBSET Bits : ~overwritten' /\ ControlSent(ec) => ControlSent(ec)',
           \A el \in SUBSET Groups : ~overwritten' /\ Seen(el) => Seen(el)'
    PROVE  FilterInv'
<1> SUFFICES ASSUME ~overwritten' PROVE Filtered'
  BY DEF FilterInv
<1>1. ~overwritten
  BY DEF NetTypes
<1>2. PICK ec \in SUBSET Bits, el \in SUBSET Groups :
         Ends("control", ec) /\ Ends("list", el) /\ ControlSent(ec) /\ Seen(el)
  BY <1>1 DEF Filtered
<1>3. Ends("control", ec)' /\ Ends("list", el)' /\ ControlSent(ec)' /\ Seen(el)'
  BY <1>2, EndsKept
<1> QED
  BY <1>3 DEF Filtered

(* What the kernel does: a device that comes up, or is up when its flags   *)
(* or groups change, makes the work due.                                   *)
LEMMA KernelStep ==
    ASSUME FilterInv, NetTypes',
           UNCHANGED <<workerVars, controlVars, wepVars, fwSideVars>>,
           mcast_work' \in {mcast_work, TRUE},
           ~mcast_work' => \A d \in present' :
               up'[d] = "up" => /\ d \in present /\ up[d] = "up"
                                /\ UNCHANGED <<flags[d], groups[d]>>
    PROVE  FilterInv'
<1>1. UNCHANGED <<mpc, old, mreg, filter, mac_control, overwritten, apc>>
  BY DEF workerVars, controlVars, wepVars
<1>2. ASSUME NEW ec PROVE ControlSent(ec) => ControlSent(ec)'
  BY <1>1 DEF ControlSent
<1>3. ASSUME NEW el, Seen(el), ~mcast_work', NEW d \in present', up'[d] = "up"
      PROVE  SeenOf(d, el)'
  <2>1. SeenOf(d, el) /\ UNCHANGED <<flags[d], groups[d]>>
    BY <1>3 DEF Seen
  <2> QED
    BY <1>1, <2>1 DEF SeenOf, Served
<1>4. ASSUME NEW el PROVE Seen(el) => Seen(el)'
  BY <1>3 DEF Seen
<1> QED
  BY <1>1, <1>2, <1>4, NothingSent DEF FilterInv

LEMMA KernelSteps ==
    ASSUME FilterInv,
           \/ MeshAdded \/ MeshRemoved
           \/ \E d \in Devs : \/ DevOpen(d) \/ DevStop(d) \/ DevDown(d)
                              \/ \E f \in SUBSET NetFlags : ChangeFlags(d, f)
                              \/ \E g \in Groups : JoinOrLeave(d, g)
    PROVE  FilterInv'
<1> USE DEF FilterInv, NetTypes, FwTypes, fwSideVars, Devs, workerVars, controlVars,
     wepVars, rtapVars
<1>1. CASE MeshAdded
  BY <1>1, KernelStep DEF MeshAdded
<1>2. CASE MeshRemoved
  BY <1>2, KernelStep DEF MeshRemoved
<1>3. ASSUME NEW d \in Devs, DevOpen(d) PROVE FilterInv'
  BY <1>3, KernelStep DEF DevOpen, TellIf
<1>4. ASSUME NEW d \in Devs, DevStop(d) PROVE FilterInv'
  BY <1>4, KernelStep DEF DevStop, Stopped
<1>5. ASSUME NEW d \in Devs, DevDown(d) PROVE FilterInv'
  BY <1>5, KernelStep DEF DevDown
<1>6. ASSUME NEW d \in Devs, NEW f \in SUBSET NetFlags, ChangeFlags(d, f) PROVE FilterInv'
  BY <1>6, KernelStep DEF ChangeFlags, TellIf
<1>7. ASSUME NEW d \in Devs, NEW g \in Groups, JoinOrLeave(d, g) PROVE FilterInv'
  <2>1. PICK joined \in SUBSET Groups : groups' = [groups EXCEPT ![d] = joined]
    <3>1. groups[d] \in SUBSET Groups
      OBVIOUS
    <3>2. (IF g \in groups[d] THEN groups[d] \ {g} ELSE groups[d] \cup {g}) \in SUBSET Groups
      BY <3>1
    <3> QED
      BY <1>7, <3>2 DEF JoinOrLeave
  <2>2. /\ groups' \in [Devs -> SUBSET Groups]
        /\ \A c \in Devs \ {d} : groups'[c] = groups[c]
    BY <2>1
  <2>3. /\ UNCHANGED <<present, up, flags, workerVars, controlVars, wepVars, rtapVars,
                       fwSideVars>>
        /\ mcast_work' = (mcast_work \/ up'[d] = "up")
    BY <1>7 DEF JoinOrLeave, TellIf
  <2>4. NetTypes'
    BY <2>2, <2>3
  <2> QED
    BY <2>2, <2>3, <2>4, KernelStep
<1> QED
  BY <1>1, <1>2, <1>3, <1>4, <1>5, <1>6, <1>7
(* The worker up to its write to mac_control.                              *)
LEMMA WorkBegun == ASSUME FilterInv, WorkStarts PROVE FilterInv'
<1>1. /\ UNCHANGED <<present, up, flags, groups, mreg, mac_control, overwritten, apc, areg,
                     monitormode, cmdq, hw, behind>>
      /\ old' = mac_control /\ filter' = {} /\ mpc = "idle"
      /\ mpc' = IF AllFlags = {} THEN "eth"
                ELSE IF "promisc" \in AllFlags THEN "promisc" ELSE "all"
      /\ mcast_work' = FALSE
  BY DEF WorkStarts, kernelVars, controlVars, wepVars, rtapVars, fwSideVars, NoFilter
<1>2. NetTypes'
  BY <1>1 DEF FilterInv, NetTypes, FwTypes
<1>3. ASSUME NEW ec, ControlSent(ec) PROVE ControlSent(ec)'
  BY <1>1, <1>3 DEF ControlSent
<1>4. ASSUME NEW el, NEW d \in present PROVE SeenOf(d, el)'
  <2>1. flags[d] \subseteq AllFlags /\ flags[d] \subseteq NetFlags
    BY DEF AllFlags, FilterInv, NetTypes, Devs
  <2>2. CASE AllFlags = {}
    BY <1>1, <2>1, <2>2 DEF SeenOf
  <2>3. CASE "promisc" \in AllFlags
    BY <1>1, <2>3 DEF SeenOf, Served, Bits
  <2>4. CASE AllFlags # {} /\ "promisc" \notin AllFlags
    BY <1>1, <2>1, <2>4 DEF SeenOf, Served, Bits
  <2> QED
    BY <2>2, <2>3, <2>4
<1> QED
  BY <1>1, <1>2, <1>3, <1>4, NothingSent DEF FilterInv, Seen, fwSideVars

LEMMA WorkAdds ==
    ASSUME FilterInv, AddMcastAddrs("eth", "mesh") \/ AddMcastAddrs("mesh", "list")
    PROVE  FilterInv'
<1>1. PICK d \in {"eth", "mesh"} : AddMcastAddrs(d, IF d = "eth" THEN "mesh" ELSE "list")
  OBVIOUS
<1>2. /\ UNCHANGED <<present, up, flags, groups, mcast_work, old, mreg, mac_control,
                     overwritten, apc, areg, monitormode, cmdq, hw, behind>>
      /\ mpc = d /\ mpc' \in {"all", IF d = "eth" THEN "mesh" ELSE "list"}
      /\ filter' = IF d \in present /\ up[d] # "down"
                   THEN filter \cup groups[d] ELSE filter
  BY <1>1 DEF AddMcastAddrs, Added, kernelVars, controlVars, wepVars, rtapVars, fwSideVars
<1>3. filter' \subseteq Groups
  <2>1. groups[d] \subseteq Groups /\ filter \subseteq Groups
    BY DEF FilterInv, NetTypes, Devs
  <2> QED
    BY <1>2, <2>1
<1>4. NetTypes'
  BY <1>2, <1>3 DEF FilterInv, NetTypes, FwTypes
<1>5. ASSUME NEW ec, ControlSent(ec) PROVE ControlSent(ec)'
  BY <1>2, <1>5 DEF ControlSent
<1>6. ASSUME NEW el, NEW c \in present, up[c] = "up", SeenOf(c, el) PROVE SeenOf(c, el)'
  <2>1. flags[c] = {} /\ (d = "mesh" /\ c = "eth" => groups[c] \subseteq filter)
    BY <1>2, <1>6 DEF SeenOf
  <2>2. filter \subseteq filter' /\ (c = d => groups[c] \subseteq filter')
    BY <1>2, <1>6
  <2>3. c \in {"eth", "mesh"}
    BY DEF FilterInv, NetTypes, Devs
  <2>4. CASE mpc' = "all"
    BY <1>2, <2>1, <2>4 DEF SeenOf, Served, Bits
  <2>5. CASE d = "eth" /\ mpc' = "mesh"
    BY <1>2, <2>1, <2>2, <2>5 DEF SeenOf
  <2>6. CASE d = "mesh" /\ mpc' = "list"
    BY <1>2, <2>1, <2>2, <2>3, <2>6 DEF SeenOf
  <2> QED
    BY <1>2, <2>4, <2>5, <2>6
<1> QED
  BY <1>2, <1>4, <1>5, <1>6, NothingSent DEF FilterInv, Seen, fwSideVars

LEMMA WorkSendsList == ASSUME FilterInv, SendList PROVE FilterInv'
<1>1. /\ UNCHANGED <<present, up, flags, groups, mcast_work, old, mreg, filter, mac_control,
                     overwritten, apc, areg, monitormode, hw>>
      /\ mpc = "list"
      /\ \/ filter = {} /\ mpc' = "none" /\ UNCHANGED <<cmdq, behind>>
         \/ filter # {} /\ mpc' = "multi" /\ CmdAsync([name |-> "list", list |-> filter])
  BY DEF SendList, kernelVars, controlVars, wepVars, rtapVars
<1>2. ASSUME NEW ec, ControlSent(ec) PROVE ControlSent(ec)'
  BY <1>1, <1>2 DEF ControlSent
<1>3. ASSUME NEW el, NEW d \in present, SeenOf(d, el)
      PROVE  flags[d] = {} /\ groups[d] \subseteq filter
  BY <1>1, <1>3 DEF SeenOf
<1>4. CASE filter = {}
  <2>1. NetTypes'
    BY <1>1, <1>4 DEF FilterInv, NetTypes, FwTypes
  <2>2. ASSUME NEW el, NEW d \in present, SeenOf(d, el) PROVE SeenOf(d, el)'
    BY <1>1, <1>3, <1>4, <2>2 DEF SeenOf, Served, Bits
  <2> QED
    BY <1>1, <1>2, <1>4, <2>1, <2>2, NothingSent DEF FilterInv, Seen, fwSideVars
<1>5. CASE filter # {}
  <2>1. PICK cmd \in FwCmd : /\ cmd.name = "list" /\ cmd["list"] = filter
                             /\ CmdAsync(cmd)
    <3>1. [name |-> "list", list |-> filter] \in FwCmd
      BY DEF FilterInv, NetTypes, FwCmd
    <3> QED
      BY <1>1, <1>5, <3>1
  <2>2. FwTypes'
    BY <1>1, <2>1, TypesSent DEF FilterInv, NetTypes
  <2>3. NetTypes'
    BY <1>1, <2>2 DEF FilterInv, NetTypes
  <2>4. ASSUME ~overwritten PROVE Filtered'
    <3>1. PICK ec \in SUBSET Bits, el \in SUBSET Groups :
             Ends("control", ec) /\ Ends("list", el) /\ ControlSent(ec) /\ Seen(el)
      BY <2>4 DEF FilterInv, Filtered
    <3>2. Ends("control", ec)' /\ Ends("list", filter)'
      BY <1>1, <2>1, <3>1, EndsAppended DEF FilterInv, NetTypes
    <3>3. Seen(filter)'
      <4>1. ASSUME NEW d \in present, SeenOf(d, el) PROVE SeenOf(d, filter)'
        BY <1>1, <1>3, <1>5, <4>1 DEF SeenOf, Served, Bits
      <4> QED
        BY <1>1, <3>1, <4>1 DEF Seen
    <3>4. filter \in SUBSET Groups /\ ControlSent(ec)'
      BY <1>2, <3>1 DEF FilterInv, NetTypes
    <3> QED
      BY <1>1, <3>2, <3>3, <3>4 DEF Filtered
  <2> QED
    BY <1>1, <2>3, <2>4 DEF FilterInv
<1> QED
  BY <1>4, <1>5

LEMMA WorkReads == ASSUME FilterInv, ReadControl PROVE FilterInv'
<1>1. /\ UNCHANGED <<present, up, flags, groups, mcast_work, old, filter, mac_control,
                     overwritten, apc, areg, monitormode, cmdq, hw, behind>>
      /\ mpc \in {"promisc", "all", "multi", "none"} /\ mpc' = "store"
      /\ mreg' = (mac_control \cap {"wep"}) \cup ({mpc} \cap Bits)
  BY DEF ReadControl, kernelVars, controlVars, wepVars, rtapVars, fwSideVars
<1>2. NetTypes'
  BY <1>1 DEF FilterInv, NetTypes, FwTypes
<1>3. ASSUME NEW ec, ControlSent(ec) PROVE ControlSent(ec)'
  BY <1>1, <1>3 DEF ControlSent
<1>4. Bare(mreg') = {mpc} \cap Bits
  BY <1>1 DEF Bare
<1>5. ASSUME NEW el, NEW d \in present, SeenOf(d, el) PROVE SeenOf(d, el)'
  BY <1>1, <1>4, <1>5 DEF SeenOf, Served
<1> QED
  BY <1>1, <1>2, <1>3, <1>5, NothingSent DEF FilterInv, Seen, fwSideVars

(* Either writer changes its own bits only, unless it undoes the other's.  *)
LEMMA WorkStores == ASSUME FilterInv, StoreControl PROVE FilterInv'
<1>1. /\ UNCHANGED <<present, up, flags, groups, mcast_work, old, mreg, filter,
                     apc, areg, monitormode, cmdq, hw, behind>>
      /\ mpc = "store" /\ mpc' = "send" /\ mac_control' = mreg
      /\ overwritten' = (overwritten \/ "wep" \in (mreg \ mac_control)
                                     \/ "wep" \in (mac_control \ mreg))
  BY DEF StoreControl, kernelVars, wepVars, rtapVars, fwSideVars
<1>2. NetTypes'
  BY <1>1 DEF FilterInv, NetTypes, FwTypes
<1>3. ASSUME NEW ec, ~overwritten', ControlSent(ec) PROVE ControlSent(ec)'
  <2>1. "wep" \in mreg <=> "wep" \in mac_control
    BY <1>1, <1>3
  <2> QED
    BY <1>1, <1>3, <2>1 DEF ControlSent
<1>4. ASSUME NEW el, Seen(el) PROVE Seen(el)'
  <2>1. ASSUME NEW d \in present, SeenOf(d, el) PROVE SeenOf(d, el)'
    BY <1>1, <2>1 DEF SeenOf, Served
  <2> QED
    BY <1>1, <1>4, <2>1 DEF Seen
<1>5. overwritten' = FALSE => overwritten = FALSE
  BY <1>1 DEF FilterInv, NetTypes
<1> QED
  BY <1>1, <1>2, <1>3, <1>4, <1>5, NothingSent DEF FilterInv, fwSideVars

LEMMA KeysReadOrStored ==
    ASSUME FilterInv, (\E wep \in BOOLEAN : KeysRead(wep)) \/ KeysStore
    PROVE  FilterInv'
<1>1. CASE \E wep \in BOOLEAN : KeysRead(wep)
  <2>1. /\ UNCHANGED <<present, up, flags, groups, mcast_work, mpc, old, mreg, filter,
                       mac_control, overwritten, monitormode, cmdq, hw, behind>>
        /\ areg' \in {mac_control \cup {"wep"}, mac_control \ {"wep"}}
        /\ apc = "idle" /\ apc' = "store"
    BY <1>1 DEF KeysRead, workerVars, controlVars, rtapVars, fwSideVars
  <2>2. NetTypes'
    BY <2>1 DEF FilterInv, NetTypes, FwTypes, Bits
  <2>3. ASSUME NEW ec, ControlSent(ec) PROVE ControlSent(ec)'
    BY <2>1, <2>3 DEF ControlSent
  <2>4. ASSUME NEW el, NEW d \in present, SeenOf(d, el) PROVE SeenOf(d, el)'
    BY <2>1, <2>4 DEF SeenOf, Served
  <2> QED
    BY <2>1, <2>2, <2>3, <2>4, NothingSent DEF FilterInv, Seen, fwSideVars
<1>2. CASE KeysStore
  <2>1. /\ UNCHANGED <<present, up, flags, groups, mcast_work, mpc, old, mreg, filter,
                       areg, monitormode, cmdq, hw, behind>>
        /\ apc = "store" /\ apc' = "send" /\ mac_control' = areg
        /\ overwritten' = (overwritten \/ Bare(areg) # Bare(mac_control))
    BY <1>2 DEF KeysStore, kernelVars, workerVars, rtapVars, fwSideVars, Bare
  <2>2. NetTypes'
    BY <2>1 DEF FilterInv, NetTypes, FwTypes
  <2>3. ASSUME ~overwritten' PROVE Bare(mac_control)' = Bare(mac_control)
    BY <2>1, <2>3 DEF Bare
  <2>4. ASSUME NEW ec, ~overwritten', ControlSent(ec) PROVE ControlSent(ec)'
    BY <2>1, <2>3, <2>4 DEF ControlSent, Bare
  <2>5. ASSUME NEW el, ~overwritten', NEW d \in present, SeenOf(d, el) PROVE SeenOf(d, el)'
    <3>1. Bare(mac_control') = Bare(mac_control)
      BY <2>3, <2>5 DEF Bare
    <3> QED
      BY <2>1, <2>5, <3>1 DEF SeenOf, Served
  <2>6. ASSUME NEW el, ~overwritten', Seen(el) PROVE Seen(el)'
    BY <2>1, <2>5, <2>6 DEF Seen
  <2>7. overwritten' = FALSE => overwritten = FALSE
    BY <2>1 DEF FilterInv, NetTypes
  <2> QED
    BY <2>1, <2>2, <2>4, <2>6, <2>7, NothingSent DEF FilterInv, fwSideVars
<1> QED
  BY <1>1, <1>2

(* What either writer sends is the mac_control of that moment.             *)
LEMMA ControlAppended ==
    ASSUME FilterInv, CmdAsync(Control),
           UNCHANGED <<present, up, flags, groups, mcast_work, old, mreg, filter,
                       mac_control, overwritten, areg, monitormode, hw>>,
           \/ mpc = "send" /\ mpc' = "idle" /\ UNCHANGED apc
           \/ apc = "send" /\ apc' = "idle" /\ UNCHANGED mpc
    PROVE  FilterInv'
<1>1. PICK cmd \in FwCmd : /\ cmd.name = "control" /\ cmd["control"] = mac_control
                           /\ CmdAsync(cmd)
  <2>1. Control \in FwCmd
    BY DEF FilterInv, NetTypes, FwCmd, Control
  <2> QED
    BY <2>1 DEF Control
<1>2. FwTypes'
  BY <1>1, TypesSent DEF FilterInv, NetTypes
<1>3. NetTypes'
  BY <1>2 DEF FilterInv, NetTypes
<1>4. ASSUME ~overwritten PROVE Filtered'
  <2>1. PICK ec \in SUBSET Bits, el \in SUBSET Groups :
           Ends("control", ec) /\ Ends("list", el) /\ ControlSent(ec) /\ Seen(el)
    BY <1>4 DEF FilterInv, Filtered
  <2>2. Ends("control", mac_control)' /\ Ends("list", el)'
    BY <1>1, <2>1, EndsAppended DEF FilterInv, NetTypes
  <2>3. ControlSent(mac_control)'
    BY <2>1 DEF ControlSent
  <2>4. ASSUME NEW d \in present, SeenOf(d, el) PROVE SeenOf(d, el)'
    BY <2>4 DEF SeenOf, Served
  <2>5. Seen(el)'
    BY <2>1, <2>4 DEF Seen
  <2>6. mac_control \in SUBSET Bits
    BY DEF FilterInv, NetTypes
  <2> QED
    BY <2>1, <2>2, <2>3, <2>5, <2>6 DEF Filtered
<1> QED
  BY <1>3, <1>4 DEF FilterInv

LEMMA ControlSends == ASSUME FilterInv, SendControl \/ KeysSend PROVE FilterInv'
<1>1. CASE KeysSend
  BY <1>1, ControlAppended DEF KeysSend, kernelVars, workerVars, controlVars, rtapVars
<1>2. CASE SendControl /\ mac_control # old
  BY <1>2, ControlAppended DEF SendControl, kernelVars, controlVars, wepVars, rtapVars
<1>3. CASE SendControl /\ mac_control = old
  <2>1. /\ UNCHANGED <<present, up, flags, groups, mcast_work, old, mreg, filter, mac_control,
                       overwritten, apc, areg, monitormode, cmdq, hw, behind>>
        /\ mpc = "send" /\ mpc' = "idle"
    BY <1>3 DEF SendControl, kernelVars, controlVars, wepVars, rtapVars
  <2>2. NetTypes'
    BY <2>1 DEF FilterInv, NetTypes, FwTypes
  <2>3. ASSUME NEW ec, ControlSent(ec) PROVE ControlSent(ec)'
    BY <1>3, <2>1, <2>3 DEF ControlSent
  <2>4. ASSUME NEW el, NEW d \in present, SeenOf(d, el) PROVE SeenOf(d, el)'
    BY <2>1, <2>4 DEF SeenOf, Served
  <2> QED
    BY <2>1, <2>2, <2>3, <2>4, NothingSent DEF FilterInv, Seen, fwSideVars
<1> QED
  BY <1>1, <1>2, <1>3

(* The firmware, and monitor mode, which sends its own commands.           *)
LEMMA FwTakesOne == ASSUME FilterInv, FwTakes PROVE FilterInv'
<1>1. UNCHANGED <<present, up, flags, groups, mcast_work, mpc, old, mreg, filter, mac_control,
                  overwritten, apc, areg, monitormode>>
  BY DEF FwTakes, kernelVars, workerVars, controlVars, wepVars, rtapVars
<1>2. PICK ec, el : ~overwritten =>
         /\ ec \in SUBSET Bits /\ el \in SUBSET Groups
         /\ Ends("control", ec) /\ Ends("list", el) /\ ControlSent(ec) /\ Seen(el)
  BY DEF FilterInv, Filtered
<1>3. FwTypes'
  <2>1. FwTypes /\ FwCmd' = FwCmd
    BY DEF FilterInv, NetTypes, FwCmd, Bits
  <2>2. Tail(cmdq) \in Seq(FwCmd)
    BY <2>1, HeadTailProperties DEF FwTypes, FwTakes
  <2> QED
    BY <2>1, <2>2 DEF FwTypes, FwTakes
<1>4. NetTypes'
  BY <1>1, <1>3 DEF FilterInv, NetTypes
<1>5. ASSUME ~overwritten PROVE Filtered'
  <2>1. Ends("control", ec)' /\ Ends("list", el)'
    BY <1>2, <1>5, EndsTaken DEF FilterInv, NetTypes
  <2>2. ControlSent(ec)'
    BY <1>1, <1>2, <1>5 DEF ControlSent
  <2>3. Seen(el)'
    BY <1>1, <1>2, <1>5 DEF Seen, SeenOf, Served
  <2> QED
    BY <1>2, <1>5, <2>1, <2>2, <2>3 DEF Filtered
<1> QED
  BY <1>1, <1>4, <1>5 DEF FilterInv


LEMMA MonitorSteps ==
    ASSUME FilterInv,
           \/ RtapOn \/ RtapLeft \/ RtapAdded \/ RtapStored
           \/ RtapOff \/ RtapRemoved \/ RtapTell \/ RtapDone
           \/ UNCHANGED netdevVars
    PROVE  FilterInv'
<1>1. /\ UNCHANGED <<present, up, flags, groups, mcast_work, mpc, old, mreg, filter,
                     mac_control, overwritten, apc, areg, hw>>
      /\ monitormode' \in BOOLEAN
  BY DEF RtapOn, RtapLeft, RtapAdded, RtapStored, RtapOff, RtapRemoved, RtapTell, RtapDone,
     netdevVars, kernelVars, workerVars, controlVars, wepVars, rtapVars, fwSideVars,
     FilterInv, NetTypes
<1>2. ASSUME NEW ec, ControlSent(ec) PROVE ControlSent(ec)'
  BY <1>1, <1>2 DEF ControlSent
<1>3. ASSUME NEW el, Seen(el) PROVE Seen(el)'
  BY <1>1, <1>3 DEF Seen, SeenOf, Served
<1>4. CASE UNCHANGED <<cmdq, behind>>
  <2>1. NetTypes'
    BY <1>1, <1>4 DEF FilterInv, NetTypes, FwTypes
  <2> QED
    BY <1>1, <1>2, <1>3, <1>4, <2>1, NothingSent DEF FilterInv, fwSideVars
<1>5. CASE ~UNCHANGED <<cmdq, behind>>
  <2>1. PICK cmd \in FwCmd : cmd.name = "monitor" /\ CmdAsync(cmd)
    <3>1. RtapTell
      BY <1>5 DEF RtapOn, RtapLeft, RtapAdded, RtapStored, RtapOff, RtapRemoved, RtapDone,
         netdevVars, fwSideVars
    <3>2. [name |-> "monitor", monitor |-> monitormode] \in FwCmd
      BY DEF FilterInv, NetTypes, FwCmd
    <3> QED
      BY <3>1, <3>2 DEF RtapTell
  <2>2. FwTypes'
    BY <1>1, <2>1, TypesSent DEF FilterInv, NetTypes
  <2>3. NetTypes'
    BY <1>1, <2>2 DEF FilterInv, NetTypes
  <2>4. ASSUME ~overwritten PROVE Filtered'
    <3>1. PICK ec \in SUBSET Bits, el \in SUBSET Groups :
             Ends("control", ec) /\ Ends("list", el) /\ ControlSent(ec) /\ Seen(el)
      BY <2>4 DEF FilterInv, Filtered
    <3>2. Ends("control", ec)' /\ Ends("list", el)'
      BY <1>1, <2>1, <3>1, EndsAppended DEF FilterInv, NetTypes
    <3> QED
      BY <1>2, <1>3, <3>1, <3>2 DEF Filtered
  <2> QED
    BY <1>1, <2>3, <2>4 DEF FilterInv
<1> QED
  BY <1>4, <1>5

(* When all is quiet the firmware lets through what the devices asked for  *)
(* (lbs_set_mcast_worker), as GroupsLetThrough says, however the worker,   *)
(* the programs, the associations and the firmware take turns.             *)
THEOREM GroupsPassed == NetdevSpec => []GroupsLetThrough
<1>1. NetdevInit => FilterInv
  <2> SUFFICES ASSUME NetdevInit PROVE FilterInv
    OBVIOUS
  <2>1. Len(cmdq) = 0 /\ cmdq \in Seq(FwCmd)
    BY DEF NetdevInit
  <2>2. NetTypes
    BY <2>1 DEF NetdevInit, NetTypes, FwTypes, Devs, NoFilter
  <2>3. Ends("control", {}) /\ Ends("list", {})
    BY <2>1 DEF NetdevInit, Ends
  <2>4. ControlSent({}) /\ Seen({})
    BY DEF NetdevInit, ControlSent, Seen, Devs
  <2> QED
    BY <2>2, <2>3, <2>4 DEF FilterInv, Filtered
<1>2. FilterInv /\ [NetdevNext \/ MonitorNext]_netdevVars => FilterInv'
  BY KernelSteps, WorkBegun, WorkAdds, WorkSendsList, WorkReads, WorkStores,
     KeysReadOrStored, ControlSends, FwTakesOne, MonitorSteps DEF NetdevNext, MonitorNext
<1>3. FilterInv => GroupsLetThrough
  <2> SUFFICES ASSUME FilterInv, Quiet, ~overwritten, "control" \notin behind
               PROVE  /\ hw.control = mac_control
                      /\ \A d \in present : up[d] = "up" =>
                            /\ "promisc" \in flags[d] => "promisc" \in hw.control
                            /\ "allmulti" \in flags[d] => LetThrough = Groups
                            /\ "list" \notin behind \/ "multi" \notin hw.control
                               => groups[d] \subseteq LetThrough
    BY DEF GroupsLetThrough
  <2>1. PICK ec \in SUBSET Bits, el \in SUBSET Groups :
           Ends("control", ec) /\ Ends("list", el) /\ ControlSent(ec) /\ Seen(el)
    BY DEF FilterInv, Filtered
  <2>2. Len(cmdq) = 0 /\ mpc = "idle" /\ apc = "idle" /\ ~mcast_work
    BY DEF Quiet
  <2>3. hw.control = ec /\ ("list" \notin behind => hw.list = el)
    BY <2>1, <2>2 DEF Ends
  <2>4. hw.control = mac_control
    <3>1. Bare(ec) = Bare(mac_control) /\ ("wep" \in ec <=> "wep" \in mac_control)
      BY <2>1, <2>2 DEF ControlSent
    <3>2. \A b : b \in ec <=> b \in mac_control
      BY <3>1 DEF Bare
    <3> QED
      BY <2>3, <3>2
  <2>5. ASSUME NEW d \in present, up[d] = "up"
        PROVE  /\ "promisc" \in flags[d] => "promisc" \in hw.control
               /\ "allmulti" \in flags[d] => LetThrough = Groups
               /\ "list" \notin behind \/ "multi" \notin hw.control
                  => groups[d] \subseteq LetThrough
    <3>1. Served(d, Bare(mac_control), el) /\ groups[d] \subseteq Groups
      BY <2>1, <2>2, <2>5 DEF Seen, SeenOf, FilterInv, NetTypes, Devs
    <3>2. CASE hw.control \cap {"promisc", "all"} # {}
      BY <2>4, <3>1, <3>2 DEF LetThrough, Served, Bare
    <3>3. CASE hw.control \cap {"promisc", "all"} = {}
      <4>1. /\ "promisc" \notin flags[d] /\ "allmulti" \notin flags[d]
            /\ ("multi" \in hw.control /\ groups[d] \subseteq el) \/ groups[d] = {}
        BY <2>4, <3>1, <3>3 DEF Served, Bare
      <4> QED
        BY <2>3, <3>3, <4>1 DEF LetThrough
    <3> QED
      BY <3>2, <3>3
  <2> QED
    BY <2>4, <2>5
<1> QED
  BY <1>1, <1>2, <1>3, PTL DEF NetdevSpec
-----------------------------------------------------------------------------
(* The addresses.  Up to the answer the driver has the old one, then the   *)
(* new one, and the mesh device follows; what lbs_add_mesh has read of the *)
(* address is the driver's unless an address was set in the meantime.      *)
Addresses == Macs \cup {OwnMac}

AddressTypes ==
    /\ started \in {"no", "failed", "registered", "adding", "copying", "up"}
    /\ setting = Resting \/
       setting \in [pc : {"answered", "kept"}, addr : Macs]
    /\ Registered => dev_addr \in Addresses
    /\ ~Registered => setting = Resting /\ mesh_addr = Nowhere
    /\ started \in {"adding", "copying", "up"} => mesh_addr # Nowhere
    /\ started = "copying" => copied \in Addresses
    /\ fw_addr \in Addresses

OneAddress ==
    /\ dev_addr = current_addr
    /\ setting = Resting /\ ~unsure /\ Registered => fw_addr = dev_addr
    /\ setting # Resting => ~unsure /\ fw_addr = setting.addr
    /\ setting.pc = "kept" => dev_addr = setting.addr

(* Unless the mesh device is about to be told.                             *)
MeshAlike ==
    setting.pc # "kept" /\ ~torn =>
        /\ started = "copying" => copied = dev_addr
        /\ started = "up" => mesh_addr = dev_addr

AddressInv == AddressTypes /\ OneAddress /\ MeshAlike

(* However lbs_set_mac_address and lbs_add_mesh meet, and whatever of it   *)
(* the firmware refuses, the devices end with one address, the driver's    *)
(* and the firmware's.                                                     *)
THEOREM OneAddressForAll == RegionSpec => []AddressesAgree
<1> USE RegionAssumption
<1>1. RegionInit => AddressInv
  BY DEF RegionInit, AddressInv, AddressTypes, OneAddress, MeshAlike, Addresses,
         Registered, Resting
<1>2. AddressInv /\ [RegionNext]_regionVars => AddressInv'
  <2> SUFFICES ASSUME AddressInv, [RegionNext]_regionVars PROVE AddressInv'
    OBVIOUS
  <2> USE DEF AddressInv, AddressTypes, OneAddress, MeshAlike, Addresses, Registered,
              Resting, tableVars, meshedVars, ownVars
  <2>1. CASE UpdateHwSpec
    BY <2>1 DEF UpdateHwSpec
  <2>2. CASE HwSpecFails
    BY <2>2 DEF HwSpecFails
  <2>3. CASE PublishMesh
    BY <2>3 DEF PublishMesh, NewMesh, Nowhere
  <2>4. CASE ReadAddr
    BY <2>4 DEF ReadAddr
  <2>5. CASE WriteAddr
    BY <2>5 DEF WriteAddr
  <2>6. ASSUME NEW addr \in Macs, SetMacAddress(addr) PROVE AddressInv'
    BY <2>6 DEF SetMacAddress
  <2>7. CASE KeepAddr
    BY <2>7 DEF KeepAddr
  <2>8. CASE KeepMeshAddr
    BY <2>8 DEF KeepMeshAddr, MeshFollows
  <2>9. CASE UNCHANGED regionVars
    BY <2>9 DEF regionVars
  <2> QED
    BY <2>1, <2>2, <2>3, <2>4, <2>5, <2>6, <2>7, <2>8, <2>9 DEF RegionNext
<1>3. AddressInv => AddressesAgree
  BY DEF AddressInv, AddressTypes, OneAddress, MeshAlike, AddressesAgree, Resting
<1> QED
  BY <1>1, <1>2, <1>3, PTL DEF RegionSpec
-----------------------------------------------------------------------------
(* The radio.  Which command a caller has given, by where it is; an answer *)
(* to a question for the channel has one.                                  *)
Positive == Nat \ {0}
Ops == {"none", "get", "set", "start", "stop", "leave"}
Steps == {"idle", "look", "stop", "set", "check", "restart", "leave", "move",
          "rename"}
CallSteps(p) ==
    CASE p = "worker" -> {"look", "stop", "set", "check", "restart"}
      [] p = "ioctl"  -> {"leave", "move", "look", "rename"}
      [] OTHER        -> {"look"}

Commands == [op : Ops, channel : Nat]
Answers == [ret : Int, channel : Int]
Call == [pc : Steps, want : Nat, cmd : Commands, answer : Answers]

RadioTypes ==
    /\ fw \in [mesh : BOOLEAN, channel : Positive]
    /\ channel \in Positive
    /\ mesh_dev \in BOOLEAN /\ sync \in BOOLEAN
    /\ disturbed \in BOOLEAN /\ failed \in BOOLEAN
    /\ target \in Nat
    /\ caller \in [Callers -> Call]

Given(p) ==
    LET a == caller[p] IN
    /\ a.pc = "idle" \/ a.pc \in CallSteps(p)
    /\ a.pc \in {"look", "check"} => a.cmd.op = "get"
    /\ a.pc \in {"stop", "set", "leave"} => a.cmd.op = a.pc
    /\ a.pc \in {"restart", "move", "rename"} => a.cmd.op = "start"
    /\ a.cmd.op = "start" => a.cmd.channel \in Positive
    /\ a.cmd.op = "set" => a.cmd.channel = a.want
    /\ IF p = "sync" \/ a.pc = "rename" THEN a.want = NoChannel
       ELSE a.pc # "idle" => a.want \in Positive
    /\ a.answer # Pending /\ a.answer.ret = 0 /\ a.cmd.op \in {"get", "set"} =>
          a.answer.channel \in Positive

(* Unless a command has failed, the mesh is off only while the worker has  *)
(* yet to start it again.                                                  *)
MeshOwed ==
    LET w == caller["worker"] IN
    ~failed =>
        /\ \A p \in Callers : caller[p].answer # Pending => caller[p].answer.ret = 0
        /\ mesh_dev /\ ~fw.mesh =>
              \/ w.pc \in {"stop", "set", "check"}
              \/ w.pc = "restart" /\ w.answer = Pending

(* A call that nothing disturbs knows where the radio is, and has it where *)
(* it wants it, from the command on that moves it.                         *)
OnCourse(p) ==
    LET a == caller[p]
        got == a.answer # Pending
    IN  /\ target = a.want
        /\ got => a.answer.ret = 0
        /\ got /\ a.cmd.op \in {"get", "set"} /\ ~(p = "sync" /\ sync) =>
              a.answer.channel = fw.channel
        /\ p = "worker" /\ a.pc = "set" /\ got => fw.channel = a.want
        /\ p = "worker" /\ a.pc \in {"check", "restart"} =>
              channel = a.want /\ fw.channel = a.want
        /\ a.pc = "restart" => a.cmd.channel = a.want
        /\ a.pc = "move" => a.cmd.channel = a.want
        /\ p = "ioctl" /\ ((a.pc = "move" /\ got) \/ a.pc = "look") => fw.channel = a.want
        /\ a.pc = "rename" =>
              a.cmd.channel = channel /\ (got => fw.channel = channel)

CallAlone ==
    ~disturbed =>
        /\ \A p, q \in Callers : caller[p].pc # "idle" /\ caller[q].pc # "idle" => p = q
        /\ \A p \in Callers : caller[p].pc # "idle" => OnCourse(p)
        /\ InStep

RadioInv == RadioTypes /\ (\A p \in Callers : Given(p)) /\ MeshOwed /\ CallAlone

(* A call that begins, and one that rests, is one.                         *)
LEMMA CallTyped ==
    /\ \A pc \in Steps, want \in Nat, cmd \in Commands :
          [pc |-> pc, want |-> want, cmd |-> cmd, answer |-> Pending] \in Call
    /\ \A op \in Ops, c \in Nat : Command(op, c) \in Commands
    /\ AtEase \in Call
<1>1. Pending \in Answers
  BY DEF Pending, Answers
<1>2. \A op \in Ops, c \in Nat : Command(op, c) \in Commands
  BY DEF Command, Commands
<1>3. None \in Commands
  BY <1>2 DEF None, Ops, NoChannel
<1>4. "idle" \in Steps /\ NoChannel \in Nat
  BY DEF Steps, NoChannel
<1> QED
  BY <1>1, <1>2, <1>3, <1>4 DEF Call, AtEase

(* A call that begins has the types.                                       *)
LEMMA BeginTyped ==
    ASSUME RadioTypes, NEW p \in Callers, NEW c \in Nat, NEW pc \in Steps,
           NEW cmd \in Commands, Begin(p, c, pc, cmd), UNCHANGED <<mesh_dev, channel>>,
           sync' \in BOOLEAN
    PROVE  RadioTypes'
<1>1. \/ disturbed' = FALSE /\ target' = c
      \/ disturbed' = TRUE /\ target' = NoChannel
  BY DEF Begin, Disturbed
<1>2. target' \in Nat
  BY <1>1 DEF NoChannel
<1>3. disturbed' \in BOOLEAN
  BY <1>1
<1>4. caller' \in [Callers -> Call]
  BY CallTyped DEF Begin, RadioTypes
<1> QED
  BY <1>2, <1>3, <1>4 DEF Begin, RadioTypes

(* However assoc_helper_channel, the ioctls of the mesh device and the     *)
(* work sync_channel meet: a call that nothing disturbs leaves the driver  *)
(* and the radio on the channel it was asked for, and unless a command     *)
(* fails the mesh is on again when the calls have returned.                *)
THEOREM RadioIsShared == RadioSpec => []RadioShared
<1>0. \A c \in RadioChannels : c \in Nat /\ c # 0
  BY RadioAssumption
<1>1. RadioInit => RadioInv
  <2> SUFFICES ASSUME RadioInit PROVE RadioInv
    OBVIOUS
  <2> USE <1>0 DEF RadioInit, RadioTypes, Callers, AtEase, None, Command,
                   Pending, NoChannel, Positive, Ops, Steps
  <2>1. RadioTypes
    BY CallTyped
  <2>2. \A p \in Callers : Given(p)
    BY DEF Given
  <2>3. MeshOwed
    BY DEF MeshOwed
  <2>4. CallAlone
    BY DEF CallAlone, InStep, AtRest
  <2> QED
    BY <2>1, <2>2, <2>3, <2>4 DEF RadioInv
<1>2. RadioInv /\ [ChannelNext]_radioVars => RadioInv'
  <2> SUFFICES ASSUME RadioInv, [ChannelNext]_radioVars PROVE RadioInv'
    OBVIOUS
  <2>0. /\ RadioTypes /\ Given("worker") /\ Given("ioctl") /\ Given("sync") /\ MeshOwed /\ CallAlone
        /\ \A p \in Callers : Given(p)
    BY DEF RadioInv, Callers
  <2> USE <1>0 DEF RadioTypes, Callers, AtEase, None, Command, Pending,
                   NoChannel, Positive, Ops, Steps, Call, Commands, Answers, Got,
                   Send, Done, Begin, Elsewhere, Settled, Get, UpdateChannel,
                   Reading, Disturbed
  <2>1. ASSUME NEW p \in Callers, Serve(p) PROVE RadioInv'
    <3> DEFINE cmd == caller[p].cmd
    <3> USE <2>0 DEF Effect, Refused, Waiting, Answered
    <3>1. /\ cmd \in Commands /\ Waiting(p) /\ UNCHANGED <<mesh_dev, channel, sync>>
          /\ Effect(cmd) \in [mesh : BOOLEAN, channel : Positive]
      <4>1. cmd \in Commands /\ Waiting(p) /\ UNCHANGED <<mesh_dev, channel, sync>>
        BY <2>1 DEF Serve
      <4>2. cmd.op \in {"start", "set"} => cmd.channel \in Positive
        BY <4>1 DEF Given, CallSteps
      <4> QED
        BY <4>1, <4>2
    <3>2. CASE /\ ~Refused(cmd) /\ fw' = Effect(cmd) /\ Answered(p, 0)
               /\ UNCHANGED <<target, disturbed, failed>>
      <4>1. fw' \in [mesh : BOOLEAN, channel : Positive]
        BY <3>1, <3>2
      <4>2. PICK answer \in Answers :
               /\ caller' = [caller EXCEPT ![p].answer = answer]
               /\ answer.ret = 0 /\ answer # Pending
               /\ answer.channel = IF cmd.op \in {"get", "set"} THEN fw'.channel ELSE NoChannel
        <5> DEFINE answer == [ret |-> 0, channel |->
                                 IF cmd.op \in {"get", "set"} THEN fw'.channel ELSE NoChannel]
        <5>1. answer \in Answers /\ answer # Pending
          BY <4>1
        <5>2. caller' = [caller EXCEPT ![p].answer = answer]
          BY <3>2
        <5> QED
          BY <5>1, <5>2
      <4> HIDE DEF Answered
      <4>3. RadioTypes'
        BY <3>1, <3>2, <4>1, <4>2
      <4>4. ASSUME NEW q \in Callers PROVE Given(q)'
        BY <3>1, <4>1, <4>2 DEF Given, CallSteps
      <4>5. MeshOwed'
        BY <3>1, <3>2, <4>1, <4>2 DEF Given, MeshOwed, CallSteps
      <4>6. CallAlone'
        <5> SUFFICES ASSUME ~disturbed' PROVE CallAlone'
          BY DEF CallAlone
        <5>0. /\ ~disturbed /\ OnCourse(p) /\ caller[p].pc # "idle"
              /\ \A q \in Callers \ {p} : caller[q].pc = "idle" /\ caller'[q] = caller[q]
          BY <3>1, <3>2, <4>2 DEF CallAlone
        <5>1. OnCourse(p)'
          BY <3>1, <3>2, <4>1, <4>2, <5>0 DEF OnCourse, Given, CallSteps
        <5>2. caller'[p].pc # "idle"
          BY <4>2, <5>0
        <5> QED
          BY <5>0, <5>1, <5>2 DEF CallAlone, InStep, AtRest
      <4> QED
        BY <4>3, <4>4, <4>5, <4>6 DEF RadioInv
    <3>3. CASE /\ fw' \in {fw, Effect(cmd)} /\ disturbed' = TRUE /\ failed' = TRUE
               /\ target' = NoChannel
               /\ \E code \in ErrorCodes \cup {TimedOut} : Answered(p, code)
      <4>1. fw' \in [mesh : BOOLEAN, channel : Positive]
        BY <3>1, <3>3
      <4>2. PICK answer \in Answers :
               /\ caller' = [caller EXCEPT ![p].answer = answer]
               /\ answer.ret # 0
        <5>1. PICK code \in ErrorCodes \cup {TimedOut} : Answered(p, code)
          BY <3>3
        <5>2. code \in Int /\ code # 0
          BY RadioAssumption DEF TimedOut
        <5>3. caller' = [caller EXCEPT ![p].answer = [ret |-> code, channel |-> NoChannel]]
          BY <5>1, <5>2
        <5>4. [ret |-> code, channel |-> NoChannel] \in Answers
          BY <5>2
        <5> QED
          BY <5>2, <5>3, <5>4
      <4> HIDE DEF Answered
      <4>3. RadioTypes'
        BY <3>1, <3>3, <4>1, <4>2
      <4>4. ASSUME NEW q \in Callers PROVE Given(q)'
        BY <3>1, <4>1, <4>2 DEF Given, CallSteps
      <4>5. MeshOwed' /\ CallAlone'
        BY <3>3 DEF MeshOwed, CallAlone
      <4> QED
        BY <4>3, <4>4, <4>5 DEF RadioInv
    <3> QED
      <4> HIDE DEF Answered, Effect, Refused
      <4> QED
        BY <2>1, <3>2, <3>3 DEF Serve
  <2>2. ASSUME NEW c \in RadioChannels, SetChannel(c) PROVE RadioInv'
    <3>1. RadioTypes'
      <4> HIDE DEF Commands, RadioTypes, Begin, Command
      <4> QED
        BY <2>2, <2>0, <1>0, CallTyped, BeginTyped DEF SetChannel, RadioTypes
    <3>2. (\A q \in Callers : Given(q))' /\ MeshOwed'
      BY <2>0, <2>2 DEF SetChannel, Given, CallSteps, MeshOwed
    <3>3. CallAlone'
      BY <2>0, <2>2 DEF SetChannel, Given, CallSteps, CallAlone, OnCourse,
                        InStep, AtRest
    <3> QED
      BY <3>1, <3>2, <3>3 DEF RadioInv
  <2>3. ASSUME NEW c \in RadioChannels, MeshSetFreq(c) PROVE RadioInv'
    <3>1. RadioTypes'
      <4> HIDE DEF Commands, RadioTypes, Begin, Command
      <4> QED
        BY <2>3, <2>0, <1>0, CallTyped, BeginTyped DEF MeshSetFreq, RadioTypes
    <3>2. (\A q \in Callers : Given(q))' /\ MeshOwed'
      BY <2>0, <2>3 DEF MeshSetFreq, Given, CallSteps, MeshOwed
    <3>3. CallAlone'
      BY <2>0, <2>3 DEF MeshSetFreq, Given, CallSteps, CallAlone, OnCourse,
                        InStep, AtRest
    <3> QED
      BY <3>1, <3>2, <3>3 DEF RadioInv
  <2>4. ASSUME NEW c \in RadioChannels, MeshAutoStarted(c) PROVE RadioInv'
    <3>1. RadioTypes'
      BY <2>0, <2>4 DEF MeshAutoStarted, AutoStarted, Given, CallSteps
    <3>2. (\A q \in Callers : Given(q))' /\ MeshOwed'
      BY <2>0, <2>4 DEF MeshAutoStarted, AutoStarted, Given, CallSteps, MeshOwed
    <3>3. CallAlone'
      BY <2>0, <2>4 DEF MeshAutoStarted, AutoStarted, Given, CallSteps,
                        CallAlone, OnCourse, InStep, AtRest
    <3> QED
      BY <3>1, <3>2, <3>3 DEF RadioInv
  <2>5. ASSUME NEW p \in {"ioctl", "sync"}, LookedAgain(p) PROVE RadioInv'
    <3>1. RadioTypes'
      BY <2>0, <2>5 DEF LookedAgain, Given, CallSteps
    <3>2. (\A q \in Callers : Given(q))' /\ MeshOwed'
      BY <2>0, <2>5 DEF LookedAgain, Given, CallSteps, MeshOwed
    <3>3. CallAlone'
      BY <2>0, <2>5 DEF LookedAgain, Given, CallSteps, CallAlone, OnCourse,
                        InStep, AtRest
    <3> QED
      BY <3>1, <3>2, <3>3 DEF RadioInv
  <2>6. ASSUME Looked PROVE RadioInv'
    <3>1. RadioTypes'
      BY <2>0, <2>6 DEF Looked, First, Given, CallSteps
    <3>2. (\A q \in Callers : Given(q))' /\ MeshOwed'
      BY <2>0, <2>6 DEF Looked, First, Given, CallSteps, MeshOwed
    <3>3. CallAlone'
      BY <2>0, <2>6 DEF Looked, First, Given, CallSteps, CallAlone, OnCourse,
                        InStep, AtRest
    <3> QED
      BY <3>1, <3>2, <3>3 DEF RadioInv
  <2>7. ASSUME MeshOff PROVE RadioInv'
    <3>1. RadioTypes'
      BY <2>0, <2>7 DEF MeshOff, Given, CallSteps
    <3>2. (\A q \in Callers : Given(q))' /\ MeshOwed'
      BY <2>0, <2>7 DEF MeshOff, Given, CallSteps, MeshOwed
    <3>3. CallAlone'
      BY <2>0, <2>7 DEF MeshOff, Given, CallSteps, CallAlone, OnCourse,
                        InStep, AtRest
    <3> QED
      BY <3>1, <3>2, <3>3 DEF RadioInv
  <2>8. ASSUME ChannelSet PROVE RadioInv'
    <3>1. RadioTypes'
      BY <2>0, <2>8 DEF ChannelSet, Given, CallSteps
    <3>2. (\A q \in Callers : Given(q))' /\ MeshOwed'
      BY <2>0, <2>8 DEF ChannelSet, Given, CallSteps, MeshOwed
    <3>3. CallAlone'
      BY <2>0, <2>8 DEF ChannelSet, Given, CallSteps, CallAlone, OnCourse,
                        InStep, AtRest
    <3> QED
      BY <3>1, <3>2, <3>3 DEF RadioInv
  <2>9. ASSUME Checked PROVE RadioInv'
    <3>1. RadioTypes'
      BY <2>0, <2>9 DEF Checked, Restarts, Given, CallSteps
    <3>2. (\A q \in Callers : Given(q))' /\ MeshOwed'
      BY <2>0, <2>9 DEF Checked, Restarts, Given, CallSteps, MeshOwed
    <3>3. CallAlone'
      BY <2>0, <2>9 DEF Checked, Restarts, Given, CallSteps, CallAlone,
                        OnCourse, InStep, AtRest
    <3> QED
      BY <3>1, <3>2, <3>3 DEF RadioInv
  <2>10. ASSUME Restarted PROVE RadioInv'
    <3>1. RadioTypes'
      BY <2>0, <2>10 DEF Restarted, Given, CallSteps
    <3>2. (\A q \in Callers : Given(q))' /\ MeshOwed'
      BY <2>0, <2>10 DEF Restarted, Given, CallSteps, MeshOwed
    <3>3. CallAlone'
      BY <2>0, <2>10 DEF Restarted, Given, CallSteps, CallAlone, OnCourse,
                         InStep, AtRest
    <3> QED
      BY <3>1, <3>2, <3>3 DEF RadioInv
  <2>11. ASSUME Left PROVE RadioInv'
    <3>1. RadioTypes'
      BY <2>0, <2>11 DEF Left, Given, CallSteps
    <3>2. (\A q \in Callers : Given(q))' /\ MeshOwed'
      BY <2>0, <2>11 DEF Left, Given, CallSteps, MeshOwed
    <3>3. CallAlone'
      BY <2>0, <2>11 DEF Left, Given, CallSteps, CallAlone, OnCourse, InStep, AtRest
    <3> QED
      BY <3>1, <3>2, <3>3 DEF RadioInv
  <2>12. ASSUME Moved PROVE RadioInv'
    <3>1. RadioTypes'
      BY <2>0, <2>12 DEF Moved, Given, CallSteps
    <3>2. (\A q \in Callers : Given(q))' /\ MeshOwed'
      BY <2>0, <2>12 DEF Moved, Given, CallSteps, MeshOwed
    <3>3. CallAlone'
      BY <2>0, <2>12 DEF Moved, Given, CallSteps, CallAlone, OnCourse, InStep,
                         AtRest
    <3> QED
      BY <3>1, <3>2, <3>3 DEF RadioInv
  <2>13. ASSUME MeshSetEssid PROVE RadioInv'
    <3>1. RadioTypes'
      <4> HIDE DEF Commands, RadioTypes, Begin, Command
      <4> QED
        BY <2>13, <2>0, <1>0, CallTyped, BeginTyped DEF MeshSetEssid, RadioTypes
    <3>2. (\A q \in Callers : Given(q))' /\ MeshOwed'
      BY <2>0, <2>13 DEF MeshSetEssid, Given, CallSteps, MeshOwed
    <3>3. CallAlone'
      BY <2>0, <2>13 DEF MeshSetEssid, Given, CallSteps, CallAlone, OnCourse,
                         InStep, AtRest
    <3> QED
      BY <3>1, <3>2, <3>3 DEF RadioInv
  <2>14. ASSUME Renamed PROVE RadioInv'
    <3>1. RadioTypes'
      BY <2>0, <2>14 DEF Renamed, Given, CallSteps
    <3>2. (\A q \in Callers : Given(q))' /\ MeshOwed'
      BY <2>0, <2>14 DEF Renamed, Given, CallSteps, MeshOwed
    <3>3. CallAlone'
      BY <2>0, <2>14 DEF Renamed, Given, CallSteps, CallAlone, OnCourse,
                         InStep, AtRest
    <3> QED
      BY <3>1, <3>2, <3>3 DEF RadioInv
  <2>15. ASSUME SyncChannel PROVE RadioInv'
    <3>1. RadioTypes'
      <4> HIDE DEF Commands, RadioTypes, Begin, Command
      <4> QED
        BY <2>15, <2>0, <1>0, CallTyped, BeginTyped DEF SyncChannel, RadioTypes
    <3>2. (\A q \in Callers : Given(q))' /\ MeshOwed'
      BY <2>0, <2>15 DEF SyncChannel, Given, CallSteps, MeshOwed
    <3>3. CallAlone'
      BY <2>0, <2>15 DEF SyncChannel, Given, CallSteps, CallAlone, OnCourse,
                         InStep, AtRest
    <3> QED
      BY <3>1, <3>2, <3>3 DEF RadioInv
  <2>16. ASSUME UNCHANGED radioVars PROVE RadioInv'
    <3>1. RadioTypes'
      BY <2>0, <2>16 DEF radioVars, Given, CallSteps
    <3>2. (\A q \in Callers : Given(q))' /\ MeshOwed'
      BY <2>0, <2>16 DEF radioVars, Given, CallSteps, MeshOwed
    <3>3. CallAlone'
      BY <2>0, <2>16 DEF radioVars, Given, CallSteps, CallAlone, OnCourse,
                         InStep, AtRest
    <3> QED
      BY <3>1, <3>2, <3>3 DEF RadioInv
  <2> QED
    BY <2>1, <2>2, <2>3, <2>4, <2>5, <2>6, <2>7, <2>8, <2>9, <2>10, <2>11,
           <2>12, <2>13, <2>14, <2>15, <2>16 DEF ChannelNext
<1>3. RadioInv => RadioShared
  BY DEF RadioInv, RadioTypes, MeshOwed, CallAlone, InStep, RadioShared,
         MeshStaysOn, AtRest, Callers
<1> QED
  BY <1>1, <1>2, <1>3, PTL DEF RadioSpec
=============================================================================
