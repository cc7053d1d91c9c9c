----------------------------- MODULE WextProof ------------------------------
(***************************************************************************)
(* What iwconfig and iwlist are promised, for every value of the constants:*)
(* the scan, the settings in force, the link quality that is shown, and    *)
(* that the keys given reach the firmware.                                 *)
(***************************************************************************)
EXTENDS LbsKeys, LbsSettings, LbsScan, LbsAssoc, LbsQuality, TLAPS
-----------------------------------------------------------------------------
(* Link quality.                                                           *)
(* As long as no more than 90 retries were counted, more retries never     *)
(* make the quality better.  (Beyond 90 the difference wraps, and retries  *)
(* do not count any more.)                                                 *)
THEOREM QualityFallsWithRetries ==
    ASSUME NEW rssi \in Byte, NEW few \in 0 .. 90, NEW many \in few .. 90
    PROVE  Quality(rssi, many) <= Quality(rssi, few)
<1>1. /\ TxQual(few) \in 0 .. 100
      /\ TxQual(many) \in 0 .. 100
      /\ TxQual(many) <= TxQual(few)
  BY DEF TxQual, U32
<1>2. RssiQual(rssi) \in Nat
  BY DEF RssiQual, Byte
<1>3. \A x \in 0 .. 100 : U8(Lesser(RssiQual(rssi), x))
                            = Lesser(RssiQual(rssi), x)
  BY <1>2 DEF U8, Lesser
<1> QED
  BY <1>1, <1>2, <1>3 DEF Quality, Lesser

(* The strength alone: from 15 to 29 dB, and from 30 dB on, a stronger     *)
(* beacon never makes the quality worse.                                   *)
THEOREM QualityRisesWithRssi ==
    ASSUME NEW weak \in 15 .. 255, NEW strong \in weak .. 255,
           NEW retries \in 0 .. 90, strong < 30 \/ weak >= 30
    PROVE  Quality(weak, retries) <= Quality(strong, retries)
<1>1. TxQual(retries) \in 0 .. 100
  BY DEF TxQual, U32
<1>2. /\ RssiQual(weak) \in Nat
      /\ RssiQual(strong) \in Nat
      /\ RssiQual(weak) <= RssiQual(strong)
  <2>1. \A x \in 0 .. 255 :
           (x * 30) \div 5 = 6 * x /\ (x * 20) \div 5 = 4 * x
             /\ (x * 10) \div 10 = x
    OBVIOUS
  <2>2. \A s \in 15 .. 255 :
           /\ RssiQual(s) \in Nat
           /\ s < 20 => RssiQual(s) = 6 * s - 60
           /\ 20 <= s /\ s < 30 => RssiQual(s) = 4 * s - 20
           /\ 30 <= s => RssiQual(s) = s + 50
    BY <2>1 DEF RssiQual
  <2>3. CASE strong < 20
    BY <2>2, <2>3
  <2>4. CASE 20 <= strong /\ strong < 30
    BY <2>2, <2>4
  <2>5. CASE 30 <= strong
    BY <2>2, <2>5
  <2> QED
    BY <2>3, <2>4, <2>5
<1>3. \A x \in Nat : U8(Lesser(x, TxQual(retries)))
                       = Lesser(x, TxQual(retries))
  BY <1>1 DEF U8, Lesser
<1> QED
  BY <1>1, <1>2, <1>3 DEF Quality, Lesser

(* At 15 and at 30 dB it does: the steps of lbs_get_wireless_stats do not  *)
(* meet there.                                                             *)
THEOREM StrongerLooksWorse ==
    /\ Quality(15, 0) < Quality(14, 0)
    /\ Quality(30, 0) < Quality(29, 0)
BY DEF Quality, RssiQual, TxQual, Lesser, U8
-----------------------------------------------------------------------------
(* Scanning.                                                               *)

(* While the marker is set the work is coming, or a scan that will reset   *)
(* it is under way.                                                        *)
Marked == scan_channel # 0 => scan_work # "none" \/ Resetting \/ stranded

LEMMA Postponing == \A w : Queued(w) # "none"
  BY DEF Queued

LEMMA MarkedStep == Marked /\ [ScanNext]_scanVars => Marked'
<1> SUFFICES ASSUME Marked, [ScanNext]_scanVars PROVE Marked'
  OBVIOUS
<1> USE DEF Marked, Resetting
<1>1. CASE UNCHANGED <<markVars, scan_work, scanner>>
  BY <1>1 DEF markVars
<1>2. CASE SetScan \/ SetMarker
  BY <1>2, Postponing DEF SetScan, SetMarker
<1>3. CASE ScanWorker \/ FullScan
  BY <1>3 DEF ScanWorker, FullScan, Begin
<1>4. CASE ScanTimer \/ ScanAnswer \/ ScanFails
  BY <1>4 DEF ScanTimer, ScanAnswer, ScanFails, markVars
<1>5. CASE MoreChannels
  BY <1>5, Postponing DEF MoreChannels, Rest
<1>6. CASE ScanDone \/ ScanGivenUp
  BY <1>6 DEF ScanDone, ScanGivenUp
<1>7. CASE RestoreLink \/ RestoreCarrier \/ RestoreQueue
  BY <1>7 DEF RestoreLink, RestoreCarrier, RestoreQueue, ScannerAt
<1>8. CASE GetScan \/ Others \/ Tick \/ UNCHANGED scanVars
  BY <1>1, <1>8 DEF GetScan, Others, Tick, scanVars, markVars
<1> QED
  BY <1>2, <1>3, <1>4, <1>5, <1>6, <1>7, <1>8 DEF ScanNext, ScanStep

(* -EAGAIN is answered only while a scan is under way or coming            *)
(* (lbs_get_scan, lbs_scan_networks), for every list of channels, every    *)
(* length of a command and any number of ioctls, full scans and failures,  *)
(* unless the ioctl that sets the marker is preempted.                     *)
THEOREM AgainMeansScanning == ScanSpec => []AgainOnlyWhileScanning
<1>1. ScanInit => Marked
  BY DEF ScanInit, Marked
<1>2. Marked => AgainOnlyWhileScanning
  BY DEF Marked, AgainOnlyWhileScanning, Resetting, Scanning
<1> QED
  BY <1>1, <1>2, MarkedStep, PTL DEF ScanSpec

(* The carrier is on before the queue is woken, unless the link went.      *)
Restoring ==
    /\ link \in BOOLEAN /\ carrier \in BOOLEAN /\ queue_stopped \in BOOLEAN
    /\ scanner = "idle" /\ link => carrier /\ (queue_stopped => tx_pending_len # 0)
    /\ scanner = "wake" /\ link => carrier

(* However the scan, the link and the transmit path interleave, an idle    *)
(* work thread leaves an associated interface its carrier and a queue that *)
(* runs or will be woken (lbs_scan_networks).                              *)
THEOREM ScanGivesBack == ScanSpec => []InterfaceRestored
<1>1. ScanInit => Restoring
  <2> SUFFICES ASSUME ScanInit PROVE Restoring
    OBVIOUS
  <2>1. CASE link = TRUE
    BY <2>1 DEF ScanInit, Restoring
  <2>2. CASE link = FALSE
    BY <2>2 DEF ScanInit, Restoring
  <2> QED
    BY <2>1, <2>2 DEF ScanInit
<1>2. Restoring /\ [ScanNext]_scanVars => Restoring'
  <2> SUFFICES ASSUME Restoring, [ScanNext]_scanVars PROVE Restoring'
    OBVIOUS
  <2> USE DEF Restoring
  <2>1. CASE UNCHANGED <<netVars, scanner>>
    BY <2>1 DEF netVars
  <2>2. CASE \/ SetScan \/ SetMarker \/ GetScan \/ ScanTimer \/ Tick
             \/ UNCHANGED scanVars
    BY <2>1, <2>2 DEF SetScan, SetMarker, GetScan, ScanTimer, Tick, scanVars
  <2>3. CASE ScanWorker \/ FullScan
    BY <2>3 DEF ScanWorker, FullScan, Begin
  <2>4. CASE ScanAnswer \/ ScanFails \/ MoreChannels \/ ScanDone \/ ScanGivenUp
    <3>1. scanner' # "idle" /\ scanner' # "wake" /\ UNCHANGED netVars
      BY <2>4 DEF ScanAnswer, ScanFails, MoreChannels, ScanDone, ScanGivenUp
    <3> QED
      BY <3>1 DEF netVars
  <2>5. CASE RestoreLink \/ RestoreCarrier \/ RestoreQueue
    <3>1. CASE RestoreLink
      BY <3>1 DEF RestoreLink, ScannerAt
    <3>2. CASE RestoreCarrier
      BY <3>2 DEF RestoreCarrier, ScannerAt
    <3>3. CASE RestoreQueue
      BY <3>3 DEF RestoreQueue, ScannerAt, StillStopped
    <3> QED
      BY <2>5, <3>1, <3>2, <3>3
  <2>6. CASE Others
    <3>1. UNCHANGED scanner
      BY <2>6 DEF Others
    <3>2. CASE Xmit
      BY <3>1, <3>2 DEF Xmit
    <3>3. CASE TxSent
      BY <3>1, <3>3 DEF TxSent
    <3>4. CASE LinkGone
      BY <3>1, <3>4 DEF LinkGone
    <3>5. CASE LinkUp
      BY <3>1, <3>5 DEF LinkUp, Scanning
    <3> QED
      BY <2>6, <3>2, <3>3, <3>4, <3>5 DEF Others
  <2> QED
    BY <2>2, <2>3, <2>4, <2>5, <2>6 DEF ScanNext, ScanStep
<1>3. Restoring => InterfaceRestored
  BY DEF Restoring, InterfaceRestored, Scanning
<1> QED
  BY <1>1, <1>2, <1>3, PTL DEF ScanSpec

(* What the commands of a scan have visited.  Where an interrupted scan is *)
(* to go on, the channels before it were visited, except while a full scan *)
(* is under way, which takes the marker away when it ends.                 *)
Upto(n) == 1..n

ScanTypes ==
    /\ scan_channel \in {-1} \cup (0..NrChannels)
    /\ curr_chans \in Nat /\ chan_count \in Nat
    /\ Resetting => curr_chans + chan_count = NrChannels

VisitedBefore ==
    /\ ~(Resetting /\ full_scan) => Upto(scan_channel) \subseteq Visited
    /\ Visited \subseteq Region
    /\ Resetting /\ ~full_scan => /\ scan_channel <= curr_chans
                                  /\ Upto(curr_chans) \subseteq Visited
    /\ scanner = "answered" /\ ~full_scan => Upto(curr_chans + ToScan) \subseteq Visited

VisitInv == ScanTypes /\ VisitedBefore

LEMMA ToScanFits ==
    ASSUME ScanTypes
    PROVE  ToScan \in Nat /\ ToScan <= chan_count
  BY ScanAssumption DEF ScanTypes, ToScan

LEMMA ChunkVisited ==
    ASSUME scanned' = scanned \cup (Chunk \X {scan_ssid})
    PROVE  Visited' = Visited \cup Chunk
<1>1. \A x : x \in Visited' <=> x \in Visited \/ x \in Chunk
  <2> SUFFICES ASSUME NEW x PROVE x \in Visited' <=> x \in Visited \/ x \in Chunk
    OBVIOUS
  <2>1. ASSUME x \in Visited' PROVE x \in Visited \/ x \in Chunk
    <3>1. PICK p \in scanned' : x = p[1]
      BY <2>1 DEF Visited
    <3> QED
      BY <3>1 DEF Visited
  <2>2. ASSUME x \in Visited PROVE x \in Visited'
    BY <2>2 DEF Visited
  <2>3. ASSUME x \in Chunk PROVE x \in Visited'
    <3> DEFINE p == <<x, scan_ssid>>
    <3>1. p \in scanned' /\ p[1] = x
      BY <2>3
    <3> HIDE DEF p
    <3> QED
      BY <3>1 DEF Visited
  <2> QED
    BY <2>1, <2>2, <2>3
<1> QED
  BY <1>1

(* A scan begins, perhaps where another stopped.                           *)
LEMMA VisitBegins ==
    ASSUME VisitInv, ~Scanning, NEW full \in BOOLEAN, Begin(full)
    PROVE  VisitInv'
<1>1. /\ UNCHANGED scan_channel /\ full_scan' = full
      /\ Upto(scan_channel) \subseteq Visited
  BY DEF Begin, VisitInv, VisitedBefore, Resetting, Scanning
<1>2. CASE scanner' = "restore" /\ UNCHANGED <<curr_chans, chan_count, scanned>>
  BY <1>1, <1>2 DEF VisitInv, ScanTypes, VisitedBefore, Resetting, Visited
<1>3. CASE /\ scanner' = "command" /\ curr_chans' = Skipped
           /\ chan_count' = NrChannels - Skipped
           /\ scanned' = IF full \/ Skipped = 0 THEN {} ELSE scanned
  <2>1. /\ Skipped \in 0..NrChannels /\ NrChannels \in Nat /\ scan_channel <= Skipped
        /\ scan_channel \in Int
    BY ScanAssumption DEF Skipped, VisitInv, ScanTypes
  <2>2. ScanTypes'
    BY <1>1, <1>3, <2>1 DEF VisitInv, ScanTypes
  <2>3. Visited' \subseteq Region
    BY <1>3 DEF Visited, VisitInv, VisitedBefore
  <2>4. ~full => Upto(Skipped) \subseteq Visited'
    BY <1>1, <1>3, <2>1 DEF Visited, Upto, Skipped
  <2>5. ~full => Upto(scan_channel) \subseteq Visited'
    BY <2>1, <2>4 DEF Upto
  <2> QED
    BY <1>1, <1>3, <2>1, <2>2, <2>3, <2>4, <2>5 DEF VisitInv, VisitedBefore, Resetting
<1> QED
  BY <1>2, <1>3 DEF Begin

(* One command of it is answered.                                          *)
LEMMA VisitAnswered ==
    ASSUME VisitInv, ScanAnswer
    PROVE  VisitInv'
<1>1. /\ scanner = "command" /\ scanner' = "answered"
      /\ UNCHANGED <<scan_channel, full_scan, curr_chans, chan_count>>
      /\ Visited' = Visited \cup Chunk
  BY ChunkVisited DEF ScanAnswer, localVars
<1>2. /\ curr_chans \in Nat /\ chan_count \in Nat /\ ToScan \in Nat /\ ToScan <= chan_count
      /\ curr_chans + chan_count = NrChannels /\ ToScan' = ToScan
  BY <1>1, ToScanFits DEF VisitInv, ScanTypes, Resetting, ToScan
<1>3. /\ Chunk \subseteq Region
      /\ Upto(curr_chans + ToScan) \subseteq Upto(curr_chans) \cup Chunk
  BY <1>2 DEF Chunk, Region, Upto
<1>4. ScanTypes'
  BY <1>1 DEF VisitInv, ScanTypes, Resetting
<1> QED
  BY <1>1, <1>2, <1>3, <1>4 DEF VisitInv, VisitedBefore, Resetting

LEMMA VisitStep == VisitInv /\ [ScanNext]_scanVars => VisitInv'
<1> SUFFICES ASSUME VisitInv, [ScanNext]_scanVars PROVE VisitInv'
  OBVIOUS
<1>1. ASSUME UNCHANGED <<scan_channel, scanner, localVars, scanned>> PROVE VisitInv'
  BY <1>1 DEF VisitInv, ScanTypes, VisitedBefore, Resetting, Visited, localVars, ToScan
<1>2. CASE \/ GetScan \/ ScanTimer \/ Others \/ Tick \/ UNCHANGED scanVars
  BY <1>1, <1>2 DEF GetScan, ScanTimer, Others, Tick, scanVars, markVars
<1>3. CASE SetScan \/ SetMarker
  <2>1. /\ UNCHANGED <<scanner, localVars, scanned>>
        /\ scan_channel' = -1 \/ UNCHANGED scan_channel
    BY <1>3 DEF SetScan, SetMarker
  <2>2. CASE scan_channel' = -1
    <3>1. Upto(-1) = {}
      BY DEF Upto
    <3> QED
      BY <2>1, <2>2, <3>1 DEF VisitInv, ScanTypes, VisitedBefore, Resetting, Visited,
         localVars, ToScan
  <2> QED
    BY <1>1, <2>1, <2>2
<1>4. CASE ScanWorker \/ FullScan
  BY <1>4, VisitBegins DEF ScanWorker, FullScan
<1>5. CASE ScanFails
  BY <1>5 DEF ScanFails, VisitInv, ScanTypes, VisitedBefore, Resetting, Visited,
     localVars, markVars
<1>6. CASE MoreChannels
  <2>1. /\ scanner = "answered" /\ chan_count > ToScan
        /\ curr_chans' = curr_chans + ToScan /\ chan_count' = chan_count - ToScan
        /\ UNCHANGED <<full_scan, scanned>>
    BY <1>6 DEF MoreChannels
  <2>2. /\ ToScan \in Nat /\ curr_chans \in Nat /\ chan_count \in Nat
        /\ curr_chans + chan_count = NrChannels
    BY <2>1, ToScanFits DEF VisitInv, ScanTypes, Resetting
  <2>3. CASE full_scan /\ scanner' = "command" /\ UNCHANGED scan_channel
    BY <2>1, <2>2, <2>3 DEF VisitInv, ScanTypes, VisitedBefore, Resetting, Visited
  <2>4. CASE ~full_scan /\ scan_channel' = NextChunk(ToScan) /\ scanner' = "restore"
    <3>1. /\ scan_channel' \in 0..NrChannels
          /\ scan_channel' <= curr_chans + ToScan
      BY <2>1, <2>2, <2>4 DEF VisitInv, ScanTypes, VisitedBefore, NextChunk, Resetting
    <3>2. Upto(curr_chans + ToScan) \subseteq Visited
      BY <2>1, <2>4 DEF VisitInv, VisitedBefore
    <3>3. Upto(scan_channel') \subseteq Upto(curr_chans + ToScan)
      BY <2>2, <3>1 DEF Upto
    <3> QED
      BY <2>1, <2>2, <2>4, <3>1, <3>2, <3>3 DEF VisitInv, ScanTypes, VisitedBefore,
         Resetting, Visited, Upto
  <2> QED
    BY <1>6, <2>3, <2>4 DEF MoreChannels
<1>7. CASE ScanDone \/ ScanGivenUp
  <2>1. /\ scan_channel' = 0 /\ scanner' = "restore" /\ UNCHANGED <<curr_chans, scanned>>
        /\ chan_count' \in {0, chan_count}
    BY <1>7 DEF ScanDone, ScanGivenUp, localVars
  <2>2. Upto(0) = {}
    BY DEF Upto
  <2> QED
    BY <2>1, <2>2, ScanAssumption DEF VisitInv, ScanTypes, VisitedBefore, Resetting, Visited
<1>8. CASE RestoreLink \/ RestoreCarrier \/ RestoreQueue
  <2>1. /\ UNCHANGED <<scan_channel, scanned>> /\ curr_chans' = 0 /\ chan_count' = 0
        /\ ~Resetting /\ ~Resetting' /\ scanner' # "answered"
    BY <1>8 DEF RestoreLink, RestoreCarrier, RestoreQueue, ScannerAt, Resetting
  <2> QED
    BY <2>1 DEF VisitInv, ScanTypes, VisitedBefore, Visited
<1> QED
  BY <1>2, <1>3, <1>4, <1>5, <1>6, <1>7, <1>8, VisitAnswered DEF ScanNext, ScanStep

(* The event that ends a partial scan comes when every channel of the      *)
(* region was visited (lbs_scan_networks), for every list of channels and  *)
(* every length of a command, however many ioctls moved the marker and     *)
(* full scans and failures came between its commands.                      *)
THEOREM EveryChannelVisited == ScanSpec => PartialScanVisitsAll
<1>1. ScanInit => VisitInv
  BY ScanAssumption DEF ScanInit, VisitInv, ScanTypes, VisitedBefore, Resetting, Visited, Upto
<1>2. VisitInv /\ [ScanNext]_scanVars
      => (scanner = "answered" /\ scanner' = "restore" /\ ~full_scan /\ chan_count' = 0
          => Visited = Region)
  <2> SUFFICES ASSUME VisitInv, [ScanNext]_scanVars, scanner = "answered",
                      scanner' = "restore", ~full_scan, chan_count' = 0
               PROVE  Visited = Region
    OBVIOUS
  <2>1. /\ ToScan \in Nat /\ ToScan <= chan_count /\ curr_chans \in Nat /\ chan_count \in Nat
        /\ curr_chans + chan_count = NrChannels
    BY ToScanFits DEF VisitInv, ScanTypes, Resetting
  <2>2. ScanDone \/ MoreChannels
    BY DEF ScanNext, ScanStep, SetScan, SetMarker, GetScan, FullScan, ScanTimer,
       ScanWorker, ScanAnswer, ScanFails, ScanGivenUp, RestoreLink, RestoreCarrier,
       RestoreQueue, ScannerAt, Others, Tick, Begin, Scanning, scanVars
  <2>3. ToScan = chan_count
    BY <2>1, <2>2 DEF ScanDone, MoreChannels
  <2> QED
    BY <2>1, <2>3 DEF VisitInv, VisitedBefore, Upto, Region
<1> QED
  BY <1>1, <1>2, VisitStep, PTL DEF ScanSpec, PartialScanVisitsAll
-----------------------------------------------------------------------------
(* Settings.                                                               *)

(* A caller that has its own result and no other's knows what the firmware *)
(* has; a command that was given up is of an item nobody is sure of.       *)
ItemCall(c) ==
    /\ c.op \in {"set", "get"} /\ c.item \in Items
    /\ c.op = "set" /\ c.item = "retry" => c.v \in Int

OwnResult ==
    spc = "answered" /\ ~jumbled =>
        /\ left = {}
        /\ scall.op = "set" /\ ~retcode => Untold(scall.item, fw[scall.item]) = scall.v
        /\ scall.op = "set" /\ retcode /\ scall.item \notin unsure =>
              Untold(scall.item, fw[scall.item]) = set_to[scall.item]
        /\ scall.op = "get" /\ ~retcode => drv[scall.item] = fw[scall.item]

ItemsInv ==
    /\ DOMAIN fw = Items /\ DOMAIN drv = Items /\ DOMAIN set_to = Items
    /\ retcode \in BOOLEAN /\ jumbled \in BOOLEAN
    /\ spc = "rate" => scall.op = "rate"
    /\ spc = "wait" /\ ForItem => ItemCall(scall)
    /\ spc = "answered" => ItemCall(scall)
    /\ \A c \in left : ItemCall(c) /\ (c.op = "set" => c.item \in unsure)
    /\ OwnResult /\ ItemsKept

(* A rate that is being fixed is the driver's, and what the firmware is    *)
(* told, until a packet that was looked at before crosses it.              *)
Fixing == spc # "idle" /\ scall.op \in {"rate", "adapt", "older"} /\ Fixed(scall) # NoRate
OnlyRate(rate) == [auto |-> FALSE, mask |-> {IndexOf(rate)}]

RateInv ==
    /\ enablehwauto \in BOOLEAN /\ crossed \in BOOLEAN
    /\ rxp # NoPacket => rxp.auto
    /\ spc = "rate" => scall.op = "rate"
    /\ Fixing /\ ~crossed => ~enablehwauto /\ cur_rate = scall.v
    /\ Fixing /\ ~crossed /\ scall.op = "adapt" => scall.told = OnlyRate(scall.v)
    /\ fixed_to # NoRate /\ ~crossed =>
          fw_rate = OnlyRate(fixed_to) /\ cur_rate = fixed_to /\ ~enablehwauto

(* What an answer to a command of an item can do.                          *)
LEMMA AnswerHandled ==
    ASSUME ItemsInv, NEW c, ItemCall(c), Handled(c)
    PROVE  /\ DOMAIN fw' = Items /\ DOMAIN drv' = Items /\ retcode' \in BOOLEAN
           /\ unsure \subseteq unsure'
           /\ \A item \in Items \ {c.item} : fw'[item] = fw[item]
           /\ c.op = "get" => fw' = fw /\ unsure' = unsure
           /\ c.op = "get" /\ ~retcode' => drv'[c.item] = fw'[c.item]
           /\ c.op = "set" /\ ~retcode' => Untold(c.item, fw'[c.item]) = c.v
           /\ c.op = "set" /\ retcode' /\ c.item \notin unsure' => fw' = fw
<1> USE DEF ItemsInv, ItemCall
<1>1. c.op = "set" => Untold(c.item, Told(c.item, c.v)) = c.v
  BY DEF Told, Untold
<1>2. /\ DOMAIN fw' = Items
      /\ \A item \in Items \ {c.item} : fw'[item] = fw[item]
      /\ c.op = "get" => fw' = fw
  BY DEF Handled, Taken
<1>3. /\ DOMAIN drv' = Items /\ retcode' \in BOOLEAN
      /\ unsure \subseteq unsure' /\ (c.op = "get" => unsure' = unsure)
  BY DEF Handled, NotKnown
<1>4. c.op = "get" /\ ~retcode' => drv'[c.item] = fw'[c.item]
  BY DEF Handled
<1>5. c.op = "set" /\ ~retcode' => Untold(c.item, fw'[c.item]) = c.v
  BY <1>1 DEF Handled, Taken
<1>6. c.op = "set" /\ retcode' /\ c.item \notin unsure' => fw' = fw
  BY DEF Handled, NotKnown
<1> QED
  BY <1>2, <1>3, <1>4, <1>5, <1>6

LEMMA ItemsStep == ItemsInv /\ [SettingsNext]_settingsVars => ItemsInv'
<1> SUFFICES ASSUME ItemsInv, [SettingsNext]_settingsVars PROVE ItemsInv'
  OBVIOUS
<1> USE DEF ItemsInv, ItemsKept, BeingSet, OwnResult, ForItem
<1>1. CASE UNCHANGED <<drv, fw, set_to, resultVars, spc, scall>>
  BY <1>1 DEF resultVars, ItemCall
<1>2. ASSUME UNCHANGED <<fw, set_to, resultVars>>, DOMAIN drv' = Items, spc = "idle",
             spc' = "wait", ItemCall(scall')
      PROVE  ItemsInv'
  BY <1>2 DEF resultVars, ItemCall
<1>3. ASSUME NEW item \in Items, NEW v, SetItem(item, v) PROVE ItemsInv'
  <2>1. item = "retry" => v \in Int
    BY <1>3 DEF SetItem, Allowed
  <2>2. ItemCall(scall') /\ spc' = "wait"
    BY <1>3, <2>1 DEF SetItem, Await, ItemCall
  <2> QED
    BY <1>2, <1>3, <2>2 DEF SetItem
<1>4. ASSUME NEW v, SetTxpow(v) PROVE ItemsInv'
  BY <1>2, <1>4 DEF SetTxpow, Await, Items, ItemCall
<1>5. ASSUME NEW item \in Items, GetItem(item) PROVE ItemsInv'
  BY <1>2, <1>5 DEF GetItem, Await, ItemCall
<1>6. CASE ItemAnswered
  <2>1. /\ spc = "wait" /\ spc' = "answered" /\ left = {} /\ jumbled' = FALSE
        /\ UNCHANGED <<set_to, left, scall>> /\ ItemCall(scall) /\ Handled(scall)
    BY <1>6 DEF ItemAnswered
  <2>2. ItemCall(scall)'
    BY <2>1 DEF ItemCall
  <2>3. OwnResult'
    BY <2>1, AnswerHandled DEF ItemCall
  <2>4. ItemsKept'
    BY <2>1, AnswerHandled DEF ItemCall
  <2> QED
    BY <2>1, <2>2, <2>3, <2>4, AnswerHandled
<1>7. CASE ItemSignalled
  <2>1. /\ spc = "wait" /\ spc' = "answered" /\ left' = left \cup {scall} /\ jumbled' = TRUE
        /\ UNCHANGED <<drv, fw, set_to, retcode, scall>> /\ ItemCall(scall)
        /\ unsure \subseteq unsure' /\ (scall.op = "set" => scall.item \in unsure')
    BY <1>7 DEF ItemSignalled, settingVars, NotKnown
  <2>2. ItemCall(scall)' /\ \A c : ItemCall(c)' <=> ItemCall(c)
    BY <2>1 DEF ItemCall
  <2> QED
    BY <2>1, <2>2
<1>8. CASE LeftAnswered
  <2>1. PICK c \in left : Handled(c) /\ left' = left \ {c}
    BY <1>8 DEF LeftAnswered
  <2>2. ItemCall(c) /\ (c.op = "set" => c.item \in unsure)
        /\ UNCHANGED <<set_to, jumbled, spc, scall>>
    BY <1>8, <2>1 DEF LeftAnswered
  <2>3. spc = "answered" => jumbled = TRUE
    BY <2>1
  <2>4. \A item \in Items \ unsure' : fw'[item] = fw[item] /\ item \notin unsure
    <3>1. /\ unsure \subseteq unsure' /\ (c.op = "get" => fw' = fw)
          /\ \A item \in Items \ {c.item} : fw'[item] = fw[item]
      BY <2>1, <2>2, AnswerHandled
    <3>2. c.op = "get" \/ c.item \in unsure'
      BY <2>2, <3>1 DEF ItemCall
    <3> QED
      BY <3>1, <3>2
  <2>5. ASSUME NEW item \in Items \ unsure', ~BeingSet(item)'
        PROVE  Untold(item, fw'[item]) = set_to'[item]
    <3>1. fw'[item] = fw[item] /\ item \notin unsure
      BY <2>4
    <3>2. Untold(item, fw[item]) = set_to[item]
      BY <2>2, <2>5, <3>1
    <3> QED
      BY <2>2, <3>1, <3>2
  <2>6. \A k : ItemCall(k)' <=> ItemCall(k)
    BY DEF ItemCall
  <2>7. /\ DOMAIN fw' = Items /\ DOMAIN drv' = Items /\ retcode' \in BOOLEAN
        /\ unsure \subseteq unsure'
    BY <2>1, <2>2, AnswerHandled
  <2> QED
    BY <2>1, <2>2, <2>3, <2>5, <2>6, <2>7
<1>9. CASE OtherCommand
  BY <1>9 DEF OtherCommand, settingVars, ItemCall
<1>10. CASE SetDone
  <2>1. /\ spc = "answered" /\ spc' = "idle" /\ scall.op = "set" /\ scall.item \in Items
        /\ retcode' = FALSE /\ jumbled' = FALSE /\ UNCHANGED <<drv, fw, left>>
        /\ set_to' = IF retcode THEN set_to ELSE [set_to EXCEPT ![scall.item] = scall.v]
    BY <1>10 DEF SetDone, Finish, ItemCall
  <2>2. \/ jumbled /\ unsure' = unsure \cup {scall.item}
        \/ ~jumbled /\ retcode /\ unsure' = unsure
        \/ ~jumbled /\ ~retcode /\ unsure' = unsure \ {scall.item}
    BY <1>10 DEF SetDone
  <2>3. ASSUME NEW item \in Items \ unsure' PROVE Untold(item, fw'[item]) = set_to'[item]
    BY <2>1, <2>2, <2>3
  <2>4. \A c \in left : c.op = "set" => c.item \in unsure'
    BY <2>1, <2>2
  <2>5. \A c : ItemCall(c)' <=> ItemCall(c)
    BY DEF ItemCall
  <2> QED
    BY <2>1, <2>3, <2>4, <2>5
<1>11. CASE GetDone
  <2>1. /\ spc = "answered" /\ spc' = "idle" /\ scall.op = "get"
        /\ retcode' = FALSE /\ jumbled' = FALSE /\ UNCHANGED <<drv, fw, set_to, left, unsure>>
    BY <1>11 DEF GetDone, Finish, settingVars
  <2> QED
    BY <2>1 DEF ItemCall
<1>12. ASSUME spc # "answered", spc' \in {"idle", "rate", "wait"},
              UNCHANGED <<settingVars, resultVars>>,
              spc' = "rate" => scall'.op = "rate",
              spc' = "wait" => scall'.op \notin {"set", "get"}
       PROVE  ItemsInv'
  BY <1>12 DEF settingVars, resultVars, ItemCall
<1>13. CASE NotSent \/ OlderFails \/ AdaptDone \/ OlderDone
  BY <1>12, <1>13 DEF NotSent, OlderFails, AdaptDone, OlderDone, Finish
<1>14. CASE \/ \E v \in NewRates, fixed, active \in BOOLEAN :
                 (v = 0 => active) /\ SetRate(v, fixed, active)
            \/ \E fixed \in BOOLEAN : SetNoRate(fixed)
  BY <1>1, <1>12, <1>14 DEF SetRate, SetNoRate, Await, settingVars
<1>15. CASE Adapt \/ Older
  BY <1>12, <1>15 DEF Adapt, Older, Await, Finish
<1>16. CASE RadioOff \/ RxStores \/ (\E i \in RxIndexes : RxLooks(i)) \/ UNCHANGED settingsVars
  BY <1>1, <1>16 DEF RadioOff, RxStores, RxLooks, settingVars, settingsVars
<1> QED
  BY <1>3, <1>4, <1>5, <1>6, <1>7, <1>8, <1>9, <1>10, <1>11, <1>13, <1>14, <1>15, <1>16
  DEF SettingsNext, ItemNext, RateNext, Items

LEMMA RateStep == RateInv /\ [SettingsNext]_settingsVars => RateInv'
<1> SUFFICES ASSUME RateInv, [SettingsNext]_settingsVars PROVE RateInv'
  OBVIOUS
<1> USE DEF RateInv, Fixing
<1>1. CASE UNCHANGED <<rateVars, spc, scall>>
  BY <1>1 DEF rateVars
<1>2. ASSUME UNCHANGED rateVars,
             \/ spc' = "idle"
             \/ spc' \in {"wait", "answered"} /\ scall'.op \in {"set", "get"}
      PROVE  RateInv'
  BY <1>2 DEF rateVars
<1>3. CASE \/ \E item \in Items, v \in Thresholds \cup Retries : SetItem(item, v)
           \/ \E v \in Powers : SetTxpow(v)
           \/ \E item \in Items : GetItem(item)
  BY <1>2, <1>3 DEF SetItem, SetTxpow, GetItem, Await
<1>4. CASE SetDone \/ GetDone \/ NotSent \/ OlderFails \/ RadioOff
  BY <1>2, <1>4 DEF SetDone, GetDone, NotSent, OlderFails, RadioOff, Finish
<1>13. CASE ItemAnswered \/ ItemSignalled
  BY <1>2, <1>13 DEF ItemAnswered, ItemSignalled, ForItem
<1>14. CASE LeftAnswered \/ OtherCommand
  BY <1>1, <1>14 DEF LeftAnswered, OtherCommand
<1>5. ASSUME NEW v, NEW fixed \in BOOLEAN, NEW active \in BOOLEAN, SetRate(v, fixed, active)
      PROVE  RateInv'
  <2>1. /\ enablehwauto' = ~fixed /\ cur_rate' = v /\ fixed_to' = NoRate
        /\ crossed' = FALSE /\ UNCHANGED rxp
    BY <1>5 DEF SetRate
  <2>2. \/ spc' = "idle"
        \/ spc' = "rate" /\ scall' = [op |-> "rate", v |-> v, fixed |-> fixed]
    BY <1>5 DEF SetRate, Await
  <2>3. enablehwauto' \in BOOLEAN
    BY <2>1
  <2>4. CASE spc' = "idle"
    BY <2>1, <2>3, <2>4
  <2>5. CASE spc' = "rate" /\ scall' = [op |-> "rate", v |-> v, fixed |-> fixed]
    <3>1. scall'.v = v /\ scall'.op = "rate" /\ scall'.fixed = fixed
      BY <2>5
    <3>2. Fixing' => ~enablehwauto'
      BY <2>1, <3>1 DEF Fixed
    <3> QED
      BY <2>1, <2>3, <3>1, <3>2
  <2> QED
    BY <2>2, <2>4, <2>5
<1>6. ASSUME NEW fixed \in BOOLEAN, SetNoRate(fixed) PROVE RateInv'
  BY <1>6 DEF SetNoRate
<1>7. CASE Adapt
  <2>1. /\ scall'.op = "adapt" /\ scall'.v = scall.v /\ scall'.fixed = scall.fixed
        /\ scall'.told = [auto |-> enablehwauto, mask |-> Bitmap(cur_rate, enablehwauto)]
        /\ UNCHANGED rateVars /\ scall.op = "rate" /\ spc = "rate" /\ spc' = "wait"
    BY <1>7 DEF Adapt, Await
  <2>2. UNCHANGED <<cur_rate, enablehwauto, fw_rate, rxp, fixed_to, crossed>>
    BY <2>1 DEF rateVars
  <2>3. Fixed(scall') = Fixed(scall)
    BY <2>1 DEF Fixed
  <2>4. Fixing' => Fixing
    BY <2>1, <2>3
  <2>5. ~enablehwauto => scall'.told = OnlyRate(cur_rate)
    BY <2>1 DEF OnlyRate, Bitmap
  <2>6. Fixing /\ ~crossed => ~enablehwauto /\ cur_rate = scall'.v
    BY <2>1
  <2> QED
    BY <2>1, <2>2, <2>4, <2>5, <2>6
<1>8. CASE AdaptDone
  BY <1>8 DEF AdaptDone, Finish, Fixed
<1>9. CASE Older
  <2>1. UNCHANGED rateVars /\ spc # "idle" /\ scall.op \in {"rate", "adapt"}
    BY <1>9 DEF Older
  <2>2. \/ spc' = "idle"
        \/ /\ spc' = "wait"
           /\ scall' = [op |-> "older", v |-> scall.v, fixed |-> scall.fixed]
    BY <1>9 DEF Older, Finish, Await
  <2>3. UNCHANGED <<cur_rate, enablehwauto, fw_rate, rxp, fixed_to, crossed>>
    BY <2>1 DEF rateVars
  <2>4. CASE spc' = "idle"
    BY <2>3, <2>4
  <2>5. CASE spc' = "wait" /\ scall' = [op |-> "older", v |-> scall.v, fixed |-> scall.fixed]
    <3>1. Fixed(scall') = Fixed(scall) /\ scall'.v = scall.v /\ scall'.op = "older"
      BY <2>5 DEF Fixed
    <3> QED
      BY <2>1, <2>3, <2>5, <3>1
  <2> QED
    BY <2>2, <2>4, <2>5
<1>10. CASE OlderDone
  BY <1>10 DEF OlderDone, Finish, Fixed, OnlyRate
<1>11. ASSUME NEW i \in RxIndexes, RxLooks(i) PROVE RateInv'
  BY <1>11 DEF RxLooks, RxBegins
<1>12. CASE RxStores
  BY <1>12 DEF RxStores
<1> QED
  BY <1>1, <1>3, <1>4, <1>5, <1>6, <1>7, <1>8, <1>9, <1>10, <1>11, <1>12,
     <1>13, <1>14
  DEF SettingsNext, ItemNext, RateNext, settingsVars, Items

(* The settings that were accepted are those in force: thresholds, retries *)
(* and power, whatever failed or was read in between, where a caller was   *)
(* told its own result, and what it is shown is the firmware's; and a      *)
(* fixed rate, whatever packets bring (lbs_prepare_and_send_command,       *)
(* lbs_set_rts, lbs_set_retry, lbs_set_txpow, lbs_set_rate; rx.c), for all *)
(* values and rates.                                                       *)
THEOREM SettingsInForce == SettingsSpec => []SettingsKept
<1>1. SettingsInit => ItemsInv
  BY DEF SettingsInit, ItemsInv, ItemsKept, OwnResult, ForItem, BeingSet, NoCall
<1>2. SettingsInit => RateInv
  BY DEF SettingsInit, RateInv, Fixing, NoRate
<1>3. ItemsInv /\ RateInv => SettingsKept
  BY DEF ItemsInv, OwnResult, RateInv, SettingsKept, FixedRateKept, ShownIsFirmwares,
     ShownAs, OnlyRate
<1> QED
  BY <1>1, <1>2, <1>3, ItemsStep, RateStep, PTL DEF SettingsSpec
-----------------------------------------------------------------------------
(* Association.                                                            *)

(* Settings as the ioctls and the work use them, and the four of them that *)
(* LastSettingWins is about.                                               *)
Compared == {"KEYS", "TX", "SECINFO", "MODE"}

Sound(set) ==
    /\ DOMAIN set = Valued /\ DOMAIN set.KEYS = KeyIdx /\ set.TX \in KeyIdx
    /\ DOMAIN set.SECINFO = {"wep", "wpa", "auth"}
    /\ set.SECINFO.wep \in BOOLEAN /\ set.SECINFO.wpa \in BOOLEAN
    /\ set.MODE \in Modes

Keyed(set) == set.SECINFO.wep => set.KEYS[set.TX] # NoKey

Meets(set, goal) ==
    /\ Sound(set) /\ Sound(goal) /\ Keyed(set)
    /\ \A a \in Compared \ {"MODE"} : set[a] = goal[a]
    /\ set.MODE = goal.MODE \/ goal.MODE = "auto"

(* Between two jobs the configuration, with what the pending request will  *)
(* change, is what was asked for.                                          *)
Resting ==
    /\ Keyed(cur) /\ Meets(Copied, wanted)
    /\ request.flags # {} => assoc_work # "none"
    /\ request # NoRequest /\ assoc_work # "none" =>
          Sound(request.set) /\ \A a \in Compared : request.set[a] = Copied[a]

(* In a job, what differs from it has its step ahead; and the association  *)
(* is kept only by a job that will not associate to a network again.       *)
StepOf == [MODE |-> 1, KEYS |-> 3, TX |-> 3, SECINFO |-> 4]
Ahead(a) == stage \in {"choose", "leave"} \cup {Steps[i] : i \in 1..StepOf[a]}

KeptBy(work) ==
    \/ work.set.MODE = "adhoc"
    \/ work.set.MODE = "infra" /\ work.flags \cap {"SSID", "BSSID", "CHANNEL"} = {}

Working ==
    /\ Meets(job.set, wanted)
    /\ assoc_work = "none" /\ request.flags = {}
    /\ stage \in {"choose", "leave"} \cup DOMAIN CalledFor
    /\ stage \in DOMAIN CalledFor => CalledFor[stage] \cap job.flags # {}
    /\ \A a \in Compared : cur[a] = job.set[a] \/ (a \in job.flags /\ Ahead(a))
    /\ stage \in DOMAIN CalledFor /\ connected => KeptBy(job)

AssocInv ==
    /\ spoilt \in BOOLEAN
    /\ ~spoilt => /\ DOMAIN request = {"flags", "set"} /\ DOMAIN job = {"flags", "set"}
                  /\ Sound(cur) /\ rsn = cur.SECINFO.wpa /\ connected \in BOOLEAN
                  /\ connected => cur.MODE # "auto"
                  /\ Idle => Resting
                  /\ ~Idle => Working

(* The ioctls.  Each makes of the settings, and of what was asked for so   *)
(* far, a new one; what it changes among those compared it flags.          *)
Fits(set, goal, new, newgoal) ==
    new.ok => /\ Meets(new.set, newgoal.set)
              /\ \A a \in Compared : new.set[a] # set[a] => a \in new.flags

Asked(new, newgoal) ==
    /\ spoilt' = (spoilt \/ ~Idle)
    /\ \/ /\ new.ok
          /\ request' = [flags |-> request.flags \cup new.flags, set |-> new.set]
          /\ assoc_work' = Postponed(assoc_work)
          /\ wanted' = newgoal.set
       \/ Cancel
    /\ UNCHANGED <<cur, connected, rsn, stage, job>>

LEMMA AskedKeeps ==
    ASSUME AssocInv, NEW new, NEW newgoal, Asked(new, newgoal),
           Meets(Copied, wanted) => Fits(Copied, wanted, new, newgoal)
    PROVE  AssocInv'
<1>1. spoilt' = (spoilt \/ ~Idle) /\ UNCHANGED <<cur, connected, rsn, stage, job>>
  BY DEF Asked
<1>0. DOMAIN request' = {"flags", "set"}
  BY DEF Asked, Cancel, NoRequest
<1> SUFFICES ASSUME ~spoilt' PROVE Idle /\ Resting'
  BY <1>1, <1>0 DEF AssocInv, Idle, Sound, Valued, Flags, Modes
<1>2. ~spoilt /\ Idle /\ Resting /\ Sound(cur)
  BY <1>1 DEF AssocInv
<1>3. DOMAIN Copied' = Valued
  BY DEF Copied
<1>4. CASE Cancel
  <2>1. \A a \in Valued : Copied'[a] = cur[a]
    BY <1>1, <1>4 DEF Copied, Cancel, NoRequest
  <2>2. request'.flags = {} /\ request' = NoRequest /\ wanted' = cur
    BY <1>4 DEF Cancel, NoRequest
  <2>3. Meets(Copied, wanted)'
    BY <1>2, <1>3, <2>1, <2>2 DEF Meets, Sound, Keyed, Resting, Compared, Valued, Flags
  <2> QED
    BY <1>1, <1>2, <2>2, <2>3 DEF Resting, Keyed, NoRequest
<1>5. CASE ~Cancel
  <2>1. /\ new.ok /\ request' = [flags |-> request.flags \cup new.flags, set |-> new.set]
        /\ assoc_work' = Postponed(assoc_work) /\ wanted' = newgoal.set
    BY <1>5 DEF Asked
  <2>2. /\ Meets(new.set, newgoal.set)
        /\ \A a \in Compared : new.set[a] # Copied[a] => a \in new.flags
    BY <1>2, <2>1 DEF Fits, Resting
  <2>3. \A a \in Compared : Copied'[a] = new.set[a]
    <3> SUFFICES ASSUME NEW a \in Compared PROVE Copied'[a] = new.set[a]
      OBVIOUS
    <3>1. a \in Valued
      BY DEF Compared, Valued, Flags
    <3>2. CASE a \in request'.flags
      BY <2>1, <3>1, <3>2 DEF Copied
    <3>3. CASE a \notin request'.flags
      BY <1>1, <2>1, <2>2, <3>1, <3>3 DEF Copied
    <3> QED
      BY <3>2, <3>3
  <2>4. Meets(Copied, wanted)'
    BY <1>3, <2>1, <2>2, <2>3 DEF Meets, Sound, Keyed, Compared
  <2>5. assoc_work' # "none" /\ Sound(new.set)
    BY <2>1, <2>2 DEF Postponed, Queued, Cancelled, Meets
  <2> QED
    BY <1>1, <1>2, <2>1, <2>3, <2>4, <2>5 DEF Resting, Keyed, Sound
<1> QED
  BY <1>2, <1>4, <1>5

(* What the settings do, from settings that meet what was asked for.       *)
LEMMA OneSet ==
    ASSUME NEW set, NEW goal, Meets(set, goal), NEW a \in Valued \ Compared, NEW x
    PROVE  Fits(set, goal, Given([set EXCEPT ![a] = x], {a}), Given([goal EXCEPT ![a] = x], {a}))
  BY DEF Fits, Given, Meets, Sound, Keyed, Compared, Valued, Flags

LEMMA ModeSet ==
    ASSUME NEW set, NEW goal, Meets(set, goal), NEW m \in Modes
    PROVE  Fits(set, goal, Given([set EXCEPT !.MODE = m], {"MODE"}),
                           Given([goal EXCEPT !.MODE = m], {"MODE"}))
  BY DEF Fits, Given, Meets, Sound, Keyed, Compared, Valued, Flags

LEMMA KeysDropped ==
    ASSUME NEW set, NEW goal, Meets(set, goal)
    PROVE  /\ Meets(DisableWep(set), DisableWep(goal))
           /\ ~DisableWep(set).SECINFO.wep
           /\ \A a \in Compared : DisableWep(set)[a] # set[a] => a \in {"SECINFO", "KEYS"}
  BY DEF DisableWep, NoKeys, Meets, Sound, Keyed, Compared, Valued, Flags

LEMMA SecuritySet ==
    ASSUME NEW set, NEW goal, Meets(set, goal), NEW sec,
           DOMAIN sec = {"wep", "wpa", "auth"}, sec.wep \in BOOLEAN, sec.wpa \in BOOLEAN,
           sec.wep => set.SECINFO.wep
    PROVE  /\ Meets([set EXCEPT !.SECINFO = sec], [goal EXCEPT !.SECINFO = sec])
           /\ \A a \in Compared : [set EXCEPT !.SECINFO = sec][a] # set[a] => a = "SECINFO"
  BY DEF Meets, Sound, Keyed, Compared, Valued, Flags

LEMMA SecurityFits ==
    ASSUME NEW set, NEW goal, Meets(set, goal), NEW sec,
           DOMAIN sec = {"wep", "wpa", "auth"}, sec.wep \in BOOLEAN, sec.wpa \in BOOLEAN,
           sec.wep => set.SECINFO.wep, NEW flags, "SECINFO" \in flags
    PROVE  Fits(set, goal, Given([set EXCEPT !.SECINFO = sec], flags),
                           Given([goal EXCEPT !.SECINFO = sec], flags))
  BY SecuritySet DEF Fits, Given

LEMMA DisableFits ==
    ASSUME NEW set, NEW goal, Meets(set, goal)
    PROVE  Fits(set, goal, Disable(set), Disable(goal))
<1>1. /\ Meets(DisableWep(set), DisableWep(goal))
      /\ \A a \in Compared : DisableWep(set)[a] # set[a] => a \in {"SECINFO", "KEYS"}
  BY KeysDropped
<1> DEFINE s == DisableWep(set)
           g == DisableWep(goal)
           sec == [s.SECINFO EXCEPT !.wpa = FALSE]
<1>2. s.SECINFO = g.SECINFO /\ DOMAIN s.SECINFO = {"wep", "wpa", "auth"}
      /\ s.SECINFO.wep \in BOOLEAN
  BY <1>1 DEF Meets, Sound, Compared
<1>3. DisableWpa(s) = [s EXCEPT !.SECINFO = sec] /\ DisableWpa(g) = [g EXCEPT !.SECINFO = sec]
  BY <1>2 DEF DisableWpa
<1>4. /\ Meets(DisableWpa(s), DisableWpa(g))
      /\ \A a \in Compared : DisableWpa(s)[a] # s[a] => a = "SECINFO"
  <2>1. DOMAIN sec = {"wep", "wpa", "auth"} /\ sec.wep \in BOOLEAN /\ sec.wpa \in BOOLEAN
        /\ (sec.wep => s.SECINFO.wep)
    BY <1>2
  <2> HIDE DEF s, g, sec
  <2> QED
    BY <1>1, <1>3, <2>1, SecuritySet DEF s, g
<1> QED
  BY <1>1, <1>4 DEF Fits, Disable, Given

WpaFlags(group) == {"SECINFO", "KEYS", IF group THEN "MCAST" ELSE "UCAST"}
WithWpa(set) == DisableWep([set EXCEPT !.SECINFO.wpa = TRUE])

LEMMA WpaFits ==
    ASSUME NEW set, NEW goal, Meets(set, goal), NEW group
    PROVE  Fits(set, goal, Given(WithWpa(set), WpaFlags(group)),
                           Given(WithWpa(goal), WpaFlags(group)))
<1> DEFINE sec == [set.SECINFO EXCEPT !.wpa = TRUE]
           s == [set EXCEPT !.SECINFO = sec]
           g == [goal EXCEPT !.SECINFO = sec]
<1>1. /\ set.SECINFO = goal.SECINFO
      /\ DOMAIN sec = {"wep", "wpa", "auth"} /\ sec.wep \in BOOLEAN /\ sec.wpa \in BOOLEAN
      /\ sec.wep => set.SECINFO.wep
  BY DEF Meets, Sound, Compared
<1>2. [set EXCEPT !.SECINFO.wpa = TRUE] = s /\ [goal EXCEPT !.SECINFO.wpa = TRUE] = g
  BY <1>1
<1>3. Meets(s, g) /\ \A a \in Compared : s[a] # set[a] => a = "SECINFO"
  <2> HIDE DEF sec
  <2> QED
    BY <1>1, SecuritySet
<1>4. /\ Meets(DisableWep(s), DisableWep(g))
      /\ \A a \in Compared : DisableWep(s)[a] # s[a] => a \in {"SECINFO", "KEYS"}
  <2> HIDE DEF s, g
  <2> QED
    BY <1>3, KeysDropped
<1>5. WithWpa(set) = DisableWep(s) /\ WithWpa(goal) = DisableWep(g)
  BY <1>2 DEF WithWpa
<1> HIDE DEF s, g
<1> QED
  BY <1>3, <1>4, <1>5 DEF Fits, Given, WpaFlags

LEMMA AuthFits ==
    ASSUME NEW set, NEW goal, Meets(set, goal),
           NEW what \in {"ignored", "wpa off", "wpa version", "wpa on", "open", "shared",
                         "leap", "bad algorithm"}
    PROVE  Fits(set, goal, AuthSetting(what, set), AuthSetting(what, goal))
<1>1. /\ set.SECINFO = goal.SECINFO /\ DOMAIN set.SECINFO = {"wep", "wpa", "auth"}
      /\ set.SECINFO.wep \in BOOLEAN /\ set.SECINFO.wpa \in BOOLEAN
  BY DEF Meets, Sound, Compared
<1>2. CASE what \in {"ignored", "bad algorithm"} \/ (what = "wpa on" /\ set.SECINFO.wpa)
  BY <1>1, <1>2 DEF Fits, AuthSetting, Given, Refused
<1>3. CASE what = "wpa version" \/ (what = "wpa on" /\ ~set.SECINFO.wpa)
  <2> DEFINE sec == [wep |-> FALSE, wpa |-> TRUE, auth |-> "open"]
  <2>1. DOMAIN sec = {"wep", "wpa", "auth"} /\ sec.wep = FALSE /\ sec.wpa = TRUE
    OBVIOUS
  <2>2. /\ AuthSetting(what, set) = Given([set EXCEPT !.SECINFO = sec], {"SECINFO"})
        /\ AuthSetting(what, goal) = Given([goal EXCEPT !.SECINFO = sec], {"SECINFO"})
    BY <1>1, <1>3 DEF AuthSetting, UseWpa
  <2> HIDE DEF sec
  <2>3. Fits(set, goal, Given([set EXCEPT !.SECINFO = sec], {"SECINFO"}),
                        Given([goal EXCEPT !.SECINFO = sec], {"SECINFO"}))
    BY <2>1, SecurityFits
  <2> QED
    BY <2>2, <2>3, Zenon
<1>4. CASE what = "wpa off"
  <2> DEFINE sec == [set.SECINFO EXCEPT !.wpa = FALSE]
  <2>1. DOMAIN sec = {"wep", "wpa", "auth"} /\ sec.wep \in BOOLEAN /\ sec.wpa \in BOOLEAN
        /\ (sec.wep => set.SECINFO.wep)
    BY <1>1
  <2>2. /\ AuthSetting(what, set) = Given([set EXCEPT !.SECINFO = sec], {"SECINFO", "UCAST", "MCAST"})
        /\ AuthSetting(what, goal) = Given([goal EXCEPT !.SECINFO = sec], {"SECINFO", "UCAST", "MCAST"})
    BY <1>1, <1>4 DEF AuthSetting, DisableWpa
  <2> HIDE DEF sec
  <2>3. Fits(set, goal, Given([set EXCEPT !.SECINFO = sec], {"SECINFO", "UCAST", "MCAST"}),
                        Given([goal EXCEPT !.SECINFO = sec], {"SECINFO", "UCAST", "MCAST"}))
    BY <2>1, SecurityFits
  <2> QED
    BY <2>2, <2>3, Zenon
<1>5. CASE what \in {"open", "shared", "leap"}
  <2> DEFINE sec == [set.SECINFO EXCEPT !.auth = what]
  <2>1. DOMAIN sec = {"wep", "wpa", "auth"} /\ sec.wep \in BOOLEAN /\ sec.wpa \in BOOLEAN
        /\ (sec.wep => set.SECINFO.wep)
    BY <1>1
  <2>2. /\ AuthSetting(what, set) = Given([set EXCEPT !.SECINFO = sec], {"SECINFO"})
        /\ AuthSetting(what, goal) = Given([goal EXCEPT !.SECINFO = sec], {"SECINFO"})
    BY <1>1, <1>5 DEF AuthSetting
  <2> HIDE DEF sec
  <2>3. Fits(set, goal, Given([set EXCEPT !.SECINFO = sec], {"SECINFO"}),
                        Given([goal EXCEPT !.SECINFO = sec], {"SECINFO"}))
    BY <2>1, SecurityFits
  <2> QED
    BY <2>2, <2>3, Zenon
<1> QED
  BY <1>2, <1>3, <1>4, <1>5

(* What lbs_set_wep_key makes of the settings, with the authentication.    *)
KeysOf(set, key, i) == IF key = NoKey THEN set.KEYS ELSE [set.KEYS EXCEPT ![i] = key]
TxOf(set, i, set_tx) == IF set_tx THEN i ELSE set.TX
SecOf(set, auth) ==
    IF auth # "same" THEN [set.SECINFO EXCEPT !.wep = TRUE, !.auth = auth]
    ELSE [set.SECINFO EXCEPT !.wep = TRUE]
WepFlags(given, set_tx) == given \cup {"SECINFO"} \cup (IF set_tx THEN {"TX"} ELSE {})

Keying(set, key, i, set_tx, auth) ==
    [set EXCEPT !.KEYS = KeysOf(set, key, i), !.SECINFO = SecOf(set, auth),
                !.TX = TxOf(set, i, set_tx)]

KeyRefused(set, key, i, set_tx) ==
    key = TooLong \/ (set_tx /\ KeysOf(set, key, i)[i] = NoKey)

LEMMA WepKeyGiven ==
    ASSUME NEW set, Sound(set), NEW key, NEW i, NEW set_tx, NEW given, NEW auth
    PROVE  LET new == WithAuth(SetWepKey(set, key, i, set_tx, given), auth)
           IN  IF KeyRefused(set, key, i, set_tx) THEN ~new.ok
               ELSE /\ new.set = Keying(set, key, i, set_tx, auth)
                    /\ new.flags = WepFlags(given, set_tx)
<1> DEFINE keys == KeysOf(set, key, i)
           tx == TxOf(set, i, set_tx)
           wep == [set.SECINFO EXCEPT !.wep = TRUE]
           flags == WepFlags(given, set_tx)
           s == Keying(set, key, i, set_tx, auth)
           m == [set EXCEPT !.KEYS = keys, !.SECINFO = wep, !.TX = tx]
           new == WithAuth(SetWepKey(set, key, i, set_tx, given), auth)
<1>1. CASE KeyRefused(set, key, i, set_tx)
  <2>1. SetWepKey(set, key, i, set_tx, given) = Refused(set)
    BY <1>1 DEF SetWepKey, KeyRefused, KeysOf
  <2> QED
    BY <1>1, <2>1 DEF WithAuth, Refused
<1>2. CASE ~KeyRefused(set, key, i, set_tx)
  <2>1. SetWepKey(set, key, i, set_tx, given) = Given(m, flags)
    BY <1>2 DEF SetWepKey, KeyRefused, KeysOf, TxOf, WepFlags, Sound, Valued, Flags
  <2>2. "SECINFO" \in DOMAIN m /\ m.SECINFO = wep
    BY DEF Sound, Valued, Flags
  <2>3. DOMAIN Given(m, flags) = {"ok", "set", "flags"} /\ Given(m, flags).set = m
        /\ Given(m, flags).flags = flags /\ Given(m, flags).ok
    BY DEF Given
  <2>4. CASE auth = "same"
    <3>1. new = Given(m, flags)
      BY <2>1, <2>4 DEF WithAuth
    <3>2. m = s
      BY <2>4 DEF Keying, SecOf
    <3> HIDE DEF m, s, new
    <3> QED
      BY <1>2, <2>3, <3>1, <3>2 DEF s, new
  <2>5. CASE auth # "same"
    <3>1. [m EXCEPT !.SECINFO.auth = auth] = s
      <4>1. [m EXCEPT !.SECINFO.auth = auth] = [m EXCEPT !.SECINFO = SecOf(set, auth)]
        BY <2>2, <2>5 DEF SecOf
      <4> QED
        BY <4>1 DEF Keying
    <3> HIDE DEF m, s, flags
    <3>2. new = [Given(m, flags) EXCEPT !.set.SECINFO.auth = auth]
      BY <2>1, <2>3, <2>5 DEF WithAuth
    <3>3. new.set = s /\ new.flags = flags
      BY <2>3, <3>1, <3>2
    <3> HIDE DEF new
    <3> QED
      BY <1>2, <3>3 DEF s, new, flags
  <2> QED
    BY <2>4, <2>5
<1> QED
  BY <1>1, <1>2

(* With a key to transmit with before, and none other made the one to      *)
(* transmit with unless it is set, there is one after.                     *)
LEMMA KeyingMeets ==
    ASSUME NEW set, NEW goal, Meets(set, goal), NEW key, NEW i \in KeyIdx,
           NEW set_tx \in BOOLEAN, ~set_tx => set.SECINFO.wep, NEW auth,
           ~KeyRefused(set, key, i, set_tx)
    PROVE  /\ Meets(Keying(set, key, i, set_tx, auth), Keying(goal, key, i, set_tx, auth))
           /\ \A a \in Compared : Keying(set, key, i, set_tx, auth)[a] # set[a] =>
                 \/ a = "SECINFO" \/ (a = "KEYS" /\ key # NoKey) \/ (a = "TX" /\ set_tx)
<1>1. /\ Sound(set) /\ Sound(goal) /\ Keyed(set)
      /\ set.KEYS = goal.KEYS /\ set.SECINFO = goal.SECINFO /\ set.TX = goal.TX
      /\ set.MODE = goal.MODE \/ goal.MODE = "auto"
  BY DEF Meets, Compared
<1> DEFINE keys == KeysOf(set, key, i)
           tx == TxOf(set, i, set_tx)
           sec == SecOf(set, auth)
<1>2. keys = KeysOf(goal, key, i) /\ tx = TxOf(goal, i, set_tx) /\ sec = SecOf(goal, auth)
  BY <1>1 DEF KeysOf, TxOf, SecOf
<1>3. /\ tx \in KeyIdx /\ DOMAIN keys = KeyIdx /\ DOMAIN sec = {"wep", "wpa", "auth"}
      /\ sec.wep = TRUE /\ sec.wpa \in BOOLEAN
      /\ keys # set.KEYS => key # NoKey
      /\ tx # set.TX => set_tx
  BY <1>1 DEF Sound, KeysOf, TxOf, SecOf
<1>4. keys[tx] # NoKey
  BY <1>1, <1>3 DEF Sound, Keyed, KeyRefused, KeysOf, TxOf
<1> HIDE DEF keys, tx, sec
<1>5. /\ Keying(set, key, i, set_tx, auth)
           = [set EXCEPT !.KEYS = keys, !.SECINFO = sec, !.TX = tx]
      /\ Keying(goal, key, i, set_tx, auth)
           = [goal EXCEPT !.KEYS = keys, !.SECINFO = sec, !.TX = tx]
  BY <1>2 DEF Keying, keys, tx, sec
<1> DEFINE s == Keying(set, key, i, set_tx, auth)
           g == Keying(goal, key, i, set_tx, auth)
<1>6. /\ DOMAIN s = Valued /\ s.KEYS = keys /\ s.SECINFO = sec /\ s.TX = tx
      /\ s.MODE = set.MODE
  BY <1>1, <1>5 DEF Sound, Valued, Flags
<1>7. /\ DOMAIN g = Valued /\ g.KEYS = keys /\ g.SECINFO = sec /\ g.TX = tx
      /\ g.MODE = goal.MODE
  BY <1>1, <1>5 DEF Sound, Valued, Flags
<1> HIDE DEF s, g
<1>8. Meets(s, g)
  BY <1>1, <1>3, <1>4, <1>6, <1>7 DEF Meets, Sound, Keyed, Compared
<1>9. \A a \in Compared : s[a] # set[a] =>
         \/ a = "SECINFO" \/ (a = "KEYS" /\ key # NoKey) \/ (a = "TX" /\ set_tx)
  BY <1>1, <1>3, <1>6 DEF Compared
<1> QED
  BY <1>8, <1>9 DEF s, g

LEMMA WepFits ==
    ASSUME NEW set, NEW goal, Meets(set, goal), NEW key, NEW i \in KeyIdx,
           NEW set_tx \in BOOLEAN, ~set_tx => set.SECINFO.wep, NEW given, NEW auth,
           key # NoKey => "KEYS" \in given
    PROVE  Fits(set, goal, WithAuth(SetWepKey(set, key, i, set_tx, given), auth),
                           WithAuth(SetWepKey(goal, key, i, set_tx, given), auth))
<1>1. Sound(set) /\ Sound(goal) /\ set.KEYS = goal.KEYS
  BY DEF Meets, Compared
<1>2. KeyRefused(set, key, i, set_tx) = KeyRefused(goal, key, i, set_tx)
  BY <1>1 DEF KeyRefused, KeysOf
<1>3. WepFlags(given, set_tx) = given \cup {"SECINFO"} \cup (IF set_tx THEN {"TX"} ELSE {})
  BY DEF WepFlags
<1> QED
  BY <1>1, <1>2, <1>3, WepKeyGiven, KeyingMeets DEF Fits

LEMMA SimpleIoctls ==
    ASSUME AssocInv, SetFreq \/ SetMode \/ SetEssid \/ SetWap \/ SetGenie PROVE AssocInv'
<1>1. CASE SetFreq
  <2>1. PICK c \in Channels \cup {0} :
           LET Setting(set) == IF c = 0 THEN Refused(set) ELSE Given([set EXCEPT !.CHANNEL = c], {"CHANNEL"})
           IN  Ask(Setting)
    BY <1>1 DEF SetFreq
  <2>2. PICK new, newgoal : /\ new = IF c = 0 THEN Refused(Copied) ELSE Given([Copied EXCEPT !.CHANNEL = c], {"CHANNEL"})
                            /\ newgoal = IF c = 0 THEN Refused(wanted) ELSE Given([wanted EXCEPT !.CHANNEL = c], {"CHANNEL"})
    OBVIOUS
  <2>3. Asked(new, newgoal)
    BY <2>1, <2>2 DEF Ask, Asked
  <2>4. Meets(Copied, wanted) => Fits(Copied, wanted, new, newgoal)
    <3>1. CASE c = 0
      BY <2>2, <3>1 DEF Fits, Refused
    <3>2. CASE c # 0
      BY <2>2, <3>2, OneSet DEF Valued, Flags, Compared
    <3> QED
      BY <3>1, <3>2
  <2> QED
    BY <2>3, <2>4, AskedKeeps
<1>2. CASE SetMode
  <2>1. PICK m \in Modes :
           LET Setting(set) == Given([set EXCEPT !.MODE = m], {"MODE"})
           IN  Ask(Setting)
    BY <1>2 DEF SetMode
  <2>2. PICK new, newgoal : /\ new = Given([Copied EXCEPT !.MODE = m], {"MODE"})
                            /\ newgoal = Given([wanted EXCEPT !.MODE = m], {"MODE"})
    OBVIOUS
  <2>3. Asked(new, newgoal)
    BY <2>1, <2>2 DEF Ask, Asked
  <2>4. Meets(Copied, wanted) => Fits(Copied, wanted, new, newgoal)
    BY <2>2, ModeSet
  <2> QED
    BY <2>3, <2>4, AskedKeeps
<1>3. CASE SetEssid
  <2>1. PICK x \in Ssids \cup {AnySsid, TooLong} :
           LET Setting(set) == IF x = TooLong THEN Refused(set) ELSE Given([set EXCEPT !.SSID = x], {"SSID"})
           IN  Ask(Setting)
    BY <1>3 DEF SetEssid
  <2>2. PICK new, newgoal : /\ new = IF x = TooLong THEN Refused(Copied) ELSE Given([Copied EXCEPT !.SSID = x], {"SSID"})
                            /\ newgoal = IF x = TooLong THEN Refused(wanted) ELSE Given([wanted EXCEPT !.SSID = x], {"SSID"})
    OBVIOUS
  <2>3. Asked(new, newgoal)
    BY <2>1, <2>2 DEF Ask, Asked
  <2>4. Meets(Copied, wanted) => Fits(Copied, wanted, new, newgoal)
    <3>1. CASE x = TooLong
      BY <2>2, <3>1 DEF Fits, Refused
    <3>2. CASE x # TooLong
      BY <2>2, <3>2, OneSet DEF Valued, Flags, Compared
    <3> QED
      BY <3>1, <3>2
  <2> QED
    BY <2>3, <2>4, AskedKeeps
<1>4. CASE SetWap
  <2>1. PICK b \in Bssids \cup {NoBssid} :
           LET Setting(set) == Given([set EXCEPT !.BSSID = b], {"BSSID"})
           IN  Ask(Setting)
    BY <1>4 DEF SetWap
  <2>2. PICK new, newgoal : /\ new = Given([Copied EXCEPT !.BSSID = b], {"BSSID"})
                            /\ newgoal = Given([wanted EXCEPT !.BSSID = b], {"BSSID"})
    OBVIOUS
  <2>3. Asked(new, newgoal)
    BY <2>1, <2>2 DEF Ask, Asked
  <2>4. Meets(Copied, wanted) => Fits(Copied, wanted, new, newgoal)
    BY <2>2, OneSet DEF Valued, Flags, Compared
  <2> QED
    BY <2>3, <2>4, AskedKeeps
<1>5. CASE SetGenie
  <2>1. PICK ie \in {"none", "ie", TooLong} :
           LET Setting(set) == IF ie = TooLong THEN Refused(set) ELSE Given([set EXCEPT !.IE = ie], {"IE"})
           IN  Ask(Setting)
    BY <1>5 DEF SetGenie
  <2>2. PICK new, newgoal : /\ new = IF ie = TooLong THEN Refused(Copied) ELSE Given([Copied EXCEPT !.IE = ie], {"IE"})
                            /\ newgoal = IF ie = TooLong THEN Refused(wanted) ELSE Given([wanted EXCEPT !.IE = ie], {"IE"})
    OBVIOUS
  <2>3. Asked(new, newgoal)
    BY <2>1, <2>2 DEF Ask, Asked
  <2>4. Meets(Copied, wanted) => Fits(Copied, wanted, new, newgoal)
    <3>1. CASE ie = TooLong
      BY <2>2, <3>1 DEF Fits, Refused
    <3>2. CASE ie # TooLong
      BY <2>2, <3>2, OneSet DEF Valued, Flags, Compared
    <3> QED
      BY <3>1, <3>2
  <2> QED
    BY <2>3, <2>4, AskedKeeps
<1> QED
  BY <1>1, <1>2, <1>3, <1>4, <1>5

LEMMA Indexed ==
    ASSUME AssocAssumption, NEW set, Sound(set), NEW i \in Indices, ~(i > Cardinality(KeyIdx))
    PROVE  Index(set, i) \in KeyIdx
<1>1. i # Cardinality(KeyIdx) + 1
  BY DEF AssocAssumption
<1> QED
  BY <1>1 DEF Index, Indices, Sound

WepSetting(set, key, i, forced, given, auth) ==
    IF i > Cardinality(KeyIdx) THEN Refused(set)
    ELSE WithAuth(SetWepKey(set, key, Index(set, i), ~set.SECINFO.wep \/ forced, given), auth)

LEMMA WepAsked ==
    ASSUME AssocInv, AssocAssumption, NEW key, NEW i \in Indices, NEW forced \in BOOLEAN,
           NEW given, key # NoKey => "KEYS" \in given, NEW auth,
           Asked(WepSetting(Copied, key, i, forced, given, auth),
                 WepSetting(wanted, key, i, forced, given, auth))
    PROVE  AssocInv'
<1> DEFINE new == WepSetting(Copied, key, i, forced, given, auth)
           newgoal == WepSetting(wanted, key, i, forced, given, auth)
<1>1. ASSUME Meets(Copied, wanted) PROVE Fits(Copied, wanted, new, newgoal)
  <2>1. /\ Sound(Copied) /\ Sound(wanted) /\ Copied.SECINFO = wanted.SECINFO
        /\ Copied.TX = wanted.TX
    BY <1>1 DEF Meets, Compared
  <2>2. CASE i > Cardinality(KeyIdx)
    BY <2>2 DEF Fits, Refused, WepSetting
  <2>3. CASE ~(i > Cardinality(KeyIdx))
    <3>1. Index(Copied, i) \in KeyIdx /\ Index(wanted, i) = Index(Copied, i)
      BY <2>1, <2>3, Indexed DEF Index
    <3>2. PICK set_tx \in BOOLEAN : set_tx = (~Copied.SECINFO.wep \/ forced)
      BY <2>1 DEF Sound
    <3>3. /\ new = WithAuth(SetWepKey(Copied, key, Index(Copied, i), set_tx, given), auth)
          /\ newgoal = WithAuth(SetWepKey(wanted, key, Index(Copied, i), set_tx, given), auth)
      BY <2>1, <2>3, <3>1, <3>2 DEF WepSetting
    <3> HIDE DEF new, newgoal
    <3> QED
      BY <1>1, <3>1, <3>2, <3>3, WepFits
  <2> QED
    BY <2>2, <2>3
<1> HIDE DEF new, newgoal
<1> QED
  BY <1>1, AskedKeeps DEF new, newgoal

LEMMA KeyIoctls ==
    ASSUME AssocInv, AssocAssumption, SetEncode \/ SetEncodeExt PROVE AssocInv'
<1>1. CASE Ask(Disable)
  <2>1. Asked(Disable(Copied), Disable(wanted))
    BY <1>1 DEF Ask, Asked
  <2> QED
    BY <2>1, DisableFits, AskedKeeps
<1>2. CASE SetEncode /\ ~Ask(Disable)
  <2>1. PICK key \in WepKeys \cup {NoKey, TooLong}, i \in Indices,
             auth \in {"same", "open", "shared"} :
             LET Setting(set) ==
                  IF i > Cardinality(KeyIdx) THEN Refused(set)
                  ELSE WithAuth(SetWepKey(set, key, Index(set, i),
                                    ~set.SECINFO.wep \/ (key = NoKey /\ i # 0),
                                    IF key = NoKey THEN {} ELSE {"KEYS"}), auth)
             IN  Ask(Setting)
    BY <1>2 DEF SetEncode
  <2>2. PICK forced \in BOOLEAN, given \in SUBSET {"KEYS"} :
           /\ forced = (key = NoKey /\ i # 0)
           /\ given = IF key = NoKey THEN {} ELSE {"KEYS"}
    OBVIOUS
  <2>3. Asked(WepSetting(Copied, key, i, forced, given, auth),
              WepSetting(wanted, key, i, forced, given, auth))
    BY <2>1, <2>2 DEF Ask, Asked, WepSetting
  <2> QED
    BY <2>2, <2>3, WepAsked
<1>3. ASSUME NEW key, NEW i \in Indices, NEW tx \in BOOLEAN, NEW auth,
             WepExt(key, i, tx, auth)
      PROVE  AssocInv'
  <2>1. Asked(WepSetting(Copied, key, i, tx, {"KEYS"}, auth),
              WepSetting(wanted, key, i, tx, {"KEYS"}, auth))
    BY <1>3 DEF WepExt, Ask, Asked, WepSetting
  <2> QED
    BY <2>1, WepAsked
<1>4. ASSUME NEW length_ok \in BOOLEAN, NEW group \in BOOLEAN, WpaExt(length_ok, group)
      PROVE  AssocInv'
  <2> DEFINE Setting(set) == IF ~length_ok THEN Refused(set)
                             ELSE Given(WithWpa(set), WpaFlags(group))
  <2>1. PICK new, newgoal : new = Setting(Copied) /\ newgoal = Setting(wanted)
    OBVIOUS
  <2>2. Asked(new, newgoal)
    BY <1>4, <2>1 DEF WpaExt, Ask, Asked, WithWpa, WpaFlags
  <2>3. ASSUME Meets(Copied, wanted) PROVE Fits(Copied, wanted, new, newgoal)
    <3>1. CASE ~length_ok
      BY <2>1, <3>1 DEF Fits, Refused
    <3>2. CASE length_ok
      BY <2>1, <2>3, <3>2, WpaFits
    <3> QED
      BY <3>1, <3>2
  <2> HIDE DEF Setting
  <2> QED
    BY <2>2, <2>3, AskedKeeps
<1>5. CASE SetEncodeExt
  BY <1>1, <1>3, <1>4, <1>5 DEF SetEncodeExt
<1> QED
  BY <1>1, <1>2, <1>5

LEMMA AuthIoctl == ASSUME AssocInv, SetAuth PROVE AssocInv'
<1>1. PICK what \in {"ignored", "wpa off", "wpa version", "wpa on", "open", "shared",
                     "leap", "bad algorithm"} :
         LET Setting(set) == AuthSetting(what, set)
         IN  Ask(Setting)
  BY DEF SetAuth
<1>2. PICK new, newgoal : new = AuthSetting(what, Copied) /\ newgoal = AuthSetting(what, wanted)
  OBVIOUS
<1>3. Asked(new, newgoal)
  BY <1>1, <1>2 DEF Ask, Asked
<1>4. Meets(Copied, wanted) => Fits(Copied, wanted, new, newgoal)
  BY <1>2, AuthFits
<1> QED
  BY <1>3, <1>4, AskedKeeps

(* What else happens between and during jobs.                              *)
LEMMA UnknownAuth == ASSUME AssocInv, SetAuthUnknown PROVE AssocInv'
<1>1. /\ UNCHANGED <<cur, connected, rsn, assoc_work, stage, job, wanted, spoilt>>
      /\ request' = [request EXCEPT !.set = Copied]
  BY DEF SetAuthUnknown, workVars
<1> SUFFICES ASSUME ~spoilt PROVE (Idle => Resting') /\ (~Idle => Working')
  BY <1>1 DEF AssocInv, Idle, Sound, Valued, Flags, Modes
<1>2. /\ Copied' = Copied /\ request'.flags = request.flags
      /\ request' # NoRequest => request'.set = Copied
  BY <1>1 DEF Copied
<1>3. Idle => Resting'
  BY <1>1, <1>2 DEF AssocInv, Resting, Keyed, Meets, Sound
<1>4. ~Idle => Working'
  BY <1>1, <1>2 DEF AssocInv, Working, Meets, Sound, Keyed, Ahead, KeptBy
<1> QED
  BY <1>3, <1>4

LEMMA LinkSteps == ASSUME AssocInv, MeshSetFreq \/ LinkLost \/ AssocTimer PROVE AssocInv'
<1>1. /\ UNCHANGED <<rsn, request, stage, job, wanted, spoilt>>
      /\ assoc_work' = assoc_work \/ (assoc_work = "timer" /\ assoc_work' = "queued")
      /\ connected' \in {connected, FALSE}
  BY DEF MeshSetFreq, LinkLost, AssocTimer, Disconnected, workVars, histVars
<1>2. ASSUME Sound(cur)
      PROVE  Sound(cur)' /\ \A a \in Compared : cur'[a] = cur[a]
  <2>1. CASE AssocTimer
    BY <1>2, <2>1 DEF AssocTimer, Sound, Valued, Flags, Modes
  <2>2. CASE LinkLost
    BY <1>2, <2>2 DEF LinkLost, Disconnected, Sound, Compared, Valued, Flags, Modes
  <2>3. CASE MeshSetFreq
    <3>1. PICK c, x, y : \/ cur' = [cur EXCEPT !.SSID = x, !.BSSID = y, !.CHANNEL = c]
                         \/ cur' = [cur EXCEPT !.CHANNEL = c]
      BY <2>3 DEF MeshSetFreq
    <3>2. CASE cur' = [cur EXCEPT !.CHANNEL = c]
      BY <1>2, <3>2 DEF Sound, Compared, Valued, Flags, Modes
    <3>3. CASE cur' = [cur EXCEPT !.SSID = x, !.BSSID = y, !.CHANNEL = c]
      BY <1>2, <3>3 DEF Sound, Compared, Valued, Flags, Modes
    <3> QED
      BY <3>1, <3>2, <3>3
  <2> QED
    BY <2>1, <2>2, <2>3
<1> SUFFICES ASSUME ~spoilt
             PROVE  /\ rsn = cur'.SECINFO.wpa /\ connected' \in BOOLEAN
                    /\ connected' => cur'.MODE # "auto"
                    /\ Idle => Resting'
                    /\ ~Idle => Working'
  BY <1>1, <1>2 DEF AssocInv, Idle
<1>3. cur'.MODE = cur.MODE /\ cur'.SECINFO = cur.SECINFO /\ cur'.KEYS = cur.KEYS
      /\ cur'.TX = cur.TX /\ Sound(cur)
  BY <1>2 DEF AssocInv, Compared
<1>4. connected \in BOOLEAN /\ rsn = cur.SECINFO.wpa /\ (connected => cur.MODE # "auto")
  BY DEF AssocInv
<1>5. Idle => Resting'
  <2> SUFFICES ASSUME Idle PROVE Resting'
    OBVIOUS
  <2>1. \A a \in Compared : Copied'[a] = Copied[a]
    BY <1>1, <1>2, <1>3 DEF Copied, Compared, Valued, Flags
  <2>2. DOMAIN Copied' = Valued
    BY DEF Copied
  <2>3. Meets(Copied, wanted)'
    BY <1>1, <2>1, <2>2 DEF AssocInv, Resting, Meets, Sound, Keyed, Compared
  <2> QED
    BY <1>1, <1>3, <2>1, <2>3 DEF AssocInv, Resting, Keyed, Sound
<1>6. ~Idle => Working'
  BY <1>1, <1>2, <1>3 DEF AssocInv, Working, Meets, Sound, Keyed, Ahead, KeptBy
<1>7. connected' \in BOOLEAN /\ (connected' => cur.MODE # "auto")
  <2>1. CASE connected' = FALSE
    BY <2>1
  <2>2. CASE connected' = connected
    BY <1>4, <2>2
  <2> QED
    BY <1>1, <2>1, <2>2
<1> QED
  BY <1>3, <1>4, <1>5, <1>6, <1>7

LEMMA TakeStep == ASSUME AssocInv, Take PROVE AssocInv'
<1>1. /\ UNCHANGED <<cur, connected, rsn, wanted, spoilt>>
      /\ Idle /\ assoc_work = "queued" /\ assoc_work' = "none" /\ request' = NoRequest
      /\ job' = request /\ stage' = IF request = NoRequest THEN "idle" ELSE "choose"
  BY DEF Take, histVars
<1> SUFFICES ASSUME ~spoilt PROVE (Idle' => Resting') /\ (~Idle' => Working')
  BY <1>1 DEF AssocInv, Sound, Valued, Flags, Modes, NoRequest
<1>2. Resting /\ Sound(cur)
  BY <1>1 DEF AssocInv
<1>3. CASE request = NoRequest
  <2>1. Copied' = Copied /\ request' = request
    BY <1>1, <1>3 DEF Copied
  <2> QED
    BY <1>1, <1>2, <1>3, <2>1 DEF Idle, Resting, Keyed, Meets, Sound, NoRequest
<1>4. CASE request # NoRequest
  <2>1. Sound(job'.set) /\ \A a \in Compared : job'.set[a] = Copied[a]
    BY <1>1, <1>2, <1>4 DEF Resting
  <2>2. \A a \in Compared : cur[a] = job'.set[a] \/ a \in job'.flags
    BY <1>1, <2>1 DEF Copied, Compared, Valued, Flags
  <2>3. Meets(job.set, wanted)'
    BY <1>1, <1>2, <2>1 DEF Resting, Meets, Sound, Keyed, Compared
  <2>4. stage' = "choose" /\ stage' \notin DOMAIN CalledFor
    BY <1>1, <1>4 DEF CalledFor
  <2> QED
    BY <1>1, <2>2, <2>3, <2>4 DEF Idle, Working, Ahead, NoRequest
<1> QED
  BY <1>3, <1>4

(* The steps of a job, in their order.                                     *)
LEMMA FirstDue ==
    ASSUME NEW due \in SUBSET (1..7), due # {}
    PROVE  \E i \in due : \A j \in due : i <= j
<1>1. CASE 1 \in due
  BY <1>1
<1>2. CASE 1 \notin due /\ 2 \in due
  BY <1>2
<1>3. CASE 1 \notin due /\ 2 \notin due /\ 3 \in due
  BY <1>3
<1>4. CASE 1 \notin due /\ 2 \notin due /\ 3 \notin due /\ 4 \in due
  BY <1>4
<1>5. CASE due \cap (1..4) = {} /\ 5 \in due
  BY <1>5
<1>6. CASE due \cap (1..5) = {} /\ 6 \in due
  BY <1>6
<1>7. CASE due \cap (1..6) = {}
  <2>1. \A j \in due : j = 7
    <3> SUFFICES ASSUME NEW j \in due PROVE j = 7
      OBVIOUS
    <3>1. j \in 1..7 /\ j \notin 1..6
      BY <1>7
    <3> QED
      BY <3>1
  <2>2. 7 \in due
    BY <2>1
  <2>3. \A j \in due : 7 <= j
    BY <2>1
  <2> QED
    BY <2>2, <2>3
<1> QED
  BY <1>1, <1>2, <1>3, <1>4, <1>5, <1>6, <1>7

LEMMA StepAfterIs ==
    ASSUME NEW done \in 0..7, NEW flags
    PROVE  \/ /\ StepAfter(done, flags) = "idle"
              /\ \A i \in 1..7 : i > done => CalledFor[Steps[i]] \cap flags = {}
           \/ \E i \in 1..7 :
                 /\ i > done /\ StepAfter(done, flags) = Steps[i]
                 /\ CalledFor[Steps[i]] \cap flags # {}
                 /\ \A j \in 1..7 : done < j /\ j < i => CalledFor[Steps[j]] \cap flags = {}
<1> DEFINE due == {i \in 1..Len(Steps) : i > done /\ CalledFor[Steps[i]] \cap flags # {}}
<1>1. Len(Steps) = 7
  BY DEF Steps
<1>2. StepAfter(done, flags)
      = IF due = {} THEN "idle" ELSE Steps[CHOOSE i \in due : \A j \in due : i <= j]
  BY DEF StepAfter
<1>3. CASE due = {}
  BY <1>1, <1>2, <1>3
<1>4. CASE due # {}
  <2>1. due \in SUBSET (1..7)
    BY <1>1
  <2> DEFINE first == CHOOSE i \in due : \A j \in due : i <= j
  <2>2. first \in due /\ \A j \in due : first <= j
    <3> HIDE DEF due
    <3> QED
      BY <1>4, <2>1, FirstDue
  <2>3. StepAfter(done, flags) = Steps[first]
    BY <1>2, <1>4
  <2> HIDE DEF first
  <2>4. \A j \in 1..7 : done < j /\ j < first => CalledFor[Steps[j]] \cap flags = {}
    BY <1>1, <2>1, <2>2
  <2> QED
    BY <1>1, <2>2, <2>3, <2>4
<1> QED
  BY <1>3, <1>4

(* A step that is over leaves nothing of its own to do.                    *)
LEMMA StepOver ==
    ASSUME NEW done \in 0..7, NEW work, GoOn(done, work), ~spoilt',
           assoc_work = "none", request.flags = {}, Meets(work.set, wanted),
           DOMAIN request = {"flags", "set"}, DOMAIN work = {"flags", "set"},
           Sound(cur)', rsn' = cur'.SECINFO.wpa, connected' \in BOOLEAN, spoilt' \in BOOLEAN,
           connected' => cur'.MODE # "auto",
           connected' /\ done # 7 => KeptBy(work),
           \A a \in Compared : cur'[a] = work.set[a] \/ (a \in work.flags /\ StepOf[a] > done)
    PROVE  AssocInv'
<1>1. /\ UNCHANGED <<request, assoc_work, wanted>>
      /\ stage' = StepAfter(done, work.flags)
      /\ stage' # "idle" => job' = work
      /\ DOMAIN job' = {"flags", "set"}
  BY DEF GoOn, NoRequest
<1>2. \A a \in Compared : /\ StepOf[a] \in 1..7 /\ a \in CalledFor[Steps[StepOf[a]]]
  BY DEF Compared, StepOf, CalledFor, Steps
<1>3. \A i \in 1..7 : Steps[i] \in DOMAIN CalledFor /\ Steps[i] # "idle"
  BY DEF Steps, CalledFor
<1>4. CASE /\ stage' = "idle"
           /\ \A i \in 1..7 : i > done => CalledFor[Steps[i]] \cap work.flags = {}
  <2>1. \A a \in Compared : cur'[a] = work.set[a]
    BY <1>2, <1>4
  <2>2. \A a \in Compared : Copied'[a] = cur'[a]
    BY <1>1 DEF Copied, Compared, Valued, Flags
  <2>3. DOMAIN Copied' = Valued
    BY DEF Copied
  <2>4. Meets(Copied, wanted)' /\ Keyed(cur)'
    BY <1>1, <2>1, <2>2, <2>3 DEF Meets, Sound, Keyed, Compared
  <2> QED
    BY <1>1, <1>4, <2>4 DEF AssocInv, Resting, Idle
<1>5. ASSUME NEW i \in 1..7, i > done, stage' = Steps[i],
             CalledFor[Steps[i]] \cap work.flags # {},
             \A j \in 1..7 : done < j /\ j < i => CalledFor[Steps[j]] \cap work.flags = {}
      PROVE  AssocInv'
  <2>1. stage' \in DOMAIN CalledFor /\ stage' # "idle" /\ job' = work
    BY <1>1, <1>3, <1>5
  <2>2. ASSUME NEW a \in Compared PROVE cur'[a] = job'.set[a] \/ (a \in job'.flags /\ Ahead(a)')
    <3>1. CASE cur'[a] = work.set[a]
      BY <2>1, <3>1
    <3>2. CASE a \in work.flags /\ StepOf[a] > done
      <4>1. StepOf[a] >= i
        BY <1>2, <1>5, <3>2
      <4> QED
        BY <1>2, <1>5, <2>1, <3>2, <4>1 DEF Ahead
    <3> QED
      BY <3>1, <3>2
  <2>3. Meets(job.set, wanted)'
    BY <1>1, <2>1 DEF Meets, Sound, Keyed
  <2>4. KeptBy(job)' = KeptBy(work)
    BY <2>1 DEF KeptBy
  <2>5. done # 7
    BY <1>5
  <2>6. Working'
    BY <1>1, <1>5, <2>1, <2>2, <2>3, <2>4, <2>5 DEF Working
  <2> QED
    BY <1>1, <2>1, <2>6 DEF AssocInv, Idle
<1> QED
  BY <1>1, <1>4, <1>5, StepAfterIs

(* The steps, each with StepOver's conditions.                             *)
LEMMA JobSteps ==
    ASSUME AssocInv, AssocAssumption, AssocStep, ~spoilt'
    PROVE  AssocInv'
<1>1. /\ stage # "idle" /\ ~spoilt
      /\ stage \in {"choose", "leave", "mode", "channel", "wep", "secinfo", "genie", "wpa",
                    "associate"}
  BY DEF AssocStep, Choose, Leave, Mode, Channel, WepKeysSent, SecInfo, Genie, WpaKeysSent,
     AssociateStep, GiveUp, GoOn, AssocInv
<1>2. /\ Working /\ Sound(cur) /\ rsn = cur.SECINFO.wpa /\ connected \in BOOLEAN
      /\ connected => cur.MODE # "auto"
      /\ DOMAIN request = {"flags", "set"} /\ DOMAIN job = {"flags", "set"}
  BY <1>1 DEF AssocInv, Idle
<1>3. /\ Meets(job.set, wanted) /\ Sound(job.set) /\ assoc_work = "none" /\ request.flags = {}
      /\ \A a \in Compared : cur[a] = job.set[a] \/ (a \in job.flags /\ Ahead(a))
  BY <1>2 DEF Working, Meets
<1>4. StepOf["MODE"] = 1 /\ StepOf["KEYS"] = 3 /\ StepOf["TX"] = 3 /\ StepOf["SECINFO"] = 4
  BY DEF StepOf
<1>5. CASE Choose
  <2>1. UNCHANGED <<cur, connected, rsn, request, assoc_work, wanted>>
    BY <1>5 DEF Choose, GiveUp
  <2>2. stage = "choose" /\ stage' = "leave" /\ spoilt' = spoilt
    BY <1>5, <1>1 DEF Choose, GiveUp
  <2>3. /\ DOMAIN job' = {"flags", "set"} /\ Sound(job'.set) /\ Meets(job'.set, wanted)
        /\ \A a \in Compared : job'.set[a] = job.set[a] \/ (a = "MODE" /\ a \in job'.flags)
        /\ \A a \in job.flags : a \in job'.flags
    <3>1. CASE job' = job
      BY <1>2, <1>3, <3>1
    <3>2. ASSUME NEW n \in Nets, job.set.MODE = "auto",
                 job' = [flags |-> job.flags \cup {"MODE"},
                         set |-> [job.set EXCEPT !.SSID = n.ssid, !.MODE = n.mode]]
          PROVE  /\ DOMAIN job' = {"flags", "set"}
                 /\ Sound(job'.set) /\ Meets(job'.set, wanted)
                 /\ \A a \in Compared :
                       job'.set[a] = job.set[a] \/ (a = "MODE" /\ a \in job'.flags)
                 /\ \A a \in job.flags : a \in job'.flags
      BY <1>2, <1>3, <3>2 DEF AssocAssumption, Meets, Sound, Keyed, Compared, Valued, Flags, Modes
    <3>3. ASSUME NEW n \in Nets, job' = [job EXCEPT !.set.SSID = n.ssid]
          PROVE  /\ DOMAIN job' = {"flags", "set"}
                 /\ Sound(job'.set) /\ Meets(job'.set, wanted)
                 /\ \A a \in Compared :
                       job'.set[a] = job.set[a] \/ (a = "MODE" /\ a \in job'.flags)
                 /\ \A a \in job.flags : a \in job'.flags
      BY <1>2, <1>3, <3>3 DEF Meets, Sound, Keyed, Compared, Valued, Flags, Modes
    <3> QED
      BY <1>5, <1>1, <3>1, <3>2, <3>3 DEF Choose, GiveUp
  <2>4. \A a \in Compared : cur'[a] = job'.set[a] \/ (a \in job'.flags /\ Ahead(a)')
    BY <1>3, <2>1, <2>2, <2>3 DEF Ahead
  <2>5. Working'
    BY <1>3, <2>1, <2>2, <2>3, <2>4 DEF Working, Meets, Sound, Keyed, CalledFor
  <2> QED
    BY <1>1, <1>2, <2>1, <2>2, <2>3, <2>5 DEF AssocInv, Idle, Sound
<1>6. CASE Leave
  <2>1. /\ stage = "leave" /\ GoOn(0, job) /\ rsn' = rsn
        /\ cur' \in {cur, [cur EXCEPT !.SSID = AnySsid, !.BSSID = NoBssid]}
        /\ connected' \in {connected, FALSE} /\ (spoilt' = spoilt \/ spoilt' = connected')
    BY <1>1, <1>6 DEF Leave, Disconnected, AssocInv
  <2>2. Sound(cur)' /\ \A a \in Compared : cur'[a] = cur[a]
    <3>1. CASE cur' = cur
      BY <1>2, <3>1 DEF Sound, Valued, Flags, Modes
    <3>2. CASE cur' = [cur EXCEPT !.SSID = AnySsid, !.BSSID = NoBssid]
      BY <1>2, <3>2 DEF Sound, Compared, Valued, Flags, Modes
    <3> QED
      BY <2>1, <3>1, <3>2
  <2>3. rsn' = cur'.SECINFO.wpa /\ cur'.MODE = cur.MODE
    BY <1>2, <2>1, <2>2 DEF Compared
  <2>4. connected' => connected /\ cur' = cur
    BY <1>1, <1>2, <1>6 DEF Leave, Disconnected, AssocInv
  <2>5. ASSUME connected' PROVE KeptBy(job)
    <3>1. ~(cur.MODE = "infra" /\ ShouldDeauthInfrastructure)
          /\ ~(cur.MODE = "adhoc" /\ ShouldStopAdhoc)
      BY <1>1, <1>6, <2>5 DEF Leave
    <3>2. job.set.MODE = cur.MODE \/ "MODE" \in job.flags
      BY <1>3 DEF Compared
    <3>3. cur.MODE \in {"infra", "adhoc"} /\ connected
      BY <1>2, <2>4, <2>5 DEF Sound, Modes
    <3> QED
      BY <3>1, <3>2, <3>3 DEF KeptBy, ShouldDeauthInfrastructure, ShouldStopAdhoc
  <2>6. connected' \in BOOLEAN /\ spoilt' \in BOOLEAN
    BY <1>2, <2>1 DEF AssocInv
  <2>7. \A a \in Compared : cur'[a] = job.set[a] \/ (a \in job.flags /\ StepOf[a] > 0)
    BY <1>3, <1>4, <2>2 DEF Compared
  <2> QED
    BY <1>2, <1>3, <2>1, <2>2, <2>3, <2>4, <2>5, <2>6, <2>7, StepOver
<1>7. CASE Mode
  <2>1. /\ stage = "mode" /\ GoOn(1, job) /\ UNCHANGED <<connected, rsn, spoilt>>
        /\ cur' = [cur EXCEPT !.MODE = job.set.MODE]
    BY <1>1, <1>7 DEF Mode, GiveUp
  <2>2. /\ Sound(cur)' /\ cur'.MODE = job.set.MODE
        /\ \A a \in Compared \ {"MODE"} : cur'[a] = cur[a]
    BY <1>2, <1>3, <2>1 DEF Sound, Compared, Valued, Flags, Modes
  <2>3. connected' => KeptBy(job)
    BY <1>2, <2>1 DEF Working, CalledFor
  <2>4. connected' => cur'.MODE # "auto"
    BY <2>2, <2>3 DEF KeptBy
  <2>5. rsn' = cur'.SECINFO.wpa
    BY <1>2, <2>1, <2>2 DEF Compared
  <2>6. \A a \in Compared : cur'[a] = job.set[a] \/ (a \in job.flags /\ StepOf[a] > 1)
    BY <1>3, <1>4, <2>2 DEF Compared
  <2> QED
    BY <1>1, <1>2, <1>3, <2>1, <2>2, <2>3, <2>4, <2>5, <2>6, StepOver DEF AssocInv
<1>8. CASE Channel
  <2>1. PICK work : /\ GoOn(2, work) /\ work.set = job.set /\ DOMAIN work = {"flags", "set"}
                    /\ \A f \in job.flags : f \in work.flags
                    /\ cur' \in {cur, [cur EXCEPT !.CHANNEL = job.set.CHANNEL]}
                    /\ stage = "channel" /\ UNCHANGED <<connected, rsn, spoilt>>
    BY <1>1, <1>2, <1>8 DEF Channel, ChannelChanged, GiveUp
  <2>2. Sound(cur)' /\ \A a \in Compared : cur'[a] = cur[a]
    BY <1>2, <2>1 DEF Sound, Compared, Valued, Flags, Modes
  <2>3. rsn' = cur'.SECINFO.wpa /\ cur'.MODE = cur.MODE
    BY <1>2, <2>1, <2>2 DEF Compared
  <2>4. connected' => KeptBy(work)
    <3>1. connected => KeptBy(job) /\ "CHANNEL" \in job.flags
      BY <1>2, <2>1 DEF Working, CalledFor
    <3> QED
      BY <2>1, <3>1 DEF KeptBy
  <2>5. \A a \in Compared : cur'[a] = work.set[a] \/ (a \in work.flags /\ StepOf[a] > 2)
    <3>1. \A a \in Compared : Ahead(a) => StepOf[a] > 2
      BY <1>4, <2>1 DEF Ahead, Compared, Steps
    <3> QED
      BY <1>3, <2>1, <2>2, <3>1
  <2> QED
    BY <1>1, <1>2, <1>3, <2>1, <2>2, <2>3, <2>4, <2>5, StepOver DEF AssocInv
<1>9. CASE WepKeysSent
  <2>1. /\ stage = "wep" /\ GoOn(3, job) /\ UNCHANGED <<connected, rsn, spoilt>>
        /\ cur' = [cur EXCEPT !.KEYS = job.set.KEYS, !.TX = job.set.TX]
    BY <1>1, <1>9 DEF WepKeysSent, GiveUp
  <2>2. /\ Sound(cur)' /\ cur'.KEYS = job.set.KEYS /\ cur'.TX = job.set.TX
        /\ cur'.SECINFO = cur.SECINFO /\ cur'.MODE = cur.MODE
    BY <1>2, <1>3, <2>1 DEF Sound, Valued, Flags, Modes
  <2>3. connected' => KeptBy(job)
    BY <1>2, <2>1 DEF Working, CalledFor
  <2>4. \A a \in Compared : cur'[a] = job.set[a] \/ (a \in job.flags /\ StepOf[a] > 3)
    <3>1. Ahead("MODE") => StepOf["MODE"] > 3
      BY <1>4, <2>1 DEF Ahead, Steps
    <3> QED
      BY <1>3, <1>4, <2>2, <3>1 DEF Compared
  <2> QED
    BY <1>1, <1>2, <1>3, <2>1, <2>2, <2>3, <2>4, StepOver DEF AssocInv
<1>10. CASE SecInfo
  <2>1. /\ stage = "secinfo" /\ GoOn(4, job) /\ UNCHANGED <<connected, spoilt>>
        /\ cur' = [cur EXCEPT !.SECINFO = job.set.SECINFO] /\ rsn' = job.set.SECINFO.wpa
    BY <1>1, <1>10 DEF SecInfo, GiveUp
  <2>2. /\ Sound(cur)' /\ cur'.KEYS = cur.KEYS /\ cur'.TX = cur.TX
        /\ cur'.SECINFO = job.set.SECINFO /\ cur'.MODE = cur.MODE
    BY <1>2, <1>3, <2>1 DEF Sound, Valued, Flags, Modes
  <2>3. connected' => KeptBy(job)
    BY <1>2, <2>1 DEF Working, CalledFor
  <2>4. \A a \in Compared : cur'[a] = job.set[a] \/ (a \in job.flags /\ StepOf[a] > 4)
    <3>1. \A a \in Compared \ {"SECINFO"} : ~Ahead(a)
      BY <1>4, <2>1 DEF Ahead, Steps, Compared
    <3> QED
      BY <1>3, <1>4, <2>2, <3>1 DEF Compared
  <2> QED
    BY <1>1, <1>2, <1>3, <2>1, <2>2, <2>3, <2>4, StepOver DEF AssocInv
<1>11. CASE Genie \/ WpaKeysSent
  <2>1. PICK done \in {5, 6} : GoOn(done, job)
    BY <1>1, <1>11 DEF Genie, WpaKeysSent, GiveUp
  <2>2. /\ stage \in {"genie", "wpa"} /\ UNCHANGED <<connected, rsn, spoilt>>
        /\ cur' = cur \/ \E ie : cur' = [cur EXCEPT !.IE = ie]
    BY <1>1, <1>11 DEF Genie, WpaKeysSent, GiveUp
  <2>3. Sound(cur)' /\ \A a \in Compared : cur'[a] = cur[a]
    <3>1. CASE cur' = cur
      BY <1>2, <3>1 DEF Sound, Valued, Flags, Modes
    <3>2. ASSUME NEW ie, cur' = [cur EXCEPT !.IE = ie]
          PROVE  Sound(cur)' /\ \A a \in Compared : cur'[a] = cur[a]
      BY <1>2, <3>2 DEF Sound, Compared, Valued, Flags, Modes
    <3> QED
      BY <2>2, <3>1, <3>2
  <2>4. connected' => KeptBy(job)
    BY <1>2, <2>2 DEF Working, CalledFor
  <2>5. \A a \in Compared : cur'[a] = job.set[a] \/ (a \in job.flags /\ StepOf[a] > done)
    <3>1. \A a \in Compared : ~Ahead(a)
      BY <1>4, <2>2 DEF Ahead, Steps, Compared
    <3> QED
      BY <1>3, <2>3, <3>1
  <2>6. cur'.SECINFO = cur.SECINFO /\ cur'.MODE = cur.MODE
    BY <2>3 DEF Compared
  <2> QED
    BY <1>1, <1>2, <1>3, <2>1, <2>2, <2>3, <2>4, <2>5, <2>6, StepOver DEF AssocInv
<1>12. CASE AssociateStep
  <2>1. stage = "associate" /\ GoOn(7, job) /\ UNCHANGED <<rsn, spoilt>>
    BY <1>12 DEF AssociateStep
  <2>2. \A a \in Compared : cur[a] = job.set[a]
    <3>1. \A a \in Compared : ~Ahead(a)
      BY <1>4, <2>1 DEF Ahead, Steps, Compared
    <3> QED
      BY <1>3, <3>1
  <2>3. cur.MODE = job.set.MODE /\ cur.SECINFO = job.set.SECINFO
    BY <2>2 DEF Compared
  <2>4. \/ UNCHANGED <<cur, connected>>
        \/ /\ connected' \in BOOLEAN /\ job.set.MODE \in {"infra", "adhoc"}
           /\ \E ssid, bssid, channel :
                 cur' \in {[cur EXCEPT !.MODE = job.set.MODE, !.CHANNEL = channel],
                           [cur EXCEPT !.MODE = job.set.MODE, !.CHANNEL = channel,
                                       !.SSID = ssid, !.BSSID = bssid]}
    <3>1. ASSUME NEW ssid, NEW bssid, NEW channel, Sent(ssid, bssid, job.set.MODE, channel)
          PROVE  /\ connected' \in BOOLEAN
                 /\ \E x, y :
                       cur' \in {[cur EXCEPT !.MODE = job.set.MODE, !.CHANNEL = channel],
                                 [cur EXCEPT !.MODE = job.set.MODE, !.CHANNEL = channel,
                                             !.SSID = x, !.BSSID = y]}
      BY <1>2, <3>1 DEF Sent, Accepted, Commanded
    <3>2. CASE \E n \in Matching : \/ job.set.MODE = "infra" /\ Associate(n)
                                   \/ job.set.MODE = "adhoc" /\ Join(n)
      BY <2>3, <3>1, <3>2 DEF Associate, Join, AdHocJoin
    <3>3. CASE job.set.MODE = "adhoc" /\ StartAdhoc
      <4>1. PICK ssid, channel : ssid = job.set.SSID /\ channel = cur.CHANNEL
        OBVIOUS
      <4>2. Sent(ssid, "own", job.set.MODE, channel)
        BY <3>3, <4>1 DEF StartAdhoc, Sent, Accepted, Commanded
      <4> QED
        BY <3>1, <3>3, <4>2
    <3> QED
      BY <1>12, <3>2, <3>3 DEF AssociateStep
  <2>5. Sound(cur)' /\ \A a \in Compared : cur'[a] = cur[a]
    <3>1. CASE cur' = cur
      BY <1>2, <3>1 DEF Sound, Valued, Flags, Modes
    <3>2. ASSUME NEW channel,
                 cur' = [cur EXCEPT !.MODE = job.set.MODE, !.CHANNEL = channel]
          PROVE  Sound(cur)' /\ \A a \in Compared : cur'[a] = cur[a]
      BY <1>2, <2>3, <3>2 DEF Sound, Compared, Valued, Flags, Modes
    <3>3. ASSUME NEW ssid, NEW bssid, NEW channel,
                 cur' = [cur EXCEPT !.MODE = job.set.MODE, !.CHANNEL = channel,
                                    !.SSID = ssid, !.BSSID = bssid]
          PROVE  Sound(cur)' /\ \A a \in Compared : cur'[a] = cur[a]
      BY <1>2, <2>3, <3>3 DEF Sound, Compared, Valued, Flags, Modes
    <3> QED
      BY <2>4, <3>1, <3>2, <3>3
  <2>6. cur'.SECINFO = cur.SECINFO /\ cur'.MODE = cur.MODE
    BY <2>5 DEF Compared
  <2>7. connected' \in BOOLEAN /\ (connected' => cur'.MODE # "auto")
    <3>1. CASE UNCHANGED <<cur, connected>>
      BY <1>2, <3>1
    <3>2. CASE connected' \in BOOLEAN /\ job.set.MODE \in {"infra", "adhoc"}
      BY <2>3, <2>6, <3>2
    <3> QED
      BY <2>4, <3>1, <3>2
  <2> QED
    BY <1>1, <1>2, <1>3, <2>1, <2>2, <2>5, <2>6, <2>7, StepOver DEF AssocInv
<1> QED
  BY <1>5, <1>6, <1>7, <1>8, <1>9, <1>10, <1>11, <1>12 DEF AssocStep

LEMMA AssocHolds == AssocSpec => []AssocInv
<1>1. AssocInit => AssocInv
  <2> SUFFICES ASSUME AssocInit PROVE AssocInv
    OBVIOUS
  <2>1. PICK k \in {NoKey} \cup WepKeys, n \in Nets :
           /\ connected => n.mode = "infra"
           /\ cur = [SSID |-> IF connected THEN n.ssid ELSE AnySsid,
                     BSSID |-> IF connected THEN n.bssid ELSE NoBssid,
                     CHANNEL |-> n.channel, MODE |-> "infra",
                     KEYS |-> [NoKeys EXCEPT ![1] = k], TX |-> 1,
                     SECINFO |-> [NoSecurity EXCEPT !.wep = (k # NoKey)], IE |-> "none"]
    BY DEF AssocInit
  <2>2. 1 \in KeyIdx
    BY AssocAssumption
  <2>3. /\ DOMAIN cur = Valued /\ cur.MODE = "infra" /\ cur.TX = 1
        /\ cur.KEYS = [NoKeys EXCEPT ![1] = k]
        /\ cur.SECINFO = [NoSecurity EXCEPT !.wep = (k # NoKey)]
    BY <2>1 DEF Valued, Flags
  <2>4. DOMAIN cur.KEYS = KeyIdx /\ cur.KEYS[1] = k
    BY <2>2, <2>3 DEF NoKeys
  <2>5. /\ DOMAIN cur.SECINFO = {"wep", "wpa", "auth"}
        /\ cur.SECINFO.wep = (k # NoKey) /\ cur.SECINFO.wpa = FALSE
    BY <2>3 DEF NoSecurity
  <2>6. Sound(cur) /\ Keyed(cur)
    BY <2>2, <2>3, <2>4, <2>5 DEF Sound, Keyed, Modes
  <2>7. \A a \in Valued : Copied[a] = cur[a]
    BY DEF AssocInit, Copied, NoRequest
  <2>8. Meets(Copied, wanted)
    <3>1. DOMAIN Copied = Valued /\ wanted = cur
      BY DEF AssocInit, Copied
    <3>2. Compared \subseteq Valued
      BY DEF Compared, Valued, Flags
    <3>3. \A a \in Compared : Copied[a] = wanted[a]
      BY <2>7, <3>1, <3>2
    <3> QED
      BY <2>6, <3>1, <3>3 DEF Meets, Sound, Keyed, Compared
  <2>9. spoilt = FALSE /\ connected \in BOOLEAN /\ rsn = FALSE /\ Idle
        /\ request = NoRequest /\ job = NoRequest
    BY DEF AssocInit, Idle
  <2> QED
    BY <2>3, <2>5, <2>6, <2>8, <2>9 DEF AssocInv, Resting, NoRequest
<1>2. AssocInv /\ [AssocNext]_assocVars => AssocInv'
  <2> SUFFICES ASSUME AssocInv, [AssocNext]_assocVars PROVE AssocInv'
    OBVIOUS
  <2>1. CASE Ioctl
    BY <2>1, AssocAssumption, SimpleIoctls, KeyIoctls, AuthIoctl, UnknownAuth DEF Ioctl
  <2>2. CASE AssocStep
    <3>1. CASE ~spoilt'
      BY <2>2, <3>1, AssocAssumption, JobSteps
    <3>2. CASE spoilt'
      <4>1. spoilt' \in BOOLEAN
        BY <2>2 DEF AssocInv, AssocStep, Choose, Leave, Mode, Channel, WepKeysSent, SecInfo,
           Genie, WpaKeysSent, AssociateStep, GiveUp, Disconnected
      <4> QED
        BY <3>2, <4>1 DEF AssocInv
    <3> QED
      BY <3>1, <3>2
  <2>3. CASE UNCHANGED assocVars
    BY <2>3 DEF assocVars, workVars, histVars, AssocInv, Resting, Working, Meets, Sound, Keyed,
       Ahead, KeptBy, Idle, Copied
  <2> QED
    BY <2>1, <2>2, <2>3, LinkSteps, TakeStep DEF AssocNext
<1> QED
  BY <1>1, <1>2, PTL DEF AssocSpec

LEMMA CopiedAtRest == AtRest => \A a \in Compared : Copied[a] = cur[a]
  BY DEF AtRest, Copied, Compared, Valued, Flags

(* Unless an ioctl came while the work was under way, or the work failed:  *)
(* when the last request is carried out, the keys, the security and the    *)
(* mode in force are those last asked for, however the ioctls postponed    *)
(* the work, were refused or were added to (lbs_get_association_request).  *)
THEOREM SettingsAddUp == AssocSpec => []LastSettingWins
<1>1. AssocInv => LastSettingWins
  <2> SUFFICES ASSUME AssocInv, ~spoilt, AtRest PROVE LastSettingWins
    BY DEF LastSettingWins
  <2>1. /\ cur.KEYS = wanted.KEYS /\ cur.TX = wanted.TX /\ cur.SECINFO = wanted.SECINFO
        /\ cur.MODE = wanted.MODE \/ wanted.MODE = "auto"
    BY CopiedAtRest DEF AtRest, AssocInv, Resting, Meets, Compared
  <2> QED
    BY <2>1 DEF LastSettingWins, AssocInv
<1> QED
  BY <1>1, AssocHolds, PTL

(* With the same exceptions, WEP in force has a key to transmit with       *)
(* (lbs_set_wep_key): an ioctl that would leave it without one is refused. *)
THEOREM KeyToTransmit == AssocSpec => []WepKeyedUnlessSpoilt
<1>1. AssocInv => WepKeyedUnlessSpoilt
  BY DEF WepKeyedUnlessSpoilt, WepKeyed, AtRest, AssocInv, Resting, Keyed
<1> QED
  BY <1>1, AssocHolds, PTL

(* And no ASSOCIATE is sent while the driver is associated                 *)
(* (should_deauth_infrastructure), whatever was asked for in whatever mode,*)
(* and whatever networks a scan finds.                                     *)
THEOREM LeavesFirst == AssocSpec => []AssociatesDisconnected
<1>1. AssocInv => AssociatesDisconnected
  BY DEF AssociatesDisconnected, AssocInv, Idle, Working, KeptBy, CalledFor
<1> QED
  BY <1>1, AssocHolds, PTL
-----------------------------------------------------------------------------
(* The keys.  What the ioctls bring, and the state.                        *)
WpaKinds == {"UCAST", "MCAST"}
WepTable == [Slots4 -> Wep \cup {Empty}]
WpaTable == [WpaKinds -> Wpa \cup {Empty}]
KeySet   == [keys : WepTable, tx : Slots4, wep : BOOLEAN, wpa : BOOLEAN, filter : BOOLEAN]
FwKeySet == [keys : WepTable, tx : Slots4, filter : BOOLEAN, rsn : BOOLEAN, wpa : WpaTable]
KeyFlags == {"SECINFO", "KEYS", "TX"} \cup WpaKinds
KeyReq   == [flags : SUBSET KeyFlags, set : KeySet, wpa : WpaTable]
KeySteps == {"wep", "filter", "keep", "secinfo", "rsn get", "rsn set", "ucast", "mcast"}

Requested(r) == r \in KeyReq /\ "SECINFO" \in r.flags

KeyTypes ==
    /\ conf \in KeySet /\ fw_keys \in FwKeySet /\ priv_wpa = NoWpa
    /\ pending = Nothing \/ Requested(pending)
    /\ \/ pc = "idle" /\ taken = Nothing
       \/ /\ pc \in KeySteps /\ Requested(taken)
          /\ pc = "ucast" => "UCAST" \in taken.flags
          /\ pc = "mcast" => "MCAST" \in taken.flags

(* WEP has a key to transmit with.                                         *)
Usable(set) == set.wep => set.keys[set.tx] # Empty

(* What a request makes of priv that was not disturbed meanwhile: its keys *)
(* are the old ones, some more or none, and without a flag nothing changes.*)
AddsTo(flags, set) ==
    /\ Usable(set)
    /\ {"KEYS", "TX"} \cap flags = {} => set.keys = conf.keys /\ set.tx = conf.tx
    /\ Held(set) = {} => set.tx = conf.tx
    /\ Held(set) # {} => \A i \in Slots4 \ Held(set) : conf.keys[i] = Empty

(* The WEP keys the driver remembers are the firmware's, but for the two   *)
(* steps between the command and the assignment, ...                       *)
WepAgrees ==
    /\ pc \notin {"filter", "keep"} => fw_keys.keys = conf.keys /\ fw_keys.tx = conf.tx
    /\ pc \in {"filter", "keep"} => fw_keys.keys = taken.set.keys /\ fw_keys.tx = taken.set.tx
    /\ pc = "secinfo" => conf.keys = taken.set.keys /\ conf.tx = taken.set.tx

(* ... and one of them can be used when WEP is on.                         *)
WepUsable ==
    /\ pc \in {"filter", "keep", "secinfo"} => Usable(taken.set)
    /\ pc \notin {"filter", "keep", "secinfo"} => Usable(conf)

WepTrue ==
    ~lost /\ ~stale =>
        /\ pending # Nothing => pc = "idle" /\ AddsTo(pending.flags, pending.set)
        /\ pc = "wep" => AddsTo(taken.flags, taken.set)
        /\ WepAgrees /\ WepUsable

(* Each WPA key that was brought last is pending, with the work, or there. *)
ToCome(k) == k \in taken.flags /\ (k = "UCAST" => pc # "mcast")

WpaOnTheWay ==
    \A k \in WpaKinds :
        /\ k \in pending.flags => meant[k] = pending.wpa[k]
        /\ k \notin pending.flags /\ ToCome(k) => meant[k] = taken.wpa[k]
        /\ k \notin pending.flags /\ ~ToCome(k) => meant[k] = fw_keys.wpa[k]

RsnAgrees ==
    /\ pc \in {"rsn get", "rsn set"} => conf.wpa = taken.set.wpa
    /\ pc \notin {"rsn get", "rsn set"} => conf.wpa = fw_keys.rsn

WpaTrue == ~refused => WpaOnTheWay /\ RsnAgrees /\ meant \in WpaTable

KeysInv == KeyTypes /\ WepTrue /\ WpaTrue
-----------------------------------------------------------------------------
(* The first of the steps that are due.                                    *)
LEMMA FirstStepDue ==
    ASSUME NEW due \in SUBSET (1 .. 4), NEW m \in due, \A j \in due : m <= j
    PROVE  (CHOOSE i \in due : \A j \in due : i <= j) = m
<1> DEFINE c == CHOOSE i \in due : \A j \in due : i <= j
<1>1. c \in due /\ \A j \in due : c <= j
  OBVIOUS
<1> HIDE DEF c
<1>2. c = m
  BY <1>1
<1> QED
  BY <1>2 DEF c

(* Where the worker goes after each step.                                  *)
LEMMA StepsInOrder ==
    ASSUME NEW flags
    PROVE  /\ "SECINFO" \in flags =>
                 /\ StepFrom(1, flags) = IF {"KEYS", "TX"} \cap flags # {} THEN "wep" ELSE "secinfo"
                 /\ StepFrom(2, flags) = "secinfo"
           /\ StepFrom(3, flags) = IF "UCAST" \in flags THEN "ucast"
                                   ELSE IF "MCAST" \in flags THEN "mcast" ELSE "idle"
           /\ StepFrom(4, flags) = IF "MCAST" \in flags THEN "mcast" ELSE "idle"
           /\ StepFrom(5, flags) = "idle"
<1> DEFINE due(n) == {i \in n .. 4 : Wanted[Order[i]] \cap flags # {}}
<1>1. /\ Order[1] = "wep" /\ Order[2] = "secinfo" /\ Order[3] = "ucast" /\ Order[4] = "mcast"
  BY DEF Order
<1>2. /\ Wanted[Order[1]] = {"KEYS", "TX"} /\ Wanted[Order[2]] = {"SECINFO"}
      /\ Wanted[Order[3]] = {"UCAST"} /\ Wanted[Order[4]] = {"MCAST"}
  BY <1>1 DEF Wanted
<1>3. /\ \A n \in 1 .. 5 : due(n) \in SUBSET (1 .. 4)
      /\ \A n \in 1 .. 5, i \in 1 .. 4 : i \in due(n) <=> i >= n /\ Wanted[Order[i]] \cap flags # {}
  OBVIOUS
<1>4. /\ 1 \in due(1) <=> {"KEYS", "TX"} \cap flags # {}
      /\ (2 \in due(1) <=> "SECINFO" \in flags) /\ (2 \in due(2) <=> "SECINFO" \in flags)
      /\ 1 \notin due(2) /\ 1 \notin due(3) /\ 2 \notin due(3)
      /\ 1 \notin due(4) /\ 2 \notin due(4) /\ 3 \notin due(4)
      /\ (3 \in due(3) <=> "UCAST" \in flags) /\ (4 \in due(3) <=> "MCAST" \in flags)
      /\ (4 \in due(4) <=> "MCAST" \in flags)
      /\ due(5) = {}
  BY <1>2
<1>5. \A n \in 1 .. 5 : StepFrom(n, flags) =
         IF due(n) = {} THEN "idle"
         ELSE Order[CHOOSE i \in due(n) : \A j \in due(n) : i <= j]
  BY DEF StepFrom
<1> HIDE DEF due
<1>6. \A n \in 1 .. 5 : \A m \in due(n) : (\A j \in due(n) : m <= j) => StepFrom(n, flags) = Order[m]
  BY <1>3, <1>5, FirstStepDue
<1>7. \A n \in 1 .. 5 : \A j \in due(n) : j \in {1, 2, 3, 4}
  BY <1>3
<1>8. "SECINFO" \in flags => StepFrom(1, flags) = IF {"KEYS", "TX"} \cap flags # {} THEN "wep" ELSE "secinfo"
  <2>1. CASE 1 \in due(1)
    <3>1. StepFrom(1, flags) = Order[1]
      BY <1>6, <1>7, <2>1
    <3> QED
      BY <1>1, <1>4, <2>1, <3>1
  <2>2. CASE 1 \notin due(1) /\ 2 \in due(1)
    <3>1. \A j \in due(1) : 2 <= j
      BY <1>7, <2>2
    <3>2. StepFrom(1, flags) = Order[2]
      BY <1>6, <2>2, <3>1
    <3> QED
      BY <1>1, <1>4, <2>2, <3>2
  <2> QED
    BY <1>4, <2>1, <2>2
<1>9. "SECINFO" \in flags => StepFrom(2, flags) = "secinfo"
  <2>1. \A j \in due(2) : 2 <= j
    BY <1>4, <1>7
  <2> QED
    BY <1>1, <1>4, <1>6, <2>1
<1>10. StepFrom(3, flags) = IF "UCAST" \in flags THEN "ucast"
                            ELSE IF "MCAST" \in flags THEN "mcast" ELSE "idle"
  <2>1. CASE 3 \in due(3)
    <3>1. \A j \in due(3) : 3 <= j
      BY <1>4, <1>7
    <3> QED
      BY <1>1, <1>4, <1>6, <2>1, <3>1
  <2>2. CASE 3 \notin due(3) /\ 4 \in due(3)
    <3>1. \A j \in due(3) : 4 <= j
      BY <1>4, <1>7, <2>2
    <3> QED
      BY <1>1, <1>4, <1>6, <2>2, <3>1
  <2>3. CASE 3 \notin due(3) /\ 4 \notin due(3)
    <3>1. due(3) = {}
      BY <1>4, <1>7, <2>3
    <3> QED
      BY <1>4, <1>5, <2>3, <3>1
  <2> QED
    BY <2>1, <2>2, <2>3
<1>11. StepFrom(4, flags) = IF "MCAST" \in flags THEN "mcast" ELSE "idle"
  <2>1. CASE 4 \in due(4)
    <3>1. \A j \in due(4) : 4 <= j
      BY <1>4, <1>7
    <3> QED
      BY <1>1, <1>4, <1>6, <2>1, <3>1
  <2>2. CASE 4 \notin due(4)
    <3>1. due(4) = {}
      BY <1>4, <1>7, <2>2
    <3> QED
      BY <1>4, <1>5, <2>2, <3>1
  <2> QED
    BY <2>1, <2>2
<1>12. StepFrom(5, flags) = "idle"
  BY <1>4, <1>5
<1> QED
  BY <1>8, <1>9, <1>10, <1>11, <1>12

-----------------------------------------------------------------------------
(* The ioctls.  Each asks for SECINFO, and what it brings fits.            *)
LEMMA TablesTyped ==
    /\ NoWep \in WepTable /\ NoWpa \in WpaTable
    /\ 1 \in Slots4
  BY KeysAssumption DEF NoWep, NoWpa, WepTable, WpaTable, WpaKinds

Brings(flags, set, wpa) ==
    /\ Bring(flags, set, wpa)
    /\ flags \subseteq KeyFlags /\ "SECINFO" \in flags
    /\ set \in KeySet /\ wpa \in WpaTable
    /\ Usable(conf) => AddsTo(flags, set)

LEMMA SwitchesFit ==
    ASSUME KeyTypes, DisableKeys \/ AuthWpa \/ AuthOff
    PROVE  \E flags, set, wpa : Brings(flags, set, wpa)
<1> USE TablesTyped DEF KeySet, KeyFlags, WpaKinds
<1>1. /\ conf \in KeySet /\ priv_wpa \in WpaTable
      /\ \A i \in Slots4 : NoWep[i] = Empty
  BY DEF KeyTypes, NoWep
<1>2. CASE DisableKeys
  <2> DEFINE set == [conf EXCEPT !.keys = NoWep, !.wep = FALSE, !.wpa = FALSE]
             flags == {"SECINFO", "KEYS", "UCAST", "MCAST"}
  <2>1. set \in KeySet /\ ~set.wep /\ set.keys = NoWep /\ set.tx = conf.tx
    BY <1>1
  <2>2. Bring(flags, set, NoWpa)
    BY <1>2 DEF DisableKeys
  <2> HIDE DEF set
  <2>3. AddsTo(flags, set)
    BY <1>1, <2>1 DEF AddsTo, Usable, Held
  <2> QED
    BY <2>1, <2>2, <2>3 DEF Brings
<1>3. CASE AuthWpa
  <2> DEFINE set == [conf EXCEPT !.wpa = TRUE, !.wep = FALSE]
  <2>1. set \in KeySet /\ ~set.wep /\ set.keys = conf.keys /\ set.tx = conf.tx
    BY <1>1
  <2>2. Bring({"SECINFO"}, set, priv_wpa)
    BY <1>3 DEF AuthWpa
  <2> HIDE DEF set
  <2>3. AddsTo({"SECINFO"}, set)
    BY <1>1, <2>1 DEF AddsTo, Usable, Held
  <2> QED
    BY <1>1, <2>1, <2>2, <2>3 DEF Brings
<1>4. CASE AuthOff
  <2> DEFINE set == [conf EXCEPT !.wpa = FALSE]
             flags == {"SECINFO", "UCAST", "MCAST"}
  <2>1. set \in KeySet /\ set.wep = conf.wep /\ set.keys = conf.keys /\ set.tx = conf.tx
    BY <1>1
  <2>2. Bring(flags, set, NoWpa)
    BY <1>4 DEF AuthOff
  <2> HIDE DEF set
  <2>3. Usable(conf) => AddsTo(flags, set)
    BY <1>1, <2>1 DEF AddsTo, Usable, Held
  <2> QED
    BY <1>1, <2>1, <2>2, <2>3 DEF Brings
<1> QED
  BY <1>2, <1>3, <1>4

LEMMA WepKeysFit ==
    ASSUME KeyTypes, NEW i \in Slots4,
           \/ UseWep(i)
           \/ \E key \in Wep, set_tx \in BOOLEAN :
                  (conf.wep \/ set_tx) /\ GiveWep(i, key, set_tx)
    PROVE  \E flags, set, wpa : Brings(flags, set, wpa)
<1> USE TablesTyped DEF KeySet, KeyFlags, WpaKinds
<1>1. /\ conf \in KeySet /\ priv_wpa \in WpaTable
  BY DEF KeyTypes
<1>2. CASE UseWep(i)
  <2> DEFINE set == [conf EXCEPT !.tx = i, !.wep = TRUE]
  <2>1. set \in KeySet /\ set.keys = conf.keys /\ set.tx = i /\ conf.keys[i] # Empty
    BY <1>1, <1>2 DEF UseWep
  <2>2. Bring({"SECINFO", "TX"}, set, priv_wpa)
    BY <1>2 DEF UseWep
  <2> HIDE DEF set
  <2>3. AddsTo({"SECINFO", "TX"}, set)
    BY <1>1, <2>1 DEF AddsTo, Usable, Held
  <2> QED
    BY <1>1, <2>1, <2>2, <2>3 DEF Brings
<1>3. ASSUME NEW key \in Wep, NEW set_tx \in BOOLEAN, conf.wep \/ set_tx,
             GiveWep(i, key, set_tx)
      PROVE  \E flags, set, wpa : Brings(flags, set, wpa)
  <2> DEFINE set == [conf EXCEPT !.keys[i] = key, !.wep = TRUE, !.tx = IF set_tx THEN i ELSE @]
             flags == {"SECINFO", "KEYS"} \cup (IF set_tx THEN {"TX"} ELSE {})
  <2>1. /\ set \in KeySet /\ set.keys = [conf.keys EXCEPT ![i] = key]
        /\ set.tx = IF set_tx THEN i ELSE conf.tx
    <3>1. [conf.keys EXCEPT ![i] = key] \in WepTable
      BY <1>1 DEF WepTable
    <3> QED
      BY <1>1, <3>1
  <2>2. Bring(flags, set, priv_wpa)
    BY <1>3 DEF GiveWep
  <2>3. flags \subseteq KeyFlags /\ "SECINFO" \in flags /\ "KEYS" \in flags
    OBVIOUS
  <2> HIDE DEF set, flags
  <2>4. key # Empty /\ conf.keys \in [Slots4 -> Wep \cup {Empty}] /\ conf.tx \in Slots4
    BY <1>1, KeysAssumption DEF WepTable
  <2>5. /\ set.keys[i] = key
        /\ \A j \in Slots4 : j # i => set.keys[j] = conf.keys[j]
    BY <2>1, <2>4
  <2>6. Usable(conf) => Usable(set)
    BY <1>3, <2>1, <2>4, <2>5 DEF Usable
  <2>7. Usable(conf) => AddsTo(flags, set)
    BY <2>3, <2>4, <2>5, <2>6 DEF AddsTo, Held
  <2> QED
    BY <1>1, <2>1, <2>2, <2>3, <2>7 DEF Brings
<1> QED
  BY <1>2, <1>3

LEMMA WpaKeyFits ==
    ASSUME KeyTypes, NEW which \in WpaKinds, NEW key \in Wpa, GiveWpa(which, key)
    PROVE  \E flags, set, wpa : Brings(flags, set, wpa)
<1> USE TablesTyped DEF KeySet, KeyFlags, WpaKinds
<1>1. /\ conf \in KeySet /\ priv_wpa \in WpaTable
      /\ \A i \in Slots4 : NoWep[i] = Empty
  BY DEF KeyTypes, NoWep
<1> DEFINE set == [conf EXCEPT !.keys = NoWep, !.wep = FALSE, !.wpa = TRUE]
           wpa == [priv_wpa EXCEPT ![which] = key]
           flags == {"SECINFO", "KEYS", which}
<1>2. set \in KeySet /\ ~set.wep /\ set.keys = NoWep /\ set.tx = conf.tx
  BY <1>1
<1>3. wpa \in WpaTable
  BY <1>1 DEF WpaTable
<1>4. Bring(flags, set, wpa)
  BY DEF GiveWpa
<1>5. flags \subseteq KeyFlags
  OBVIOUS
<1> HIDE DEF set
<1>6. AddsTo(flags, set)
  BY <1>1, <1>2 DEF AddsTo, Usable, Held
<1> QED
  BY <1>2, <1>3, <1>4, <1>5, <1>6 DEF Brings

(* A request that fits is brought, whatever the worker is doing.           *)
LEMMA BroughtTrue ==
    ASSUME KeysInv, NEW flags, NEW set, NEW wpa, Brings(flags, set, wpa)
    PROVE  KeysInv'
<1> USE DEF Brings, Bring
<1>1. /\ pending = Nothing /\ pending' = [flags |-> flags, set |-> set, wpa |-> wpa]
      /\ UNCHANGED <<conf, priv_wpa, fw_keys, pc, taken, refused, lost>>
      /\ stale' = (stale \/ pc # "idle")
  OBVIOUS
<1>2. Requested(pending') /\ pending'.flags = flags /\ pending'.set = set /\ pending'.wpa = wpa
  BY <1>1 DEF Requested, KeyReq
<1>3. KeyTypes'
  BY <1>1, <1>2 DEF KeysInv, KeyTypes, Requested
<1>4. WepTrue'
  <2> SUFFICES ASSUME ~lost', ~stale'
               PROVE  /\ pending' # Nothing => pc' = "idle" /\ AddsTo(pending.flags, pending.set)'
                      /\ pc' = "wep" => AddsTo(taken.flags, taken.set)'
                      /\ WepAgrees' /\ WepUsable'
    BY DEF WepTrue
  <2>0. ~lost /\ ~stale /\ pc = "idle"
    <3>1. ~lost
      BY <1>1, SMT
    <3>2. stale' = (stale \/ pc # "idle")
      BY <1>1
    <3>3. ~(stale \/ pc # "idle")
      BY <3>2, Zenon
    <3> QED
      BY <3>1, <3>3
  <2>1. WepAgrees /\ WepUsable
    BY <2>0 DEF KeysInv, WepTrue
  <2>2. AddsTo(flags, set)
    BY <2>0, <2>1 DEF WepUsable
  <2>3. AddsTo(pending.flags, pending.set)'
    BY <1>1, <1>2, <2>2 DEF AddsTo, Usable, Held
  <2>4. WepAgrees' /\ WepUsable'
    BY <1>1, <2>1 DEF WepAgrees, WepUsable, Usable
  <2> QED
    BY <1>1, <2>0, <2>3, <2>4
<1>5. WpaTrue'
  <2> SUFFICES ASSUME ~refused PROVE WpaTrue'
    BY <1>1 DEF WpaTrue
  <2>1. WpaOnTheWay /\ RsnAgrees /\ meant \in WpaTable
    BY DEF KeysInv, WpaTrue
  <2>2. pending.flags = {}
    BY <1>1 DEF Nothing
  <2>3. meant' = [k \in WpaKinds |-> IF k \in flags THEN wpa[k] ELSE meant[k]]
    BY DEF WpaKinds
  <2>4. WpaOnTheWay'
    BY <1>1, <1>2, <2>1, <2>2, <2>3 DEF WpaOnTheWay, ToCome
  <2>5. meant' \in WpaTable
    BY <2>1, <2>3 DEF WpaTable
  <2>6. RsnAgrees'
    BY <1>1, <2>1 DEF RsnAgrees
  <2> QED
    BY <2>4, <2>5, <2>6 DEF WpaTrue
<1> QED
  BY <1>3, <1>4, <1>5 DEF KeysInv
-----------------------------------------------------------------------------
(* The worker.  What every step but TakeRequest leaves alone.              *)
WorkerKeeps == UNCHANGED <<pending, priv_wpa, meant, stale>>

LEMMA EffectsTyped ==
    ASSUME KeyTypes, pc # "idle"
    PROVE  /\ WepEffect \in FwKeySet
           /\ [fw_keys EXCEPT !.rsn = taken.set.wpa] \in FwKeySet
           /\ \A k \in WpaKinds : MaterialEffect(k) = [fw_keys EXCEPT !.wpa[k] = taken.wpa[k]]
           /\ \A k \in WpaKinds : MaterialEffect(k) \in FwKeySet
           /\ \A bit \in BOOLEAN : [fw_keys EXCEPT !.filter = bit] \in FwKeySet
<1>1. fw_keys \in FwKeySet /\ taken \in KeyReq
  BY DEF KeyTypes, Requested
<1>2. WepEffect \in FwKeySet
  <2>1. [i \in Slots4 |-> IF i \in Held(taken.set) THEN taken.set.keys[i]
                          ELSE fw_keys.keys[i]] \in WepTable
    BY <1>1 DEF FwKeySet, KeyReq, KeySet, WepTable, Held
  <2> QED
    BY <1>1, <2>1, TablesTyped DEF FwKeySet, KeyReq, KeySet, WepEffect
<1>3. \A k \in WpaKinds : MaterialEffect(k) = [fw_keys EXCEPT !.wpa[k] = taken.wpa[k]]
  BY DEF MaterialEffect, KeysIn, WpaKinds
<1>4. \A k \in WpaKinds : [fw_keys.wpa EXCEPT ![k] = taken.wpa[k]] \in WpaTable
  BY <1>1 DEF FwKeySet, KeyReq, WpaTable
<1> QED
  BY <1>1, <1>2, <1>3, <1>4 DEF FwKeySet, KeyReq, KeySet

(* A command that fails: what could be known before is known still.        *)
LEMMA FailureTrue ==
    ASSUME KeysInv, NEW effect \in FwKeySet, pc \notin {"idle", "filter", "keep", "secinfo"},
           Fails(effect)
    PROVE  KeysInv'
<1>1. /\ pc' = "idle" /\ taken' = Nothing /\ refused' = TRUE
      /\ UNCHANGED <<pending, priv_wpa, meant, stale, conf>>
      /\ \/ fw_keys' = fw_keys /\ lost' = lost
         \/ fw_keys' \in {fw_keys, effect} /\ lost' = TRUE
  BY DEF Fails, Abandon
<1>2. KeyTypes'
  BY <1>1 DEF KeysInv, KeyTypes, Requested
<1>3. WepTrue'
  <2> SUFFICES ASSUME ~lost', ~stale' PROVE WepTrue'
    BY DEF WepTrue
  <2>1. fw_keys' = fw_keys /\ lost' = lost /\ stale' = stale
    BY <1>1
  <2>2. ~lost /\ ~stale
    BY <2>1, SMT
  <2>3. /\ pending = Nothing
        /\ WepAgrees /\ WepUsable
    BY <2>2 DEF KeysInv, WepTrue
  <2>4. pending' = Nothing /\ WepAgrees' /\ WepUsable'
    BY <1>1, <2>1, <2>3 DEF WepAgrees, WepUsable, Usable
  <2> QED
    BY <1>1, <2>4 DEF WepTrue
<1>4. WpaTrue'
  BY <1>1 DEF WpaTrue
<1> QED
  BY <1>2, <1>3, <1>4 DEF KeysInv

LEMMA TakenTrue ==
    ASSUME KeysInv, TakeRequest
    PROVE  KeysInv'
<1>1. /\ pc = "idle" /\ pending # Nothing /\ taken' = pending /\ pending' = Nothing
      /\ UNCHANGED <<conf, priv_wpa, fw_keys, meant, refused, lost, stale>>
  BY DEF TakeRequest, histKeys
<1>2. Requested(pending) /\ taken = Nothing
  BY <1>1 DEF KeysInv, KeyTypes, KeySteps
<1>3. pc' = IF {"KEYS", "TX"} \cap pending.flags # {} THEN "wep" ELSE "secinfo"
  BY <1>2, StepsInOrder DEF TakeRequest, Requested
<1>4. KeyTypes'
  BY <1>1, <1>2, <1>3 DEF KeysInv, KeyTypes, KeySteps, Requested
<1>5. WepTrue'
  <2> SUFFICES ASSUME ~lost', ~stale' PROVE WepTrue'
    BY DEF WepTrue
  <2>1. lost' = lost /\ stale' = stale
    BY <1>1
  <2>2. ~lost /\ ~stale
    BY <2>1, SMT
  <2>3. AddsTo(pending.flags, pending.set) /\ WepAgrees /\ WepUsable
    BY <1>1, <2>2 DEF KeysInv, WepTrue
  <2>4. AddsTo(taken.flags, taken.set)'
    BY <1>1, <2>3 DEF AddsTo, Usable, Held
  <2>5. pc' = "secinfo" => conf.keys = pending.set.keys /\ conf.tx = pending.set.tx
    BY <1>3, <2>3 DEF AddsTo
  <2>6. WepAgrees' /\ WepUsable'
    BY <1>1, <1>3, <2>3, <2>5 DEF WepAgrees, WepUsable, Usable, AddsTo
  <2> QED
    BY <1>1, <2>4, <2>6 DEF WepTrue
<1>6. WpaTrue'
  <2> SUFFICES ASSUME ~refused PROVE WpaTrue'
    BY <1>1 DEF WpaTrue
  <2>1. WpaOnTheWay /\ RsnAgrees /\ meant \in WpaTable
    BY DEF KeysInv, WpaTrue
  <2>2. taken.flags = {} /\ (pending.flags)' = {}
    BY <1>1, <1>2 DEF Nothing
  <2>3. WpaOnTheWay'
    BY <1>1, <1>3, <2>1, <2>2 DEF WpaOnTheWay, ToCome
  <2>4. RsnAgrees'
    BY <1>1, <1>3, <2>1 DEF RsnAgrees
  <2> QED
    BY <1>1, <2>1, <2>3, <2>4 DEF WpaTrue
<1> QED
  BY <1>4, <1>5, <1>6 DEF KeysInv

(* A step that succeeds: what it must show of the three parts.             *)
LEMMA SuccessTrue ==
    ASSUME KeysInv, WorkerKeeps, UNCHANGED lost,
           pc \in KeySteps, conf' \in KeySet, fw_keys' \in FwKeySet,
           \/ pc' = "idle" /\ taken' = Nothing
           \/ /\ pc' \in KeySteps \ {"wep"} /\ taken' = taken
              /\ pc' = "ucast" => "UCAST" \in taken.flags
              /\ pc' = "mcast" => "MCAST" \in taken.flags,
           WepAgrees /\ WepUsable /\ (pc = "wep" => AddsTo(taken.flags, taken.set))
              => WepAgrees' /\ WepUsable',
           ~refused' => ~refused /\ (WpaOnTheWay /\ RsnAgrees => WpaOnTheWay' /\ RsnAgrees')
    PROVE  KeysInv'
<1>1. KeyTypes'
  BY DEF KeysInv, KeyTypes, KeySteps, Requested, WorkerKeeps
<1>2. WepTrue'
  <2> SUFFICES ASSUME ~lost', ~stale' PROVE WepTrue'
    BY DEF WepTrue
  <2>1. lost' = lost /\ stale' = stale
    BY DEF WorkerKeeps
  <2>2. ~lost /\ ~stale
    BY <2>1, SMT
  <2>3. pending # Nothing => pc = "idle"
    BY <2>2 DEF KeysInv, WepTrue
  <2>4. WepAgrees /\ WepUsable /\ (pc = "wep" => AddsTo(taken.flags, taken.set))
    BY <2>2 DEF KeysInv, WepTrue
  <2>5. WepAgrees' /\ WepUsable'
    BY <2>4
  <2>6. (pending = Nothing)' /\ (pc # "wep")'
    BY <2>3 DEF WorkerKeeps, KeySteps
  <2> QED
    BY <2>5, <2>6 DEF WepTrue
<1>3. WpaTrue'
  <2> SUFFICES ASSUME ~refused' PROVE WpaTrue'
    BY DEF WpaTrue
  <2>1. ~refused
    OBVIOUS
  <2>2. WpaOnTheWay /\ RsnAgrees /\ meant \in WpaTable
    BY <2>1 DEF KeysInv, WpaTrue
  <2> QED
    BY <2>2 DEF WpaTrue, WorkerKeeps
<1> QED
  BY <1>1, <1>2, <1>3 DEF KeysInv

LEMMA WepStepsTrue ==
    ASSUME KeysInv, SetWep \/ SetFilter \/ KeepKeys
    PROVE  KeysInv'
<1>1. /\ pc # "idle" => taken \in KeyReq /\ "SECINFO" \in taken.flags
      /\ conf \in KeySet /\ fw_keys \in FwKeySet /\ KeyTypes
  BY DEF KeysInv, KeyTypes, Requested
<1>2. CASE SetWep
  <2>1. pc = "wep" /\ WepEffect \in FwKeySet
    BY <1>1, <1>2, EffectsTyped DEF SetWep
  <2>2. CASE Fails(WepEffect)
    BY <2>1, <2>2, FailureTrue
  <2>3. CASE /\ fw_keys' = WepEffect /\ pc' = "filter"
             /\ UNCHANGED <<conf, taken, pending, priv_wpa, histKeys>>
    <3>1. WorkerKeeps /\ UNCHANGED <<conf, taken, lost, refused>>
      BY <2>3 DEF WorkerKeeps, histKeys
    <3>2. ASSUME WepAgrees, WepUsable, AddsTo(taken.flags, taken.set)
          PROVE  WepAgrees' /\ WepUsable'
      <4>1. fw_keys.keys = conf.keys /\ fw_keys.tx = conf.tx
        BY <2>1, <3>2 DEF WepAgrees
      <4>2. taken.set.keys \in WepTable /\ conf.keys \in WepTable
        BY <1>1, <2>1 DEF KeyReq, KeySet
      <4>3. CASE Held(taken.set) = {}
        <5>1. taken.set.keys = NoWep
          BY <4>2, <4>3 DEF WepTable, NoWep, Held
        <5>2. WepEffect.keys = NoWep /\ WepEffect.tx = fw_keys.tx
          BY <1>1, <4>3 DEF WepEffect, FwKeySet
        <5>3. taken.set.tx = conf.tx
          BY <3>2, <4>3 DEF AddsTo
        <5> QED
          BY <2>1, <2>3, <3>1, <3>2, <4>1, <5>1, <5>2, <5>3 DEF WepAgrees, WepUsable, AddsTo, Usable
      <4>4. CASE Held(taken.set) # {}
        <5>1. \A i \in Slots4 \ Held(taken.set) : fw_keys.keys[i] = taken.set.keys[i]
          BY <3>2, <4>1, <4>4 DEF AddsTo, Held
        <5>2. [i \in Slots4 |-> IF i \in Held(taken.set) THEN taken.set.keys[i]
                                ELSE fw_keys.keys[i]] = taken.set.keys
          BY <4>2, <5>1 DEF WepTable
        <5>3. WepEffect.keys = taken.set.keys /\ WepEffect.tx = taken.set.tx
          BY <1>1, <4>4, <5>2 DEF WepEffect, FwKeySet
        <5> QED
          BY <2>1, <2>3, <3>1, <3>2, <5>3 DEF WepAgrees, WepUsable, AddsTo, Usable
      <4> QED
        BY <4>3, <4>4
    <3>3. WepEffect.wpa = fw_keys.wpa /\ WepEffect.rsn = fw_keys.rsn
      BY <1>1 DEF WepEffect, FwKeySet
    <3>4. WpaOnTheWay /\ RsnAgrees => WpaOnTheWay' /\ RsnAgrees'
      BY <2>1, <2>3, <3>1, <3>3 DEF WpaOnTheWay, ToCome, RsnAgrees, WorkerKeeps
    <3>5. ~refused' => ~refused
      BY <3>1
    <3> QED
      BY <1>1, <2>1, <2>3, <3>1, <3>2, <3>4, <3>5, SuccessTrue DEF KeySteps
  <2> QED
    BY <1>2, <2>2, <2>3 DEF SetWep
<1>3. CASE SetFilter
  <2>1. /\ pc = "filter" /\ pc' = "keep" /\ taken' = taken /\ WorkerKeeps
        /\ conf' = [conf EXCEPT !.filter = taken.set.wep]
        /\ MacControl(taken.set.wep)
    BY <1>3 DEF SetFilter, WorkerKeeps
  <2>2. taken.set.wep \in BOOLEAN
    BY <1>1, <2>1 DEF KeyReq, KeySet
  <2>3. /\ fw_keys' \in FwKeySet /\ UNCHANGED lost
        /\ fw_keys'.keys = fw_keys.keys /\ fw_keys'.tx = fw_keys.tx
        /\ fw_keys'.wpa = fw_keys.wpa /\ fw_keys'.rsn = fw_keys.rsn
    BY <1>1, <2>1, <2>2, EffectsTyped DEF MacControl, FwKeySet
  <2>4. /\ conf' \in KeySet
        /\ (conf.keys)' = conf.keys /\ (conf.tx)' = conf.tx /\ (conf.wpa)' = conf.wpa
    BY <1>1, <2>1, <2>2 DEF KeySet
  <2>5. WepAgrees /\ WepUsable => WepAgrees' /\ WepUsable'
    BY <2>1, <2>3, <2>4 DEF WepAgrees, WepUsable, Usable
  <2>6. WpaOnTheWay /\ RsnAgrees => WpaOnTheWay' /\ RsnAgrees'
    BY <2>1, <2>3, <2>4 DEF WpaOnTheWay, ToCome, RsnAgrees, WorkerKeeps
  <2>7. ~refused' => ~refused
    BY <2>1 DEF MacControl
  <2> QED
    BY <2>1, <2>3, <2>4, <2>5, <2>6, <2>7, SuccessTrue DEF KeySteps
<1>4. CASE KeepKeys
  <2>1. /\ pc = "keep" /\ pc' = "secinfo" /\ taken' = taken /\ WorkerKeeps
        /\ conf' = Kept /\ UNCHANGED <<fw_keys, refused, lost>>
    BY <1>1, <1>4, StepsInOrder DEF KeepKeys, Proceed, WorkerKeeps
  <2>2. /\ conf' \in KeySet
        /\ (conf.keys)' = taken.set.keys /\ (conf.tx)' = taken.set.tx /\ (conf.wpa)' = conf.wpa
    BY <1>1, <2>1 DEF KeySet, KeyReq, Kept
  <2>3. WepAgrees /\ WepUsable => WepAgrees' /\ WepUsable'
    BY <2>1, <2>2 DEF WepAgrees, WepUsable, Usable
  <2>4. WpaOnTheWay /\ RsnAgrees => WpaOnTheWay' /\ RsnAgrees'
    BY <2>1, <2>2 DEF WpaOnTheWay, ToCome, RsnAgrees, WorkerKeeps
  <2>5. ~refused' => ~refused
    BY <2>1
  <2> QED
    BY <1>1, <2>1, <2>2, <2>3, <2>4, <2>5, SuccessTrue DEF KeySteps
<1> QED
  BY <1>2, <1>3, <1>4

(* On to the WPA keys, or done: nothing more or less is to come.           *)
LEMMA OnToWpaKeys ==
    ASSUME KeyTypes, pc \in {"rsn get", "rsn set"}, Proceed(3)
    PROVE  /\ WorkerKeeps
           /\ \/ pc' = "idle" /\ taken' = Nothing
              \/ /\ pc' \in {"ucast", "mcast"} /\ taken' = taken
                 /\ pc' = "ucast" => "UCAST" \in taken.flags
                 /\ pc' = "mcast" => "MCAST" \in taken.flags
           /\ \A k \in WpaKinds : (ToCome(k)' <=> ToCome(k)) /\ (ToCome(k)' => taken' = taken)
<1>1. /\ pc' = StepFrom(3, taken.flags) /\ WorkerKeeps
      /\ taken' = IF pc' = "idle" THEN Nothing ELSE taken
  BY DEF Proceed, WorkerKeeps
<1>2. pc' = IF "UCAST" \in taken.flags THEN "ucast"
            ELSE IF "MCAST" \in taken.flags THEN "mcast" ELSE "idle"
  BY <1>1, StepsInOrder
<1> QED
  BY <1>1, <1>2 DEF ToCome, WpaKinds, Nothing

LEMMA SecInfoStepsTrue ==
    ASSUME KeysInv, SetSecInfo \/ GetRsn \/ SetRsn
    PROVE  KeysInv'
<1>1. /\ pc # "idle" => taken \in KeyReq /\ "SECINFO" \in taken.flags
      /\ conf \in KeySet /\ fw_keys \in FwKeySet /\ KeyTypes
  BY DEF KeysInv, KeyTypes, Requested
<1>2. CASE SetSecInfo
  <2>1. /\ pc = "secinfo" /\ pc' = "rsn get" /\ taken' = taken /\ WorkerKeeps
        /\ conf' = [conf EXCEPT !.wep = taken.set.wep, !.wpa = taken.set.wpa]
        /\ MacControl(conf.filter)
    BY <1>2 DEF SetSecInfo, WorkerKeeps
  <2>2. taken.set.wep \in BOOLEAN /\ taken.set.wpa \in BOOLEAN /\ conf.filter \in BOOLEAN
    BY <1>1, <2>1 DEF KeyReq, KeySet
  <2>3. /\ fw_keys' \in FwKeySet /\ UNCHANGED lost
        /\ fw_keys'.keys = fw_keys.keys /\ fw_keys'.tx = fw_keys.tx
        /\ fw_keys'.wpa = fw_keys.wpa /\ fw_keys'.rsn = fw_keys.rsn
    BY <1>1, <2>1, <2>2, EffectsTyped DEF MacControl, FwKeySet
  <2>4. /\ conf' \in KeySet
        /\ (conf.keys)' = conf.keys /\ (conf.tx)' = conf.tx
        /\ (conf.wep)' = taken.set.wep /\ (conf.wpa)' = taken.set.wpa
    BY <1>1, <2>1, <2>2 DEF KeySet
  <2>5. WepAgrees /\ WepUsable => WepAgrees' /\ WepUsable'
    BY <2>1, <2>3, <2>4 DEF WepAgrees, WepUsable, Usable
  <2>6. WpaOnTheWay /\ RsnAgrees => WpaOnTheWay' /\ RsnAgrees'
    BY <2>1, <2>3, <2>4 DEF WpaOnTheWay, ToCome, RsnAgrees, WorkerKeeps
  <2>7. ~refused' => ~refused
    BY <2>1 DEF MacControl
  <2> QED
    BY <2>1, <2>3, <2>4, <2>5, <2>6, <2>7, SuccessTrue DEF KeySteps
<1>3. CASE GetRsn
  <2>1. pc = "rsn get"
    BY <1>3 DEF GetRsn
  <2>2. CASE Fails(fw_keys)
    BY <1>1, <2>1, <2>2, FailureTrue
  <2>3. ASSUME UNCHANGED <<conf, fw_keys, refused, lost>>, taken.set.wpa = fw_keys.rsn, Proceed(3)
        PROVE  KeysInv'
    <3>1. WepAgrees /\ WepUsable => WepAgrees' /\ WepUsable'
      BY <1>1, <2>1, <2>3, OnToWpaKeys DEF WepAgrees, WepUsable, Usable
    <3>2. WpaOnTheWay /\ RsnAgrees => WpaOnTheWay' /\ RsnAgrees'
      <4> SUFFICES ASSUME WpaOnTheWay, RsnAgrees PROVE WpaOnTheWay' /\ RsnAgrees'
        OBVIOUS
      <4>1. \A k \in WpaKinds : ToCome(k)' <=> ToCome(k)
        BY <1>1, <2>1, <2>3, OnToWpaKeys
      <4>2. \A k \in WpaKinds : ToCome(k)' => taken' = taken
        BY <1>1, <2>1, <2>3, OnToWpaKeys
      <4>3. WpaOnTheWay'
        BY <1>1, <2>1, <2>3, <4>1, <4>2, OnToWpaKeys DEF WpaOnTheWay, WorkerKeeps
      <4>4. RsnAgrees'
        BY <1>1, <2>1, <2>3, OnToWpaKeys DEF RsnAgrees
      <4> QED
        BY <4>3, <4>4
    <3>3. ~refused' => ~refused
      BY <2>3
    <3> QED
      BY <1>1, <2>1, <2>3, <3>1, <3>2, <3>3, OnToWpaKeys, SuccessTrue DEF KeySteps
  <2>4. ASSUME UNCHANGED <<conf, fw_keys, refused, lost>>, pc' = "rsn set",
               UNCHANGED <<taken, pending, priv_wpa, meant, stale>>
        PROVE  KeysInv'
    <3>1. WepAgrees /\ WepUsable => WepAgrees' /\ WepUsable'
      BY <2>1, <2>4 DEF WepAgrees, WepUsable, Usable
    <3>2. WpaOnTheWay /\ RsnAgrees => WpaOnTheWay' /\ RsnAgrees'
      BY <2>1, <2>4 DEF WpaOnTheWay, ToCome, RsnAgrees
    <3>3. ~refused' => ~refused
      BY <2>4
    <3> QED
      BY <1>1, <2>1, <2>4, <3>1, <3>2, <3>3, SuccessTrue DEF KeySteps, WorkerKeeps
  <2> QED
    BY <1>3, <2>2, <2>3, <2>4 DEF GetRsn
<1>4. CASE SetRsn
  <2> DEFINE effect == [fw_keys EXCEPT !.rsn = taken.set.wpa]
  <2>1. pc = "rsn set" /\ effect \in FwKeySet
    BY <1>1, <1>4, EffectsTyped DEF SetRsn
  <2>2. CASE Fails(effect)
    BY <2>1, <2>2, FailureTrue
  <2>3. ASSUME fw_keys' = effect, Proceed(3), UNCHANGED <<conf, refused, lost>>
        PROVE  KeysInv'
    <3>1. /\ fw_keys'.keys = fw_keys.keys /\ fw_keys'.tx = fw_keys.tx
          /\ fw_keys'.wpa = fw_keys.wpa /\ fw_keys'.rsn = taken.set.wpa
      BY <1>1, <2>3 DEF FwKeySet
    <3> HIDE DEF effect
    <3>2. WepAgrees /\ WepUsable => WepAgrees' /\ WepUsable'
      BY <1>1, <2>1, <2>3, <3>1, OnToWpaKeys DEF WepAgrees, WepUsable, Usable
    <3>3. WpaOnTheWay /\ RsnAgrees => WpaOnTheWay' /\ RsnAgrees'
      <4> SUFFICES ASSUME WpaOnTheWay, RsnAgrees PROVE WpaOnTheWay' /\ RsnAgrees'
        OBVIOUS
      <4>1. \A k \in WpaKinds : ToCome(k)' <=> ToCome(k)
        BY <1>1, <2>1, <2>3, OnToWpaKeys
      <4>2. \A k \in WpaKinds : ToCome(k)' => taken' = taken
        BY <1>1, <2>1, <2>3, OnToWpaKeys
      <4>3. WpaOnTheWay'
        BY <1>1, <2>1, <2>3, <3>1, <4>1, <4>2, OnToWpaKeys DEF WpaOnTheWay, WorkerKeeps
      <4>4. RsnAgrees'
        BY <1>1, <2>1, <2>3, <3>1, OnToWpaKeys DEF RsnAgrees
      <4> QED
        BY <4>3, <4>4
    <3>4. ~refused' => ~refused
      BY <2>3
    <3> QED
      BY <1>1, <2>1, <2>3, <3>2, <3>3, <3>4, OnToWpaKeys, SuccessTrue DEF KeySteps
  <2> QED
    BY <1>4, <2>2, <2>3 DEF SetRsn
<1> QED
  BY <1>2, <1>3, <1>4

(* One WPA key reaches the firmware; the other, if it is to come, is next. *)
LEMMA WpaStepsTrue ==
    ASSUME KeysInv,
           KeyMaterial("ucast", "UCAST", 4) \/ KeyMaterial("mcast", "MCAST", 5)
    PROVE  KeysInv'
<1>1. PICK which \in WpaKinds, n \in {4, 5} :
         /\ which = IF n = 4 THEN "UCAST" ELSE "MCAST"
         /\ KeyMaterial(IF n = 4 THEN "ucast" ELSE "mcast", which, n)
  <2>1. CASE KeyMaterial("ucast", "UCAST", 4)
    BY <2>1 DEF WpaKinds
  <2>2. CASE KeyMaterial("mcast", "MCAST", 5)
    BY <2>2 DEF WpaKinds
  <2> QED
    BY <2>1, <2>2
<1>2. pc = IF n = 4 THEN "ucast" ELSE "mcast"
  BY <1>1 DEF KeyMaterial
<1>3. /\ taken \in KeyReq /\ which \in taken.flags
      /\ conf \in KeySet /\ fw_keys \in FwKeySet /\ KeyTypes
  BY <1>1, <1>2 DEF KeysInv, KeyTypes, Requested
<1>4. /\ MaterialEffect(which) = [fw_keys EXCEPT !.wpa[which] = taken.wpa[which]]
      /\ MaterialEffect(which) \in FwKeySet
  BY <1>2, <1>3, EffectsTyped
<1>5. CASE Fails(MaterialEffect(which))
  BY <1>2, <1>4, <1>5, FailureTrue
<1>6. ASSUME fw_keys' = MaterialEffect(which), Proceed(n), UNCHANGED <<conf, refused, lost>>
      PROVE  KeysInv'
  <2>1. /\ fw_keys'.keys = fw_keys.keys /\ fw_keys'.tx = fw_keys.tx
        /\ fw_keys'.rsn = fw_keys.rsn
        /\ fw_keys'.wpa = [fw_keys.wpa EXCEPT ![which] = taken.wpa[which]]
    BY <1>3, <1>4, <1>6 DEF FwKeySet
  <2>2. pc' = IF n = 4 /\ "MCAST" \in taken.flags THEN "mcast" ELSE "idle"
    BY <1>1, <1>6, StepsInOrder DEF Proceed
  <2>3. /\ WorkerKeeps
        /\ taken' = IF pc' = "idle" THEN Nothing ELSE taken
    BY <1>6 DEF Proceed, WorkerKeeps
  <2>4. WepAgrees /\ WepUsable => WepAgrees' /\ WepUsable'
    BY <1>2, <1>6, <2>1, <2>2 DEF WepAgrees, WepUsable, Usable
  <2>5. WpaOnTheWay /\ RsnAgrees => WpaOnTheWay' /\ RsnAgrees'
    <3> SUFFICES ASSUME WpaOnTheWay, RsnAgrees PROVE WpaOnTheWay' /\ RsnAgrees'
      OBVIOUS
    <3>1. \A k \in WpaKinds : (ToCome(k) <=> k = which \/ ToCome(k)') /\ (ToCome(k)' => k # which)
      BY <1>1, <1>2, <1>3, <2>2, <2>3 DEF ToCome, WpaKinds, Nothing
    <3>2. \A k \in WpaKinds : ToCome(k)' => taken' = taken
      BY <2>2, <2>3 DEF ToCome, Nothing
    <3>3. \A k \in WpaKinds : fw_keys'.wpa[k] = IF k = which THEN taken.wpa[k] ELSE fw_keys.wpa[k]
      BY <1>3, <2>1 DEF FwKeySet, WpaTable
    <3>4. WpaOnTheWay'
      BY <2>3, <3>1, <3>2, <3>3 DEF WpaOnTheWay, WorkerKeeps
    <3>5. RsnAgrees'
      BY <1>2, <1>6, <2>1, <2>2 DEF RsnAgrees
    <3> QED
      BY <3>4, <3>5
  <2>6. ~refused' => ~refused
    BY <1>6
  <2>7. \/ pc' = "idle" /\ taken' = Nothing
        \/ /\ pc' \in KeySteps \ {"wep"} /\ taken' = taken
           /\ pc' = "ucast" => "UCAST" \in taken.flags
           /\ pc' = "mcast" => "MCAST" \in taken.flags
    BY <2>2, <2>3 DEF KeySteps
  <2> QED
    BY <1>2, <1>3, <1>4, <1>6, <2>3, <2>4, <2>5, <2>6, <2>7, SuccessTrue DEF KeySteps
<1> QED
  BY <1>1, <1>5, <1>6 DEF KeyMaterial

LEMMA KeysStart == KeysInit => KeysInv
<1> SUFFICES ASSUME KeysInit PROVE KeysInv
  OBVIOUS
<1>1. KeyTypes
  BY TablesTyped DEF KeysInit, KeyTypes, KeySet, FwKeySet
<1>2. WepTrue
  BY DEF KeysInit, WepTrue, WepAgrees, WepUsable, Usable, Nothing
<1>3. WpaTrue
  BY TablesTyped DEF KeysInit, WpaTrue, WpaOnTheWay, ToCome, RsnAgrees, Nothing
<1> QED
  BY <1>1, <1>2, <1>3 DEF KeysInv

LEMMA KeysStep == KeysInv /\ [KeysNext]_keysVars => KeysInv'
<1> SUFFICES ASSUME KeysInv, [KeysNext]_keysVars PROVE KeysInv'
  OBVIOUS
<1>1. KeyTypes
  BY DEF KeysInv
<1>2. CASE DisableKeys \/ AuthWpa \/ AuthOff
  BY <1>1, <1>2, SwitchesFit, BroughtTrue
<1>3. CASE \E i \in Slots4, key \in Wep, set_tx \in BOOLEAN :
              (conf.wep \/ set_tx) /\ GiveWep(i, key, set_tx)
  BY <1>1, <1>3, WepKeysFit, BroughtTrue
<1>4. CASE \E i \in Slots4 : UseWep(i)
  BY <1>1, <1>4, WepKeysFit, BroughtTrue
<1>5. CASE \E which \in {"UCAST", "MCAST"}, key \in Wpa : GiveWpa(which, key)
  BY <1>1, <1>5, WpaKeyFits, BroughtTrue DEF WpaKinds
<1>6. CASE TakeRequest
  BY <1>6, TakenTrue
<1>7. CASE SetWep \/ SetFilter \/ KeepKeys
  BY <1>7, WepStepsTrue
<1>8. CASE SetSecInfo \/ GetRsn \/ SetRsn
  BY <1>8, SecInfoStepsTrue
<1>9. CASE KeyMaterial("ucast", "UCAST", 4) \/ KeyMaterial("mcast", "MCAST", 5)
  BY <1>9, WpaStepsTrue
<1>10. CASE UNCHANGED keysVars
  <2>1. UNCHANGED <<conf, priv_wpa, fw_keys, pending, pc, taken, meant, refused, lost, stale>>
    BY <1>10 DEF keysVars, histKeys
  <2>2. KeyTypes'
    BY <2>1 DEF KeysInv, KeyTypes, Requested
  <2>3. WepTrue'
    BY <2>1 DEF KeysInv, WepTrue, WepAgrees, WepUsable, AddsTo, Usable, Held
  <2>4. WpaTrue'
    BY <2>1 DEF KeysInv, WpaTrue, WpaOnTheWay, ToCome, RsnAgrees
  <2> QED
    BY <2>2, <2>3, <2>4 DEF KeysInv
<1> QED
  BY <1>2, <1>3, <1>4, <1>5, <1>6, <1>7, <1>8, <1>9, <1>10 DEF KeysNext

LEMMA KeysThere == KeysInv => KeysReach
<1> SUFFICES ASSUME KeysInv, KeysDone PROVE KeysReach
  BY DEF KeysReach, TransmitKeyReady, WpaKeysReach
<1>1. pc = "idle" /\ pending = Nothing /\ KeyTypes /\ taken = Nothing
  BY DEF KeysInv, KeyTypes, KeysDone, KeySteps
<1>2. TransmitKeyReady
  <2> SUFFICES ASSUME ~lost, ~stale PROVE TransmitKeyReady
    BY DEF TransmitKeyReady
  <2>1. WepAgrees /\ WepUsable
    BY DEF KeysInv, WepTrue
  <2>2. fw_keys.keys = conf.keys /\ fw_keys.tx = conf.tx
    BY <1>1, <2>1 DEF WepAgrees
  <2>3. conf.wep => conf.keys[conf.tx] # Empty
    BY <1>1, <2>1 DEF WepUsable, Usable
  <2>4. ShownWep(0) = IF conf.wep THEN conf.keys[conf.tx] ELSE Empty
    BY DEF ShownWep
  <2>5. ShownExt(0) = IF conf.wpa THEN Empty ELSE ShownWep(0)
    BY <1>1 DEF ShownExt, KeyTypes, NoWpa
  <2> QED
    BY <2>2, <2>3, <2>4, <2>5 DEF TransmitKeyReady
<1>3. WpaKeysReach
  <2> SUFFICES ASSUME ~refused PROVE fw_keys.wpa = meant /\ fw_keys.rsn = conf.wpa
    BY DEF WpaKeysReach
  <2>1. WpaOnTheWay /\ RsnAgrees /\ meant \in WpaTable
    BY DEF KeysInv, WpaTrue
  <2>2. fw_keys.wpa \in WpaTable
    BY <1>1 DEF KeyTypes, FwKeySet
  <2>3. \A k \in WpaKinds : meant[k] = fw_keys.wpa[k]
    BY <1>1, <2>1 DEF WpaOnTheWay, ToCome, Nothing
  <2>4. fw_keys.wpa = meant
    BY <2>1, <2>2, <2>3 DEF WpaTable
  <2>5. fw_keys.rsn = conf.wpa
    BY <1>1, <2>1 DEF RsnAgrees
  <2> QED
    BY <2>4, <2>5
<1> QED
  BY <1>2, <1>3 DEF KeysReach

(* What lbs_get_encode shows as the transmit key is a key, and the one the *)
(* firmware transmits with, whichever commands of the key worker were      *)
(* refused, unless one was lost or an ioctl came while the work was busy;  *)
(* and unless a command fails both WPA keys and the RSN switch reach the   *)
(* firmware (assoc_helper_wep_keys, assoc_helper_secinfo, assoc_helper_    *)
(* wpa_keys): for every set of slots and of keys, and whatever can fail.   *)
THEOREM KeysArrive == KeysSpec => []KeysReach
<1>1. KeysInv /\ [KeysNext]_keysVars => KeysInv'
  BY KeysStep
<1>2. KeysInit => KeysInv
  BY KeysStart
<1>3. KeysInv => KeysReach
  BY KeysThere
<1> QED
  BY <1>1, <1>2, <1>3, PTL DEF KeysSpec
=============================================================================
