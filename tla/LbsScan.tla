------------------------------ MODULE LbsScan ------------------------------
(***************************************************************************)
(* Scanning (scan.c): the ioctls that start a scan and fetch its results,  *)
(* the scan work, which asks the firmware for a few channels at a time and *)
(* queues itself again, the full scan of the association work, and the     *)
(* table of networks the main thread fills from the responses.             *)
(*                                                                         *)
(* scan_work and the association work share one single-threaded workqueue, *)
(* so that there is one scanner; nothing else keeps it, the ioctls and the *)
(* main thread apart.                                                      *)
(***************************************************************************)
EXTENDS Integers, Sequences, SequencesExt, FiniteSets, DelayedWork

CONSTANTS
    NrChannels,     \* the length of the region's channel list
    ChansPerCmd,    \* MRVDRV_CHANNELS_PER_SCAN_CMD (4 in the code)
    InReach,        \* the networks in reach
    ChannelOf,      \* ChannelOf[n]: the channel of network n
    Slots,          \* the descriptors of the table (MAX_NETWORK_COUNT = 64)
    Names,          \* the names a scan can be restricted to
    MaxScanAge,     \* DEFAULT_MAX_SCAN_AGE, 15 seconds in the code
    MaxNow,         \* bound: how far the clock runs
    MaxScans,       \* bound: scans asked for
    ScanFaults      \* \subseteq {"memory", "command", "preempt"}

Region == 1..NrChannels
AnyName  == "any"

ASSUME ScanAssumption ==
    /\ NrChannels \in Nat /\ ChansPerCmd \in Nat \ {0}
    /\ ChannelOf \in [InReach -> Region]
    /\ IsFiniteSet(Slots) /\ IsFiniteSet(InReach)
    /\ MaxScanAge \in Nat /\ MaxNow \in Nat /\ MaxScans \in Nat

VARIABLES
    scan_channel,   \* channels done, 0: no scan, -1: a scan is about to start
    scan_work,      \* "none", "timer", or "queued" behind a running work item
    scan_ssid,      \* the name scans are restricted to
    marking,        \* lbs_set_scan is about to set the marker
    stranded,       \* history: the marker was left behind, without a scan
    scanner,        \* where the work thread is in lbs_scan_networks
    full_scan, curr_chans, chan_count,   \* its locals
    network_list, network_free_list, bss,
    link, carrier, queue_stopped, tx_pending_len,
    now,
    scans,          \* bound: scans asked for so far
    scanned         \* history: the <<channel, name>> of this scan's commands

markVars  == <<scan_channel, marking, stranded>>
tableVars == <<network_list, network_free_list, bss>>
netVars   == <<link, carrier, queue_stopped, tx_pending_len>>
localVars == <<full_scan, curr_chans, chan_count>>
scanVars  == <<markVars, scan_work, scan_ssid, scanner, localVars, tableVars,
               netVars, now, scans, scanned>>

ScanInit ==
    /\ scan_channel = 0 /\ scan_work = "none" /\ scan_ssid = AnyName
    /\ marking = FALSE /\ stranded = FALSE
    /\ scanner = "idle"
    /\ full_scan = FALSE /\ curr_chans = 0 /\ chan_count = 0
    /\ network_list = <<>> /\ network_free_list = SetToSeq(Slots)
    /\ bss = <<>>
    /\ link \in BOOLEAN /\ carrier = link /\ queue_stopped = ~link
    /\ tx_pending_len = 0
    /\ now = 0 /\ scans = 0 /\ scanned = {}
-----------------------------------------------------------------------------
Scanning  == scanner # "idle"
Resetting == scanner \in {"command", "answered", "failed"}

(* The ioctls.  lbs_set_scan queues the work and then sets the marker; it  *)
(* may be preempted in between, for longer than the 50 ms of the timer.    *)
SetScan ==
    /\ ~marking
    /\ scans < MaxScans
    /\ scan_ssid' \in Names \cup {AnyName}
    /\ scan_work' = Queued(scan_work)
    /\ \/ /\ "preempt" \in ScanFaults
          /\ marking' = TRUE
          /\ UNCHANGED <<scan_channel, stranded>>
       \/ /\ scan_channel' = -1
          /\ stranded' = FALSE
          /\ UNCHANGED marking
    /\ scans' = scans + 1
    /\ UNCHANGED <<scanner, localVars, tableVars, netVars, now, scanned>>

SetMarker ==
    /\ marking
    /\ scan_channel' = -1
    /\ marking' = FALSE
    /\ stranded' = (scan_work = "none" /\ ~Resetting)
    /\ UNCHANGED <<scan_work, scan_ssid, scanner, localVars, tableVars, netVars,
                   now, scans, scanned>>

(* lbs_get_scan: -EAGAIN while the marker is set; otherwise the entries    *)
(* that are too old are dropped and the others listed, until the buffer of *)
(* the caller is full.                                                     *)
TooOld(s) == now > bss[s].last_scanned + MaxScanAge
GetScan ==
    /\ scan_channel = 0
    /\ \E seen \in 0..Len(network_list) :
          LET Drop(s) == TooOld(s) /\ \E i \in 1..seen : network_list[i] = s
              Keep(s) == ~Drop(s)
          IN  /\ network_list' = SelectSeq(network_list, Keep)
              /\ network_free_list' = network_free_list \o SelectSeq(network_list, Drop)
    /\ bss' = [s \in ToSet(network_list') |-> bss[s]]
    /\ UNCHANGED <<markVars, scan_work, scan_ssid, scanner, localVars, netVars, now,
                   scans, scanned>>
-----------------------------------------------------------------------------
(* lbs_scan_networks, called by the scan work or by the association work.  *)
(* The channel list is the region's (enable11d is never set); what an      *)
(* interrupted scan has done is skipped, whatever kind of scan this is.    *)
Skipped_Twice == IF scan_channel > 0 THEN scan_channel + 1 ELSE 0
Skipped == IF scan_channel > 0 THEN scan_channel ELSE 0

Begin(full) ==
    /\ full_scan' = full
    /\ \/ /\ "memory" \in ScanFaults
          /\ scanner' = "restore"
          /\ stranded' = (scan_channel # 0 /\ scan_work' = "none")
          /\ UNCHANGED <<curr_chans, chan_count, carrier, queue_stopped, scanned>>
       \/ /\ curr_chans' = Skipped
          /\ chan_count' = NrChannels - Skipped
          /\ carrier' = FALSE /\ queue_stopped' = TRUE
          /\ scanner' = "command"
          /\ stranded' = FALSE
          /\ scanned' = IF full \/ Skipped = 0 THEN {} ELSE scanned
    /\ UNCHANGED <<scan_channel, marking, tableVars, link, tx_pending_len, now>>

ScanTimer ==
    /\ scan_work = "timer"
    /\ scan_work' = "queued"
    /\ UNCHANGED <<scan_channel, scan_ssid, marking, stranded, scanner, localVars,
                   tableVars, netVars, now, scans, scanned>>

(* lbs_scan_worker: a partial scan.                                        *)
ScanWorker ==
    /\ ~Scanning
    /\ scan_work = "queued"
    /\ scan_work' = "none"
    /\ Begin(FALSE)
    /\ UNCHANGED <<scan_ssid, scans>>

(* lbs_send_specific_ssid_scan and lbs_find_best_network_ssid, from the    *)
(* association work: a full scan, for one name or for any.                 *)
FullScan ==
    /\ ~Scanning
    /\ scans < MaxScans
    /\ scans' = scans + 1
    /\ scan_ssid' \in Names \cup {AnyName}
    /\ scan_work' = Cancelled(scan_work)
    /\ Begin(TRUE)

(* lbs_do_scan: the command for the next channels, answered by the main    *)
(* thread, or failing.                                                     *)
ToScan == IF ChansPerCmd < chan_count THEN ChansPerCmd ELSE chan_count
Chunk  == (curr_chans + 1)..(curr_chans + ToScan)

(* One entry of the response (lbs_ret_80211_scan): the network's own entry *)
(* is written again, or a free slot is taken, or the oldest entry's.       *)
Entry(net) == [net |-> net, last_scanned |-> now]
With(table, list, s, net) ==
    [list |-> list, free |-> SelectSeq(table.free, LAMBDA x : x # s),
     bss  |-> [x \in ToSet(list) |-> IF x = s THEN Entry(net) ELSE table.bss[x]]]
ToTail(list, s) == Append(SelectSeq(list, LAMBDA x : x # s), s)

(* The first of the entries last scanned at the earliest time.             *)
Oldest_First(table) == Head(table.list)
Oldest(table) ==
    LET seen(i) == table.bss[table.list[i]].last_scanned
        earlier(i, j) == seen(i) < seen(j) \/ (seen(i) = seen(j) /\ i <= j)
        first(i) == \A j \in DOMAIN table.list : earlier(i, j)
    IN  table.list[CHOOSE i \in DOMAIN table.list : first(i)]

SameNetwork_Never(table, net) == {}
SameNetwork(table, net) == {s \in ToSet(table.list) : table.bss[s].net = net}

Insert(table, net) ==
    LET same == SameNetwork(table, net)
    IN  IF same # {} THEN With(table, table.list, CHOOSE s \in same : TRUE, net)
        ELSE IF table.free # <<>>
        THEN With(table, Append(table.list, Head(table.free)), Head(table.free), net)
        ELSE IF table.list # <<>>
        THEN With(table, ToTail(table.list, Oldest(table)), Oldest(table), net)
        ELSE table

(* The beacons and probe responses of a chunk, in the order they come; an  *)
(* entry lbs_process_bss cannot parse is passed over.                      *)
Heard == {n \in InReach : ChannelOf[n] \in Chunk}
Orders(S) == {f \in [1..Cardinality(S) -> S] : IsInjective(f)}

Outdated(s) == now >= bss[s].last_scanned + MaxScanAge
Pruned ==
    LET Fresh(s) == ~Outdated(s)
    IN  [list |-> SelectSeq(network_list, Fresh),
         free |-> network_free_list \o SelectSeq(network_list, Outdated),
         bss  |-> [s \in {x \in ToSet(network_list) : Fresh(x)} |-> bss[s]]]

Becomes(table) ==
    /\ network_list' = table.list
    /\ network_free_list' = table.free
    /\ bss' = table.bss

ScanAnswer ==
    /\ scanner = "command"
    /\ \E parsed \in SUBSET Heard : \E order \in Orders(parsed) :
          Becomes(FoldLeft(Insert, Pruned, order))
    /\ scanned' = scanned \cup (Chunk \X {scan_ssid})
    /\ scanner' = "answered"
    /\ UNCHANGED <<scan_channel, scan_work, scan_ssid, marking, stranded, localVars,
                   netVars, now, scans>>

(* More than MAX_NETWORK_COUNT results, an error, a timeout.               *)
ScanFails ==
    /\ scanner = "command"
    /\ "command" \in ScanFaults
    /\ scanner' = "failed"
    /\ Becomes(Pruned) \/ UNCHANGED tableVars
    /\ UNCHANGED <<markVars, scan_work, scan_ssid, localVars, netVars, now, scans,
                   scanned>>

(* The rest of the loop: the next command, or, in a partial scan, the      *)
(* work queued again for the rest.                                         *)
NextChunk_MarkerKept(done) == scan_channel
NextChunk(done) == IF scan_channel < 0 THEN done ELSE scan_channel + done

Rest_Forgotten == Cancelled(scan_work)
Rest == Queued(Cancelled(scan_work))

MoreChannels ==
    /\ scanner = "answered"
    /\ chan_count > ToScan
    /\ curr_chans' = curr_chans + ToScan
    /\ chan_count' = chan_count - ToScan
    /\ \/ /\ full_scan
          /\ scanner' = "command"
          /\ UNCHANGED <<scan_channel, scan_work>>
       \/ /\ ~full_scan
          /\ scan_channel' = NextChunk(ToScan)
          /\ scan_work' = Rest
          /\ scanner' = "restore"
    /\ UNCHANGED <<scan_ssid, marking, stranded, full_scan, tableVars, netVars, now, scans,
                   scanned>>

(* The last channel: SIOCGIWSCAN is sent and the scan is over.             *)
ScanDone ==
    /\ scanner = "answered"
    /\ chan_count = ToScan
    /\ chan_count' = 0
    /\ scan_channel' = 0
    /\ scanner' = "restore"
    /\ UNCHANGED <<scan_work, scan_ssid, marking, stranded, full_scan, curr_chans, tableVars,
                   netVars, now, scans, scanned>>

ScanGivenUp ==
    /\ scanner = "failed"
    /\ scan_channel' = 0
    /\ scanner' = "restore"
    /\ UNCHANGED <<scan_work, scan_ssid, marking, stranded, localVars, tableVars, netVars,
                   now, scans, scanned>>

(* The end of lbs_scan_networks: connect_status is tested, the carrier is  *)
(* put on, and the queue woken unless a packet is lined up.                *)
ScannerAt(from, to) ==
    /\ scanner = from
    /\ scanner' = to
    /\ UNCHANGED <<scan_channel, scan_work, scan_ssid, marking, stranded, full_scan,
                   tableVars, link, tx_pending_len, now, scans, scanned>>
    /\ curr_chans' = 0 /\ chan_count' = 0

RestoreLink ==
    /\ ScannerAt("restore", IF link THEN "carrier" ELSE "idle")
    /\ UNCHANGED <<carrier, queue_stopped>>

RestoreCarrier ==
    /\ ScannerAt("carrier", "wake")
    /\ carrier' = TRUE
    /\ UNCHANGED queue_stopped

StillStopped_Always == queue_stopped
StillStopped == queue_stopped /\ tx_pending_len # 0
RestoreQueue ==
    /\ ScannerAt("wake", "idle")
    /\ queue_stopped' = StillStopped
    /\ UNCHANGED carrier
-----------------------------------------------------------------------------
(* The rest of the driver: packets come and go, the link goes and comes    *)
(* (association is not under way while the work thread scans), time passes.*)
Xmit ==
    /\ carrier /\ ~queue_stopped /\ tx_pending_len = 0
    /\ tx_pending_len' = 1 /\ queue_stopped' = TRUE
    /\ UNCHANGED <<link, carrier>>

TxSent ==
    /\ tx_pending_len = 1
    /\ tx_pending_len' = 0
    /\ queue_stopped' = (queue_stopped /\ ~link)
    /\ UNCHANGED <<link, carrier>>

LinkGone ==
    /\ link
    /\ link' = FALSE /\ carrier' = FALSE /\ queue_stopped' = TRUE
    /\ tx_pending_len' = 0

LinkUp ==
    /\ ~link /\ ~Scanning
    /\ link' = TRUE /\ carrier' = TRUE
    /\ queue_stopped' = (queue_stopped /\ tx_pending_len # 0)
    /\ UNCHANGED tx_pending_len

Others ==
    /\ Xmit \/ TxSent \/ LinkGone \/ LinkUp
    /\ UNCHANGED <<scan_channel, scan_work, scan_ssid, marking, stranded, scanner,
                   localVars, tableVars, now, scans, scanned>>

Tick ==
    /\ now < MaxNow
    /\ now' = now + 1
    /\ UNCHANGED <<scan_channel, scan_work, scan_ssid, marking, stranded, scanner,
                   localVars, tableVars, netVars, scans, scanned>>

ScanStep ==
    \/ ScanTimer \/ ScanWorker \/ ScanAnswer \/ ScanFails \/ MoreChannels
    \/ ScanDone \/ ScanGivenUp \/ RestoreLink \/ RestoreCarrier \/ RestoreQueue

ScanNext ==
    \/ SetScan \/ SetMarker \/ GetScan \/ FullScan \/ ScanStep \/ Others \/ Tick

(* Timers expire, queued work runs, commands are answered (with an error   *)
(* at the latest, LbsThread).                                              *)
ScanFairness ==
    /\ WF_scanVars(ScanTimer) /\ WF_scanVars(ScanWorker)
    /\ WF_scanVars(ScanAnswer \/ ScanFails)
    /\ WF_scanVars(MoreChannels \/ ScanDone \/ ScanGivenUp)
    /\ WF_scanVars(RestoreLink \/ RestoreCarrier \/ RestoreQueue)

ScanSpec == ScanInit /\ [][ScanNext]_scanVars /\ ScanFairness
-----------------------------------------------------------------------------
(* Every descriptor is on exactly one of the two lists, once, and no       *)
(* network has two entries (lbs_ret_80211_scan, is_same_network).          *)
TableWellFormed ==
    /\ IsInjective(network_list \o network_free_list)
    /\ ToSet(network_list \o network_free_list) = Slots
    /\ \A s, t \in ToSet(network_list) : bss[s].net = bss[t].net => s = t

(* The oldest entry makes room, never a newer one: a network leaves the    *)
(* table when it is too old or when all that stay were heard no earlier.   *)
OldestMakesRoom ==
    [][scanner = "command" /\ scanner' = "answered"
       => \A s \in DOMAIN bss : \A t \in DOMAIN bss' :
             \/ \E x \in DOMAIN bss' : bss'[x].net = bss[s].net
             \/ Outdated(s)
             \/ bss'[t].last_scanned >= bss[s].last_scanned]_scanVars

(* "iwlist should wait until the current scan is finished" (lbs_get_scan): *)
(* -EAGAIN is answered only while a scan is under way or coming.           *)
AgainOnlyWhileScanning ==
    scan_channel # 0 => scan_work # "none" \/ Scanning \/ stranded

(* ... and not for ever.                                                   *)
ScanEnds == scan_channel # 0 ~> scan_channel = 0 \/ stranded

(* SIOCGIWSCAN after a partial scan means that all channels were visited,  *)
(* however many ioctls and full scans came between its commands.           *)
Visited == {c[1] : c \in scanned}
PartialScanVisitsAll ==
    [][scanner = "answered" /\ scanner' = "restore" /\ ~full_scan
       /\ chan_count' = 0 => Visited = Region]_scanVars

(* The scan gives the interface back: while the work thread is idle, an    *)
(* associated interface has its carrier and a queue that is running or     *)
(* will be woken when the packet lined up is sent.                         *)
InterfaceRestored ==
    ~Scanning /\ link => carrier /\ (queue_stopped => tx_pending_len # 0)
=============================================================================
