# The Libertas driver in TLA+

The repository is an old `compat-wireless` tree reduced to one driver: Marvell's
Libertas 88W8686 SDIO driver, `src/kernel/net/wifi` (about 14 000 lines of C), with
vendored kernel headers and build scripts around it. This directory holds TLA+
modules of that driver, TLC configurations that check them on small instances, and
TLAPS proofs about them for every value of the constants.

Paths without a directory below are in `src/kernel/net/wifi/`.

## 1. Inventory

### Threads of control

| thread | code | what it does |
|---|---|---|
| callers | any process (ioctl, sysfs, debugfs) or work item (scan, association) | issue firmware commands |
| main thread | `lbs_thread`, main.c:683-893 | responses, timeouts, events, sleep, next command, next data packet |
| command timer | `command_timer_fn`, main.c:982 | marks the command in flight as timed out |
| SDIO worker | `if_sdio_host_to_card_worker`, if_sdio.c:415 | writes queued packets to the card |
| interrupt handler | `if_sdio_interrupt`, if_sdio.c:846 | download acknowledged, response, event, received data |
| network layer | `lbs_hard_start_xmit`, tx.c:60 | gives the driver one packet at a time |
| SDIO core | `if_sdio_probe`, `if_sdio_remove` | the card comes and goes |

They share `struct lbs_private` under `driver_lock`, mostly. The behaviours that make
the driver hard are those where the lock is dropped or not taken.

### Components

**Driver state** (dev.h, hostcmd.h). About a hundred fields of `lbs_private`, the
command nodes (`cmd_ctrl_node`) in an array of ten, linked in `cmdfreeq` and
`cmdpendingq`.

**Command interface** (cmd.c). State: the two lists, `cur_cmd`, `cur_cmd_retcode`,
`seqnum`; per node command, number, callback, result and `cmdwaitqwoken`.
Operations: `__lbs_cmd`, `lbs_cmd_async`, `lbs_prepare_and_send_command` (with and
without waiting), `lbs_queue_cmd`, `lbs_complete_command`,
`__lbs_cleanup_and_insert_cmd`. Hard: who frees a node depends on its callback; the
sequence number is incremented without a lock; waits can be interrupted; one return
code is shared by all legacy callers. Correct if: no buffer is shared or lost, a caller
gets its own command's result, every call returns, callers are served in order.

**Main thread and timer** (main.c). State: the wait queue, `cmd_timed_out`,
`nr_retries`, `dnld_sent`, `resp_idx`. Hard: it decides to sleep from a dozen shared
fields; timeouts are handled without the lock; a command is retried up to three times
by putting it back at the head of the queue. Correct if: no wake-up is lost, every
command in flight is timed, retries are counted for the right command.

**Responses and events** (cmdresp.c). State: two response buffers, `event_fifo`,
`connect_status`. Hard: answers to earlier copies of a retried command arrive late; the
lock is dropped for callbacks. Correct if: an accepted response answers the command in
flight, and a buffer is free when it is filled.

**Power save** (cmd.c, cmdresp.c, wext.c:730). State: `psstate`, `psmode`,
`needtowakeup`. Operations: `lbs_set_power`, ENTER_PS and EXIT_PS commands the driver
queues itself, the handshake PS_SLEEP - confirmation - PS_AWAKE. Correct if: nothing is
handed to a sleeping card, the driver never thinks power save is over when the firmware
does not, and commands still get through.

**SDIO glue** (if_sdio.c). State: the packet list, card status, the two response buffers'
index; while the firmware is downloaded, the position in the image. Hard: a packet that
cannot be written is dropped silently; the response buffers are flipped without asking;
the card asks for any number of bytes. Correct if: nothing is read beyond an image or a
transfer.

**Probe, start and removal** (if_sdio.c:886-1071, main.c:946-1330). A dozen steps, each
taking something and each able to fail, and labels that give back. Callers, work items,
timer and main thread must all end. Correct if: removal completes, and what was taken is
given back.

**Transmit path** (tx.c, main.c:440-525, 863-884). State: `tx_pending_len`,
`tx_pending_buf`, the netif queues, `currenttxskb`. Hard: the packet is built outside
the lock; three parties stop and start the queue. Correct if: a queue that is stopped
while associated is started again.

**Receive path** (rx.c). State: the ring of signal values (`rawSNR`, `nextSNRNF`,
`numSNRNF`), `cur_rate`. Hard: association and disconnection clear the ring without a
lock. Correct if: the average is that of the last packets.

**Network devices** (main.c:260-680). State: `infra_open`, `mesh_open`, `monitormode`,
`mac_control`, the kernel's flags and lists. Operations: open, stop, the multicast work,
monitor mode, the mesh device. Hard: the work reads flags and lists that change under it
and shares `mac_control` with the association work. Correct if: what a device joined is
let through, and no device is open in monitor mode.

**Scanning** (scan.c). State: `network_list`, `network_free_list`, `scan_channel`, a
delayed work. Operations: the two ioctls, the work that scans a few channels at a time,
the association work's full scans. Hard: `scan_channel` has no lock; a scan stops queue
and carrier and must restore them. Correct if: the table is a table, scans end and visit
every channel, the interface is given back.

**Association worker** (assoc.c) and the ioctls that feed it (wext.c). State: the pending
request, its flags, `assoc_work`, the request in progress, the association. Hard: a new
request copies what was not asked for from an adapter that the request in progress is
changing; every ioctl postpones the work. Correct if: settings add up, requests are
taken up, nothing is associated on top of an association.

**Settings** (wext.c, cmd.c:497-790). Thresholds, retries, power, the data rate. Hard: every
received packet writes `cur_rate`; refusals come after the driver's value was stored.
Correct if: what was accepted is in force.

**Mesh configuration** (persistcfg.c) and **debugfs** (debugfs.c). Fields of a record the
firmware keeps, changed by fetching and writing back the whole. Hard: no lock in between.

**Link quality** (wext.c:796), **transfer sizes** (helper.c, if_sdio.c:320). Arithmetic.

**Region and addresses** (main.c:55-164, 540-570, 1015-1290, cmd.c:78-161, the lists of channels in
wext.c). State: `regioncode`, `region_channel`, the addresses of the two devices. Hard: the code the
firmware reports is 16 bits, what an ioctl asks for is signed and wider than a channel; the mesh
device is added while an address may be set. Correct if: what is listed can be set; both devices
have one address.

**Radio channel** (assoc.c:586-652, wext.c:964-1012, cmd.c:784-862, 1036-1099). State:
`curbssparams.channel`, the channel the radio is on, and whether the mesh runs. Shared by the
association worker, the mesh ioctls and the work `sync_channel`, without a lock. Correct if: driver and
radio agree when all have returned, and the mesh is on again.

**Keys** (assoc.c:655-770, cmd.c:292-477). Up to six commands per request, each of which may
fail. Correct if: the key that is shown as the transmit key is the one in use.

**802.11d** (11d.c). Country elements to domains; pure, and not reached while nothing sets `enable11d`.
**Ethtool**'s wake criteria. The board's registers and the rest of ethtool are not modelled (section 6).
PROJECT.json lists each component, and every hazard of the code with its line and the
properties that watch it.

## 2. The modules

```
LbsPriv         the shared state, its types, operations several threads perform
 +- LbsCmd      callers: __lbs_cmd, lbs_cmd_async, lbs_prepare_and_send_command, lbs_set_power
 +- LbsThread   lbs_thread with responses, events, power save; the command timer
 +- LbsCard     SDIO worker, interrupt handler, and what is assumed of the firmware
 +- LbsTx       lbs_hard_start_xmit
 +- LbsRemove   if_sdio_remove, lbs_stop_card, lbs_remove_card
     Libertas         their interleaving, fairness, the properties
      +- LibertasService   the refinement mapping onto CmdService (abstract)
      |   +- MCLibertas    instances for TLC
      +- LibertasTypes     theorem: type correctness
          +- LibertasOwners    theorem: ownership of the command buffers
              +- LibertasThread    theorems: the sleeping thread, its wake-ups, its timer,
              |                    power save
              +- LibertasCalls     theorems: answers, retries, results, and (with
                                   LibertasService) the refinement of CmdService

LbsScan, LbsAssoc   scanning, association and its ioctls (both use DelayedWork)
LbsMesh, LbsDebugfs files over a record of the firmware; both implement
                    ReadModifyWrite, the abstract statement, with its theorem
LbsNetdev           open, stop, multicast, monitor mode
LbsRx               received packets and their signal values
LbsSettings         thresholds, retries, power, data rate
LbsFirmware         download
LbsProbe            probe and removal
LbsTransfer         block sizes (operators)
LbsQuality          link quality (operators)
LbsRegion           region, channels of the ioctls, addresses
 +- LbsCountry      802.11d, applied to LbsRegion's tables
LbsRadio            the channel that the mesh and the other interface share
LbsKeys             the commands of WEP and WPA keys
LbsWake             wake criteria
 MCParts            instances of the eight state machines above LbsRegion, but
                    LbsNetdev, for TLC
 MCRadio            instances of LbsNetdev and of the five from LbsRegion on
 FilesProof         theorems on LbsMesh, LbsDebugfs
 DevicesProof       theorems on LbsFirmware, LbsProbe, LbsTransfer, LbsNetdev,
                    LbsRegion, LbsRadio
 WextProof          theorems on LbsSettings, LbsScan, LbsAssoc, LbsQuality, LbsKeys
```

The first family is one system: its modules share `struct lbs_private`, and the runs
interleave them. The parts of the second family touch that system only through "a
command is answered, or fails", which the first family's runs establish
(`EveryCallReturns`; that the result is the caller's own, `SyncReturnsOwnResult`, for
`__lbs_cmd`). The two ways of sending that promise less have it in the modules: LbsSettings reads
the shared `cur_cmd_retcode` as `lbs_prepare_and_send_command` does, and what LbsNetdev sends with
`lbs_cmd_async` may be dropped without a trace. In LbsDebugfs and LbsAssoc, which use the former
for registers and to associate, the result told is that of the command. Each is a state machine with variables of its
own, and fields two of them read (`connect_status`, `tx_pending_len`) appear in each as
far as its code looks at them, with the other parts' writes as actions (`Others` in
LbsScan, `LinkLost` in LbsAssoc, `ClearRaw` and its like in LbsRx).

### State

Most variables carry the name of the field of `lbs_private` they stand for. The others:

- `node[n]` is a `cmd_ctrl_node` with the command and number its buffer holds. `rid`
  (which request the node carries) and `sent` (how often it was submitted) are history:
  no guard reads them.
- `timer`, `timer_running`: the timer is armed; it has expired and its handler has not
  yet got `driver_lock`. `del_timer` cancels only the first.
- `resp[i]` is `NoResp` exactly when `resp_len[i]` is 0.
- `main` is the main thread's program counter, `main_woken` says that it was made
  runnable while on `waitq`, `main_ret` where `lbs_ps_confirm_sleep` was called from.
- `pc`, `held`, `call` are the callers' program counters and locals; `calls`, `ret` and
  `outcome` (history) describe their calls.
- `packets` is `card->packets`; `fw_cmds`, `fw_ack`, `fw_ps` the card.
- `bug`: a `BUG_ON` was hit; nothing runs any more.

### Grain

`driver_lock` is no variable: a critical section is one step. Where the code works on
shared state without the lock, a step ends before the next access another thread could
disturb: the number is taken in one step and put in the buffer (from `priv->seqnum`,
reloaded or not) in another; the main thread tests `cmd_timed_out` in one step and clears
it in the next; it clears `resp_len` in a step after the command was completed; the
confirmation of a sleep request is handed over in one step and `psstate` set in another.

A wake-up counts while the main thread is between `add_wait_queue` and
`remove_wait_queue`: that is `main = "asleep"`, and perhaps the moment `"check"`
(`Wake` leaves both possibilities open there).

### Correspondence

| code | definition |
|---|---|
| `__lbs_cmd`, `lbs_cmd_async` | `Issue` (node taken, number given), `Queue`, `ReturnSync` |
| `lbs_prepare_and_send_command` | `Issue`, `Queue`, `EndWait`, `ReturnLegacy`; called by the main thread: `PrepareNoWait` |
| `lbs_set_power` | `SetPower`; its `ret` is that of the command (the function itself returns 0 whatever the command did) |
| `lbs_queue_cmd` | `Enqueued` (EXIT_PS goes to the head of the queue while in power save) |
| `lbs_complete_command` | `Complete`, `Done`, `Cleaned` |
| top of the loop of `lbs_thread` | `MainCheck`, `MainWakeUp`, `MainRun`, `MainExit`; the ten conditions are `ShouldSleep` |
| `lbs_process_command_response` | `DropResponse`, `PsOrErrorResponse`, `MainRespWakeup`, `GoodResponse`, `MainCallback`, `MainFinish`, then `MainConsume` |
| timeouts, main.c:781-806 | `GiveUp`, `Requeue`, `NoTimeout`, `ClearTimeout` |
| `lbs_process_event` | `DeauthEvent`, `PsSleepEvent`, `PsAwakeEvent`, `HostAwakeEvent`, `OtherEvent` |
| `lbs_ps_confirm_sleep`, `lbs_send_confirmsleep` | `MainPreSleep`, `MainConfirm`, `MainConfirmDelayed`, `MainConfirmSent` |
| `lbs_execute_next_command`, `lbs_submit_command` | `SubmitNext`, `WakeFirmwareFirst`, `IgnoreEnterPs`, `EnterPowerSave`, `NothingToExecute` |
| data packets, main.c:863-884 | `MainTx` |
| `command_timer_fn` | `TimerExpires`, `TimerHandler` |
| `if_sdio_host_to_card`, its worker | `HostToCard`, `HostToCardFails`, `WritePacket`, `DropPacket` |
| `if_sdio_interrupt` | `DownloadInterrupt`, `ResponseInterrupt`, `LoseResponse`, `EventInterrupt` |
| `lbs_hard_start_xmit` | `XmitDropped`, `XmitBusy`, `XmitBuild`, `XmitLineUp` |
| `if_sdio_remove` and what it calls | `CardRemoved`, `FlushPending`, `CancelWork`, `StopThread`, `FreeAdapter` |
| `lbs_set_scan`, `lbs_get_scan` | `SetScan`, `SetMarker`; `GetScan` |
| `lbs_scan_networks` | `Begin` (by `ScanWorker`, `FullScan`), one round per `ScanAnswer` or `ScanFails`, `MoreChannels` or `ScanDone`, then `RestoreLink`, `RestoreCarrier`, `RestoreQueue` |
| `lbs_ret_80211_scan` | `Pruned`, `Insert`, `Oldest`, `SameNetwork` within `ScanAnswer` |
| ioctls of association | `SetFreq`, `SetMode`, `SetEssid`, `SetWap`, `SetGenie`, `SetEncode`, `SetEncodeExt`, `SetAuth`, each an `Ask` |
| `lbs_association_worker` | `Take`, `Choose`, `Leave`, then one action per helper: `Mode`, `Channel`, `WepKeysSent`, `SecInfo`, `Genie`, `WpaKeysSent`, `AssociateStep` |
| persistcfg.c | `Write`, `Fetched`, `Set`; `Read`, `Shown` |
| debugfs.c | `ThresholdWrite`, `MaskFetched`, `MaskSet`; `OffsetWrite`, `RegRead`, `RegShown`, `RegWrite`, `RegWritten` |
| `lbs_set_mcast_worker` | `WorkStarts`, `AddMcastAddrs` per device, `SendList`, `ReadControl`, `StoreControl`, `SendControl`; the commands by `CmdAsync` |
| `lbs_set_rts` and its like | `SetItem`, `SetTxpow`, `GetItem`; the answer is `ItemAnswered` (`lbs_ret_802_11_snmp_mib` in `Handled`), a signal `ItemSignalled`, what others do to the shared result `OtherCommand`; `SetDone` and `GetDone` read it |
| `lbs_rtap_set` | `RtapOn`, `RtapLeft`, `RtapAdded`, `RtapStored`; `RtapOff`, `RtapRemoved`; `RtapTell`, `RtapDone` |
| `lbs_compute_rssi` | `CountIt`, `SaveIt`, `Advance`, `CheckCount`, `Divide` |
| `lbs_set_rate` | `SetRate`, `SetNoRate`, then `Adapt` or `Older` |
| `if_sdio_prog_real` | `StartReal`, `Request`, `Chunk512`, `PieceSent`, `RealSent`, `Booted` |
| `if_sdio_probe`, `if_sdio_remove` | one action per step, one per label |
| `lbs_update_hw_spec`, `lbs_add_mesh` | `UpdateHwSpec`, `HwSpecFails`; `PublishMesh`, `ReadAddr`, `WriteAddr` |
| `lbs_set_mac_address` | `SetMacAddress`, `KeepAddr`, `KeepMeshAddr` |
| `lbs_set_freq`, `lbs_get_freq`, `lbs_get_range` | `ChannelFor`, `ShownFreq`, `RangeFreqs` |
| `lbs_parse_dnld_countryinfo_11d`, `lbs_create_dnld_countryinfo_11d` | `ParseCountry`, `CreateCountry`, by `Parsed` or `OfRegion` and `Domain` |
| `assoc_helper_channel` | `SetChannel`, `Looked`, `MeshOff`, `ChannelSet`, `Checked`, `Restarted` |
| `lbs_mesh_set_freq`, `lbs_mesh_set_essid` | `MeshSetFreq`, `Left`, `Moved`, `LookedAgain`; `MeshSetEssid`, `Renamed` |
| MESH_AUTO_STARTED, `lbs_sync_channel_worker` | `MeshAutoStarted`; `SyncChannel`, `LookedAgain` |
| `assoc_helper_wep_keys`, `assoc_helper_secinfo`, `assoc_helper_wpa_keys` | `SetWep`, `SetFilter`, `KeepKeys`; `SetSecInfo`, `GetRsn`, `SetRsn`; `KeyMaterial` |
| `lbs_ethtool_set_wol`, `lbs_host_sleep_cfg`, `lbs_ethtool_get_wol` | `SetWol`, `HostSleepCfg`, `WolOpts` |

### What is abstracted, and what is left out

- *Lists are sequences.* The pointer operations main.c:803 and cmd.c:1754-1781 do
  without the lock can corrupt the real lists; here each is atomic.
- *Commands* are those whose handling differs: EXIT_PS, ENTER_PS, RSSI (passes in power
  save), ASSOCIATE, DEAUTHENTICATE, and GENERIC for all others. Their contents do not
  appear. An ASSOCIATE that succeeds may still report a failed association.
- *The firmware* is external. Assumed: it acknowledges what it receives, answers its
  commands in order, at most once per copy received; does what it answers with 0; asks
  for sleep only in power save; sleeps from the confirmation on and eventually wakes
  itself. Only the loss of commands and responses is modelled, not that of a download
  interrupt. In LbsRadio: that it sets no channel while the mesh is on, and that starting the mesh moves
  the radio (the comments of assoc.c:602-652); in LbsKeys: that CMD_ACT_REMOVE clears all WEP keys, and
  that of two WPA keys in one command it takes the first ("must be set independently"). `fw_ready` is
  true: firmware download is over.
- *psstate in `lbs_queue_cmd`* is read just before the lock is taken, here in the same step.
- *Sleeps* (`ssleep(1)` while disconnecting) and the mutex `priv->lock` are left out:
  nothing modelled is decided by them. `unregister_netdev` and the rtnl lock are left
  out of the removal; callers may still be running after `freed`.
- *Second queues*: the transmit modules have one device. `lbs_tx_timeout` and transmit
  feedback are left out.
- *In the second family* a command is a step that succeeds, or fails where the instance's
  set of faults says so. Scan results are pairs of network and time; the contents of beacons,
  rates and information elements in commands are left out. WPA and WPA2 are one bit and the
  WPA keys only flags. A sysfs or debugfs file is read in one go. Arithmetic keeps its
  width where it can leave it (`% 256` in LbsMesh and LbsQuality, `% 65536` in LbsTransfer,
  `% 2^32` in LbsQuality).
- *History variables* say what a property is about (`wanted`: what the user asked for;
  `overtaken`: fields written since a fetch) or name an interference the code does not
  exclude (`stranded`, `spoilt`, `slipped`, `disturbed`, `overwritten`, `crossed`): the
  properties hold in all behaviours without it, and section 4 says what happens with it.
  `behind`, `unsure`, `cause` and `misfreed` are finer: they say which command, which setting or
  which step is concerned, and the properties say what holds beside it.
- *Faulty forms.* Some definitions are preceded by a variant, `X_How`, that no action uses. It
  is what a plausible bug would make of X (a dropped test, a counter not reset, the
  wrong end of a list), and PROJECT.json, "mutants", says which property notices it.

## 3. Properties, runs and bounds

All runs but Parts and Radio are instances of MCLibertas. `Program` gives each
caller the calls it may choose from, in order; each caller runs its program once. Two or
three command buffers stand for ten (so that running out happens), `SeqSize` is larger
than the number of commands in flight plus late answers unless noted, `FifoSize` 2 is
enough for `MaxEvents` at a time.

| run | instance | shows | states |
|---|---|---|---|
| Sync | three callers of `__lbs_cmd`, two buffers; results ok, error and DEFER; failing allocation; retries, give-ups | `NodeOwnership`, `NoLostWakeup`, `SyncReturnsOwnResult`, `ImplementsService` | 1 409 000 |
| Lossy | one caller, two calls; responses lost, answered with DEFER, packets that cannot be allocated, the card pulled out at any moment | `TypeOK`, `InFlightIsTimed`, `EveryCallReturns`, `RemovalCompletes` | 34 000 |
| Retry | one caller, two calls; answers later than the timer, packets lost in the worker; the firmware accepts a second copy before answering the first | `RetriedIsNext`, `AcceptedIsAnswer`, `GiveUpAfterFour` | 863 000 |
| Power | iwconfig power on, then off; PS_MODE may fail, allocation may fail; two events among sleep requests and deauthentications | `PsAgreement`, `SilentInSleep` | 1 598 000 |
| PowerCalls | iwconfig power on, off, beside another command; a sleep request; three buffers | `EveryCallReturns` | 66 000 |
| Traffic | two calls, each ASSOCIATE or DEAUTHENTICATE; two packets; one deauthentication or host-awake event | `EveryCallReturns`, `QueueRestarted` | 133 000 |
| Parts (MCParts) | eight state machines of the second family, each by itself (table below) | seventeen properties | 488 000 |
| Radio (MCRadio) | the other six, each by itself | `CountryKept`, `RadioShared`, `AddressesAgree`, `KeysReach`, `ShownIsReal`, `GroupsLetThrough`, `MonitorOrOpen` | 2 407 000 |

Parts begins in one of eleven parts, `part`, and stays there, so that it explores the
union, not the product, of these instances:

| part | instance | properties |
|---|---|---|
| scan | three channels, two per command; two scans; a preempted ioctl, failing commands and allocations; packets, disconnection and association around the scanner | `AgainOnlyWhileScanning`, `ScanEnds`, `PartialScanVisitsAll`, `InterfaceRestored` |
| table | three networks, two entries, ages up to three, entries too old at two | `TableWellFormed`, `OldestMakesRoom` |
| assoc | two ioctls (each of any kind and value) at any moment of a request's life; an infrastructure network and an ad-hoc one with WEP; two key places; every command may fail | `LastSettingWins`, `WepKeyedUnlessSpoilt`, `AssociatesDisconnected`, `RequestTaken` |
| mesh, events | two processes, two fields, two values; failing commands | `IeIsReadModifyWrite`, `MaskIsReadModifyWrite` |
| registers | two processes, one register file, two offsets | `RegisterShown` |
| firmware | a helper of three blocks and an image of three, requests of 0, 1, 100, 600, 2048 bytes; every failure | `NeverBeyondTheImage` |
| probe | every step may fail | `ProbeUndone` |
| receive | a ring of three, two values | `AverageOfLast` |
| items | one value per setting; a command may be refused, unanswered, left by a signal, or its result replaced by another's; two settings in use at a time, a command left behind counting as one (`FewItems`) | `SettingsKept` |
| rates | any rate, 1 Mb/s, 48 Mb/s; packets of two rates; refusals | `SettingsKept` |

Radio begins in one of seven parts in the same way; in every part commands may be refused, or lost
with or without effect.

| part | instance | properties |
|---|---|---|
| region | ten reported codes (known, unknown, 0, above 8 bits); requests by number and by frequency around both ends of the table, and wider than a channel; networks heard on five channels; two addresses to set | `ShownIsReal`, `AddressesAgree` |
| country | five countries, one of them empty and one without an entry; every sequence of at most two sub-bands that overlap or not, some unknown, and of three in the region of 14 channels; the six regions themselves. One call: it clears what it finds (`FirstCall`) | `CountryKept` |
| channel | two channels, one error code, with and without a mesh device; the worker, a mesh ioctl and the sync work at once, the mesh starting by itself at any moment | `RadioShared` |
| keys | two key places, one WEP key and one WPA key; any number of requests, each made at any moment; no ioctl is made in a state no property speaks of (`Bounded`) | `KeysReach` |
| wake | all 32 requests, any number of them | `ShownIsReal` |
| netdev, monitor | both devices, two groups with room for one, three changes by the kernel; every command may be dropped, or refused | `GroupsLetThrough`, `MonitorOrOpen` |

Why the bounds are enough: a retry sequence is four submissions, and every run that
times out contains complete ones, two commands in succession included; a late answer can
then meet the copy it belongs to, a later copy, or the next command. Three callers and two
buffers reach every ownership state of a node, and the refusal. Two events let a
deauthentication fall between any two steps of entering or leaving power save. `SeqSize`
is 2 in Power, where wrapping is harmless (no late answers) and keeps the state space
finite; a u16 that wraps between a command and its late answer would take 65536 commands,
and is excluded by the sizes of the other runs. In Parts: two scans let one be started
in the midst of another, by either kind of caller; one network more than entries makes
room necessary; one ioctl more than a request lets a request be made while one is in
progress; two processes are what a race needs, and the theorem about ReadModifyWrite
holds for any number; the image is smaller than one request and not a multiple of another;
the ring is filled and wraps; two settings let the answer of one be taken for the other's, and
what a signal left behind be carried out after a later set. `MaxScans`, `MaxNow`, `MaxCalls`,
`MaxChanges` only bound how
often the environment acts.

`CHECK_DEADLOCK FALSE` is given where the code can stop: in Retry, Power and Sync a
recorded timeout can be lost (the LostTimeout finding), after which a command is waited
for for ever; in Lossy callers whose command was in flight are never told of the removal
(`EveryCallReturns` asks for a return only while the card is there); in Parts and Radio a part is
over when its bounds are used up. Elsewhere TLC also shows that the driver never stops
short of `AllReturned`.

### Abstract specification

CmdService says what `__lbs_cmd` promises: requests are served one at a time in the order
queued, one put back is served next, every call returns its own answer or a refusal, and
no request is answered twice or dropped. Its queue is a set of clients with their order, so
that what stands between two requests does not matter. Under LibertasService's mapping (the
queue is the clients on `cmdpendingq` and who of them comes before whom, the answer is the
`result` of a node marked woken) every step of the driver is a step of CmdService or a
stutter. Sync checks it with retries in every position of the queue; section 5 proves it.

ReadModifyWrite says what files changing one field of a shared record promise: a copy
agrees with the record in each field nobody else has written since it was fetched. LbsMesh
implements it with the information element as the record (as long as the fetch succeeds:
its result is ignored, section 4), LbsDebugfs with the subscribed events.

### Fairness

`FairSpec` adds weak fairness, for each separately, of: the main thread; a caller that has
a node to queue, or whose wait is over; the SDIO worker; a pending download or upload
interrupt; the waking of a sleeping firmware; an expired timer and its handler; the second
half of a transmission; each step of a removal under way. That is what the scheduler, the
work queue, the timer and a live card give. Calls, packets, events, faults and the removal
need never happen, and nothing is strongly fair. With the `late` fault the timer could win
against every answer, which is why liveness is checked with lost responses (Lossy) instead.
A condition in a weak fairness formula is `~bug`, since after a `BUG_ON` nothing runs.

In Parts weak fairness is given to the scan's and the association's timers and works, each
step of them, and the second half of `lbs_set_scan`: the workqueue and the kernel's
scheduler give it, and that a command is answered or fails is what the other runs show.
Users, the network and faults have none. Radio checks invariants only and states no fairness.

## 4. Where the code disagrees with what the repository says of it

Four runs expect a violation; PROJECT.json quotes the lines.

- **LateAnswers**, `ResponseBufferFree`: two copies of a timed-out command are answered
  before the main thread has emptied a buffer, and `BUG_ON(priv->resp_len[i])`
  (if_sdio.c:234) stops the kernel. Needs a firmware that answers late and keeps both copies.
- **LostTimeout**, `InFlightIsTimed`: `cmd_timed_out = 0` (main.c:806) discards a timeout
  recorded since the test at main.c:782. Nothing watches the command any more.
- **Interrupted**, `NodeOwnership`: a signal ends the wait at cmd.c:2033; the node is freed
  while pending or in flight.
- **StuckRemoval**, `RemovalCompletes`: `cancel_work_sync` (main.c:1198-1200) waits for a work
  item that waits for the command in flight, which nobody completes: the main thread will be
  stopped only afterwards.

Other behaviours the model shows when its constants are changed, and which no run keeps
because no document of the repository contradicts them, or because a run above
demonstrates the same cause:

- With `MaxTx = 1` `NoLostWakeup` fails: with a command in flight and nothing to transmit,
  `lbs_host_to_card_done` (main.c:517) does not wake a main thread that went to sleep on
  `dnld_sent` (main.c:726) with a response waiting. Another interrupt or the timer does later.
- `cur_cmd_retcode` is shared: a legacy caller can be told 0 though its command failed,
  because another submission cleared it (cmd.c:1529), or -1 for another command's failure; what
  that means for a setting is modelled in LbsSettings (*Settings* below).
- A legacy caller waits on a node that was freed when completed (cmd.c:1524): if it is reused
  first, the caller sleeps through another command.
- With two buffers, both pending, no node is left for the EXIT_PS the driver needs to get at
  them (cmd.c:1736).
- A packet dropped by the worker leaves `dnld_sent` set; a retry clears it (main.c:802),
  giving up does not (main.c:785-792), and the driver then hands over nothing more.
- Two callers can be given one sequence number (cmd.c:1988); with late answers one's answer
  can be taken for the other's.
- In power save a retried command is put back at the head (main.c:803) and an EXIT_PS before
  it (cmd.c:1155): `nr_retries` then counts for the wrong command.
- Commands queued after the flush of `lbs_stop_card` (main.c:1317), or in flight then, are
  not told of the removal.
- With responses lost in Power, `PsAgreement` fails: after four lost answers an ENTER_PS is given
  up (main.c:785-792) although the firmware has entered power save, and `psstate` stays FULL_POWER.
- With HOST_AWAKE events or late handlers a timer handler that lost the race with an answer
  can time out the next command at once (cmdresp.c:421).

The runs of MCLibertas are therefore statements about instances without these conditions, and
their constants say which: in the passing runs `Signals` is empty, `Hotplug` is set in Lossy only,
`late` in Retry only, responses are lost in Lossy only, and what a legacy call returns is not judged.

In the second family, each of these is a behaviour of the modules; where a comment of the code says
otherwise it is quoted (where an interference is
named, a history variable records it):

- *Scan*: a full scan skips the channels an interrupted partial scan has done (scan.c:407).
  The marker stays set, and `iwlist` waits, after `lbs_set_scan` was preempted for longer than
  the work took, or when the channel list could not be allocated (`stranded`).
- *Requests*: a refused ioctl drops the settings other ioctls made before it (wext.c:33). One
  made while the work is in progress copies values that are about to change (`spoilt`). An
  authentication setting the driver does not know leaves a new request without a work
  (wext.c:1785). `lbs_set_auth` turns WEP off
  without the flag that would remove the keys and turn off the firmware's WEP filter (wext.c:1743; in
  LbsKeys `fw_keys.filter` then differs from `conf.wep`).
- *Association*: an AD_HOC_START or join is sent while connected; the mesh stays stopped when
  the channel cannot be read back (assoc.c:622).
- *Mesh*: the result of fetching the information element is ignored, and what is on the stack
  is written back (persistcfg.c:224); a boot time of 256 or more is stored modulo 256, below the
  limit of 20 the comment explains (persistcfg.c:121-122).
- *Debugfs*: two readers of registers share `offsetvalue` (`disturbed`).
- *Devices*: the multicast work and `assoc_helper_wep_keys` change `mac_control` without a lock
  (`overwritten`). Both send it by `lbs_cmd_async`, a void function, which drops the command when no
  command node is free, and nobody looks at a refusal: the filter is then behind (`behind`). The list of groups
  is sent again by the next work with a group, but `mac_control` only when it changes (main.c:669),
  so that the firmware may never be told. A device opened while monitor mode is being set up stays open (`slipped`).
  `lbs_eth_stop` schedules the multicast work before the kernel clears IFF_UP. The result of
  `lbs_add_rtap` is ignored.
- *Receive*: `lbs_process_rxed_packet` does not free a frame of a bad length or status. A
  packet averaged while the ring is cleared can divide by zero (rx.c:55), or leave a count
  for values that were cleared; the average is right again once the ring was filled anew.
- *Settings*: `lbs_set_rts`, `lbs_set_frag`, `lbs_set_retry`, `lbs_set_txpow` are told whatever is in
  `cur_cmd_retcode` when they look (cmd.c:1528-1534): 0 for a refused command, -1 for one that was
  carried out, and after a signal the command is still in the queue and may take effect after a
  later set. `unsure` names the settings concerned until one is set again with a result of its own. A get
  whose result is another's shows the cleared value. The driver's own value is stored before the command and stays
  when it fails.
- *Rate*: both values are stored before a rate is refused; a packet that was being received
  when a rate is fixed overwrites it (`crossed`), even before the command is sent; the older
  command silently takes no 1 Mb/s; fixing rate 0 passes the check. For "48 Mb/s or less"
  `0x1fef >> (12 - i)` (cmd.c:701, `Lower`) shifts the hole of the mask with it: the firmware is given the
  bit the table above calls reserved (cmd.c:691) and not the one for 11 Mb/s.
- *Radio*: turning the radio off or on reaches no firmware by itself (`lbs_radio_ioctl` sends
  RADIO_CONTROL through `lbs_prepare_and_send_command`, which does not know it); the next
  association does.
- *Channel*: a refused GET_CHANNEL returns its positive result code, which `lbs_update_channel`
  takes for a channel (cmd.c:821; `Reading`), though `lbs_get_channel` promises "the channel on success,
  error on failure". Calls that overlap, or fail half-way, leave `curbssparams.channel` behind the
  radio until the next one (`disturbed`).
- *Keys*: nothing stores a WPA key in `priv` (only the answer to a KEY_MATERIAL read would,
  cmd.c:459-473, and none is sent), so that with WPA the "check for valid WPA group keys" (cmd.c:1796)
  never lets the card go back to sleep from there, and `lbs_get_encodeext` shows no key.
- *802.11d*: `generate_domain_info_11d` does not reset `nr_parsedchan` where it begins another sub-band
  (11d.c:192), so that the runs 1-3, 4, 5 become 1-3, 4-6, 5-7: 6 and 7 are made up, against "channel
  range no overlap", a rule of the
  same file (11d.c:325) for what it parses. `CountryKept` says that no channel is lost and, in
  `DomainCountsOn`, exactly which are made up: at the end of each sub-band as many as were found before
  it, less one for each sub-band before it.
- *Wake*: a first request for nothing sets `wol_criteria` from "not configured" to 0
  (ethtool.c:174), and from then on wake is reported as supported.
- *Addresses*: `lbs_add_mesh` publishes `mesh_dev` before it copies the address; one that is set
  during the copy is lost or torn (`torn`).
- *Probe* (`LeftBehind`, `Misfreed`): the label `err_activate_card` (if_sdio.c:1016-1019) frees the device under a
  running main thread and never calls `lbs_free_adapter`, so that networks, command buffers and event fifo
  leak, as do thread and workqueue; then it frees `priv`, which lies inside the device. A failure to enable
  interrupts (if_sdio.c:1004) gives back nothing that `lbs_add_card` took. When the event fifo cannot
  be allocated, `lbs_free_adapter` frees the error pointer (main.c:1074, 1093). A failing
  `register_netdev` for the mesh device frees it and leaves `priv->mesh_dev` pointing there (main.c:1352, 1390), and
  `lbs_remove_mesh` unregisters and frees it again. That ethX cannot be registered is returned as success
  (main.c:1241), and `lbs_stop_card`
  unregisters it all the same.
- *Transfers*: `chunk` has 16 bits, so that a packet above 65532 bytes would be cut
  (if_sdio.c:324); the firmware's packets are smaller.

## 5. What is proved

The proofs are checked by tlapm (SMT, Zenon, LS4), for every value of the constants that
satisfies the named assumptions of the modules. A theorem with a hypothesis says that the
code needs it: each hypothesis names one race or one setting, with the run or the hazard that
shows what happens without it.

### The command path

**TypeCorrectness** (LibertasTypes): `Spec => []TypeOK`. `TypeInv` adds what induction needs:
a caller that is filling or waiting has a node (`Holding`), `cur_cmd` does not go away while the
main thread serves a response without the lock (`Serving`), and a packet under construction has
not been counted (`Building`). One lemma per part of the system, one step per action; `Unchanged`
frames the parts an action leaves alone. The content is in the partial functions: no
`Head` of an empty list, no completion of a NULL `cur_cmd`. Every theorem below builds on it.

**SleepIsSilent** (LibertasThread): `Spec => SilentInSleep`, with every fault and with removal.
`Asleep` says that while `psstate` is SLEEP the event fifo and the current response buffer are empty and
the main thread is at one of nine program points, none of which reaches `hw_host_to_card`. The
interesting case is `MainConfirmSent`: it is the re-test of both queues under the lock that
establishes the invariant.

**WakeupsArrive** (LibertasThread): `NoLostWakeup` is inductive given `TypeInv`: a step leaves
the thread's decision alone (`DecisionKept`), or wakes it (`WokenUp`), or does not leave it asleep
(`NotAsleep`). One step does none of these: `lbs_host_to_card_done` (main.c:517) wakes the thread
for a next packet, not for an answer that was handed over before. `AnswerNoticed` excludes that
step and no other; a data packet still unacknowledged when an answer arrives is what leads to it
(section 4, `MaxTx = 1`).

**CommandsAreTimed** (LibertasThread): `InFlightIsTimed`, strengthened to `Watched`: not only
while the thread sleeps but at all its program points, except in the three between `del_timer` and
the completion, a command in flight is watched. `ExpirySeen` excludes one step, an expiry between
the test of `cmd_timed_out` and its clearing (main.c:806), which is the finding of LostTimeout.

**PowerSaveAgreed** (LibertasThread): `PsAgreement`. `PsInv` has three parts. `OneCopy`: of the
command in flight there is at most one copy or answer, on the bus, in the firmware or in the
response buffer the driver looks at next, and none of any other command. `TimerTrue`: the timer
has expired only if no copy is left. `Agreement`: where driver and firmware differ, an answer that
says so has arrived and is not served yet. `Faults \subseteq {"memory"}`, `Signals = {}` and `~Hotplug` are
needed: a lost answer leaves the firmware in power save behind the driver's back (section 4), a
late one is a second copy. `AnswerNoticed` is the hypothesis of WakeupsArrive: a thread that
sleeps beside an answer lets the timer expire, whose handler may then blame the next command.

**BufferIsFree** (LibertasThread): `ResponseBufferFree` from `OneCopy`, under the same hypotheses.
The run LateAnswers violates the property with one late answer, so that the hypothesis on `Faults` is what
the BUG_ON relies on.

**OwnershipKept** (LibertasOwners): `Signals = {} /\ ~Hotplug` implies `Spec => []NodeOwnership`. The
two assumptions are needed: the run Interrupted violates it with a signal, and the flush of a removal marks
pending nodes as done. `OwnInv` strengthens the property in two ways: a node's callback agrees
with who waits for it (`Fillers`, `Waiters`), and a queued node is not marked complete and, if its caller
is to free it, has one waiting (`QueuedNodes`). Eight lemmas, one for each thing an action does to the
lists, carry the proof; `AppendSet`, `ConsSet`, `TailSet` and `EnqueuedSet` are the list facts below.

**AnswersMatch** (LibertasCalls): `AcceptedIsAnswer`. The invariant `Numbers`: of all numbers in
nodes, on the bus, in the firmware and in the two response buffers none is above `seqnum`, and
two that are equal belong to one request. It needs that the 16 bits do not wrap onto a number
still in use (`NoWrap`), and that a command is numbered with the value its own `++seqnum` made
(`OwnNumber`; `__lbs_cmd_async` increments without the lock).

**RetriesCounted**, **GivenUpLate** (LibertasCalls): `RetriedIsNext` and `GiveUpAfterFour`. `Retries` relates
`nr_retries` to the submissions of the command in flight, or of the first pending one, and says
that no other pending command was submitted before. It holds out of power save: EXIT_PS, and
nothing else, is queued in front of a command that waits for its retry. Signals and removal
complete commands without resetting the count and are assumed away.

**OwnResultReturned** (LibertasCalls): `Signals = {} /\ ~Hotplug` implies `Spec => SyncReturnsOwnResult`.
`Rids`: the node a caller holds carries its current call's request, and no other node does,
however often nodes were reused; `Told`: a waiter that is woken finds its own outcome in its node.
Both rest on `OwnInv`.

**ServiceImplemented** (LibertasCalls): `Spec => ImplementsService`, the refinement of CmdService, if every
caller uses `__lbs_cmd` (`OnlySync`; not for PS_MODE, which it never sends), `Signals = {}` and
`~Hotplug`. With a signal a call returns before it is answered, and removal answers what still waits.
Every fault of the card is allowed, and so are power save and the commands the driver gives itself.
`ClientInv` adds to `OwnInv` and `Rids` that a node with a client's request has the callback of
`__lbs_cmd` (`ClientNodes`), whence the request of a client is under way only while that client waits
(`ClientWaits`), and that the answer being served is not overwritten (`AnswerKept`), whence a command completes
with ok, an error or the timeout, never DEFER. `ClientLast` and `ClientFirst` say what a
request put last or first does to the set and its order; there is one lemma for each kind of step
(`ServiceServes`, `ServiceCompletes`, `ServicePutsBack`, ...), ending in a step of CmdService or in none.

### The files

**OnlyRacesRevert** (ReadModifyWrite): `Spec => []CopyIsFresh`, for any number of clients,
fields and values. **MeshImplements** and **EventsImplement** (FilesProof) show step by step
that the mesh attributes (while their fetch succeeds: `"get" \notin MeshFaults`, see *Mesh* above) and
the event thresholds implement it, and **FilesRaceOnly** draws the conclusion: a mesh attribute or
an event is reverted only by a writer that fetched before it was written. `MeshInv` and
`EventInv` are types of copies: a value that waits to be written was accepted, and fits the record.

**ShownAsRead** (FilesProof): `RegisterShown`. `RegInv` follows an undisturbed reader from the
offset it asked for (`Undisturbed`) to the shared answer it prints.

### The devices

**FirmwareWithinImage** (DevicesProof): `FirmwareSpec => []NeverBeyondTheImage`, for every
size of the two images and whatever the card asks for. `FirmwareInv` adds to the property where
in the image each program point is (`Position`): in particular that bytes left and offset add up,
and that a piece still to be sent fits what is left. That the download ends is not claimed: a card
may ask for 0 bytes for ever.

**EverythingGivenBack** (DevicesProof): `ProbeSpec => []ProbeUndone`, whichever steps may fail.
`ProbeInv` says what is held, and how often the host is claimed, at each step and label, so
that every jump is to the label that fits (`Probing`, `Undoing`, `Removing`). Five of the twelve
failures leave something behind, or something is undone that was not done; the property says which and
exactly what (`LeftBehind`, `Misfreed`), and `Faulted` follows it there: `priv->mesh_dev` points at a device
that is there, or at the one that was freed.

**MonitorExcludesOpen** (DevicesProof): `MonitorOrOpen`, strengthened to the whole of
`lbs_rtap_set` (`MonitorInv`): from the moment the devices are seen closed, one that is open has slipped in.

**GroupsPassed** (DevicesProof): `GroupsLetThrough` speaks of the moment when nothing is pending.
`FilterInv` speaks of all others: `Ends(name, x)` says that the firmware will have `x` once every
queued command is carried out, or that the last command of that name was dropped or refused (`behind`);
`ControlSent` and `Seen` what of `mac_control` and of the lists of groups the driver has still to send. It
holds while the two writers of `mac_control` have not met (`overwritten`), for every set of faults: a
lost list does not disturb what is said of promiscuous and all-multicast, and the next list that is
carried out mends it.

**PaddingHolds**, **PacketWasRead** (DevicesProof): `sdio_align_size` never returns less than it
was asked for, whatever the block size; so a packet handed on was read in its transfer, as long
as the padded size has 16 bits.

**OneAddressForAll** (DevicesProof): `AddressesAgree`. `AddressInv`: up to the answer of the command
firmware and driver differ only by the address being set, and what `lbs_add_mesh` has read of the address is
the driver's unless an address was set meanwhile (`MeshAlike`).

**RadioIsShared** (DevicesProof): `RadioShared`, for all channels, error codes and faults. Its two
halves need two invariants. `MeshOwed`: unless a command has failed, the mesh is off only while
the association worker has yet to start it again. `CallAlone`, `OnCourse`: a call that nothing has disturbed is the
only one under way, what it has read is where the radio is, and from the command on that moves the radio
it is where the call wants it. `Given` says which command each program point has out.

### The wireless extensions

**AgainMeansScanning**, **ScanGivesBack**, **EveryChannelVisited** (WextProof): the three
invariants of the scan, for every list of channels, every length of one command and any
number of ioctls. `Marked`: a marker is set only while the work is queued or at work on it. `Restoring`: the
carrier is given back before the queue. `VisitInv`: when the marker stands at channel `n`, the
channels before it were visited, by commands since the partial scan began (`VisitedBefore`).

**SettingsInForce** (WextProof): `SettingsKept`. The result a caller reads is one variable that every other
command writes. `OwnResult` says what it means while nobody has (`~jumbled`): 0 that the firmware has what the
caller asked for, an error that it has what it had, or that the setting is in `unsure`. `ItemsInv` adds
what is left behind:
a set that a signal took the caller from, and that may be carried out at any later time, is of a setting in
`unsure`; and no set reports its own result before those are over, which is why it may take the setting
out of `unsure`. `RateInv` follows a rate being fixed through its three ways, with the
packets that are received meanwhile (`crossed` is the one that was looked at before).

**SettingsAddUp**, **KeyToTransmit**, **LeavesFirst** (WextProof): `LastSettingWins`,
`WepKeyedUnlessSpoilt` and `AssociatesDisconnected` from one invariant, `AssocInv`, for any number
of networks, keys, channels and ioctls. Between jobs (`Resting`) the request's copies, or the settings in force
where there is no request, are what was last asked for; in a job (`Working`) a setting that still differs
from the job's has its flag set and its step ahead, and the association is kept past
`should_deauth_infrastructure` only by a job that does not associate again. The settings compared are those
with a value to compare (keys, transmit key, security, mode). That a network is of mode infra or adhoc is
an assumption on `Nets`: scan.c:581-583 gives each one of the two.

**KeysArrive** (WextProof): `KeysReach`. `WepTrue`: the WEP keys the driver remembers are the
firmware's but for two steps of the work, and when WEP is on one of them can be used; `WpaTrue`: each
WPA key that was brought last is pending, with the work or in the firmware. Each part has its
exceptions (`lost`, `stale`; `refused`), those of the property.

**QualityFallsWithRetries**, **QualityRisesWithRssi**, **StrongerLooksWorse** (WextProof): the
arithmetic of `lbs_get_wireless_stats` is monotonous where it should be but at 15 and at 30 dB,
where a stronger signal is reported as worse (42 drops to 30, 96 to 80), and beyond 90 retries, where
the u32 wraps.

The invariants of state machines were model-checked before they were proved: those of the
command path on instances like Sync, Lossy, Retry and Power, those of the parts on the instances of Parts and Radio.

### Only model-checked

- *Liveness*: `EveryCallReturns`, `QueueRestarted`, `RemovalCompletes`, `ScanEnds`,
  `RequestTaken` (out of the prover's reach).
- *Induction over data*: `TableWellFormed` and `OldestMakesRoom` fold over the table of
  networks, and `AverageOfLast` sums a ring. What these operators compute can be proved for no
  size but by induction over it.
- `CountryKept` and `ShownIsReal` are exhaustive over the tables and elements given.

## 6. Not modelled

- *Vendored headers* under `src/include` (16 000 of the tree's 31 000 lines of C) are
  declarations of other programs; the driver's own headers are mostly layouts of commands.
- *802.11d*: the passive scan type of a channel and the download of the domain (DOMAIN_INFO); the rest
  is modelled though nothing sets `enable11d`.
- *Ethtool* but for the wake criteria, the sleep-parameter, info and debug files, and the ioctls that
  only report: they
  read the adapter, or copy one command's answer.
- *Command bodies* (cmd.c, the builders of association and scan): contents that no state
  depends on. The firmware's version and capabilities in `lbs_update_hw_spec` are read once at start.
- *Calls that change nothing*: a command that cannot be prepared gives its node back at once (cmd.c:1508-1514),
  and one of size 0 would not be queued (cmd.c:1134; none has it); `lbs_set_power` refuses a period, a
  timeout, and firmware without power save (wext.c:735-764). None of them reaches a queue or the thread.
- *Power save with WPA, a mesh or ad hoc*: the tests of the keys and of `mesh_connect_status` before going
  back to sleep (cmd.c:1793-1803), and psmode = CAM after a refused ENTER_PS in ad-hoc mode (cmdresp.c:448-450); the
  instances are of an infrastructure network without WPA.
- *The moment* in which `lbs_set_retry` has stored its value and the command is yet to be built from it
  (wext.c:468-470): an answer to a command left behind by a signal could change it there. SetItem is one step.
- *Radiotap* and frame headers on both paths, transmit feedback and `lbs_tx_timeout`.
- *Suspend and resume* (main.c:893-945): the glue never calls them.
- *Pointers*: the unlocked list operations (main.c:803, cmd.c:1754-1781), descriptors used after
  the lock was dropped (assoc.c:462), and use of the adapter after it was freed by a timer handler
  still running (main.c:1315) need a model of memory. PROJECT.json lists them as hazards
  without a property.
- *Board registers* of helper.c and prcm-regs.h: pure I/O.
