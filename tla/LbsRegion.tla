----------------------------- MODULE LbsRegion -----------------------------
(***************************************************************************)
(* What GET_HW_SPEC tells the driver, the regulatory region and the        *)
(* address of the card, and what is made of them: the channels that wext.c *)
(* lists and accepts, and the addresses of the two devices, which a caller *)
(* may change while the mesh device is being added.                        *)
(***************************************************************************)
EXTENDS Integers, Sequences, SequencesExt, TLC

CONSTANTS
    ReportedCodes,  \* the region codes the firmware may report, of 16 bits
    Heard,          \* the channels networks are heard on
    Asked,          \* what lbs_set_freq may be asked for, as [m, e]
    Macs,           \* the addresses a caller may give the card
    OwnMac,         \* the address the card has
    RegionFaults    \* \subseteq {"refused", "lost"}

Nowhere == "none"   \* no address: there is no such device

ASSUME RegionAssumption == Nowhere \notin Macs \cup {OwnMac}

VARIABLES
    started,        \* how far lbs_start_card and lbs_add_mesh are
    regioncode,
    region_channel, \* the channels of the region, in the order of the table
    current_addr, dev_addr, mesh_addr,
    copied,         \* lbs_add_mesh: what it has read of the address so far
    fw_addr,        \* the address the firmware uses
    setting,        \* lbs_set_mac_address: where it is, and with which address
    unsure,         \* history: the last of its commands was not answered
    torn            \* history: an address was set while lbs_add_mesh copied one

tableVars  == <<regioncode, region_channel>>
meshedVars == <<mesh_addr, copied, torn>>
ownVars    == <<current_addr, dev_addr, fw_addr, setting, unsure>>
regionVars == <<started, tableVars, meshedVars, ownVars>>
-----------------------------------------------------------------------------
(* The tables.                                                             *)
Freq(c) == IF c = 14 THEN 2484 ELSE 2407 + 5 * c

UpTo(first, last, power) ==
    [i \in 1 .. last - first + 1 |->
        [channel |-> first + i - 1, freq |-> Freq(first + i - 1),
         maxtxpower |-> power]]

RegionTable ==
    16 :> UpTo(1, 11, 20)  @@ 32 :> UpTo(1, 11, 20)  @@ 48 :> UpTo(1, 13, 20) @@
    49 :> UpTo(10, 11, 20) @@ 50 :> UpTo(10, 13, 20) @@ 64 :> UpTo(1, 14, 16)

KnownCodes  == {16, 32, 48, 49, 50, 64}
DefaultCode == 16

(* lbs_update_hw_spec: "it should only ever be 8-bit".                     *)
Region(reported) ==
    IF reported % 256 \in KnownCodes THEN reported % 256 ELSE DefaultCode

(* lbs_find_cfp_by_band_and_channel, find_cfp_by_band_and_freq.  All       *)
(* tables are of band 0; enable11d is never set.                           *)
Cfps == ToSet(region_channel)
OfChannel(c) == {cfp \in Cfps : cfp.channel = c}
OfFreq(f) == {cfp \in Cfps : cfp.freq = f}

(* The channel that lbs_set_freq and lbs_mesh_set_freq make of a request;  *)
(* m is a signed number, of which 16 bits are looked up and 8 stored.      *)
Invalid == 0
Numbered(m) ==
    IF m <= 1000 /\ OfChannel(m % 65536) # {} THEN m % 256 ELSE Invalid
ChannelFor_AnyFreq(m, e) ==
    IF e = 1 THEN Numbered((m \div 100000 - 2407) \div 5)
    ELSE IF e > 0 THEN Invalid ELSE Numbered(m)
ChannelFor(m, e) ==
    IF e = 1
    THEN IF OfFreq(m \div 100000) = {} THEN Invalid
         ELSE Numbered((CHOOSE cfp \in OfFreq(m \div 100000) : TRUE).channel)
    ELSE IF e > 0 THEN Invalid ELSE Numbered(m)

(* lbs_get_freq: a frequency, or -EINVAL.                                  *)
NoFreq == [m |-> 0, e |-> 0]
WithFreq(cfp) == [m |-> cfp.freq * 100000, e |-> 1]
ShownFreq(c) ==
    IF OfChannel(c) = {} THEN NoFreq
    ELSE WithFreq(CHOOSE cfp \in OfChannel(c) : TRUE)

(* lbs_get_range: as many as there is room for, sorted by channel.         *)
MaxFrequencies == 32
Room == IF Len(region_channel) < MaxFrequencies THEN Len(region_channel)
        ELSE MaxFrequencies
RangeFreqs ==
    LET listed == [i \in 1 .. Room |->
                      [i |-> region_channel[i].channel] @@ WithFreq(region_channel[i])]
    IN  SortSeq(listed, LAMBDA a, b : a.i < b.i)

(* lbs_translate_scan passes over a network whose channel is not known.    *)
Listed(c) == OfChannel(c) # {}
-----------------------------------------------------------------------------
Resting == [pc |-> "idle", addr |-> Nowhere]

RegionInit ==
    /\ started = "no"
    /\ regioncode = 0 /\ region_channel = <<>>
    /\ current_addr = Nowhere /\ dev_addr = Nowhere
    /\ mesh_addr = Nowhere /\ copied = Nowhere /\ torn = FALSE
    /\ fw_addr = OwnMac
    /\ setting = Resting /\ unsure = FALSE

(* lbs_setup_firmware, lbs_update_hw_spec: the address is not known yet,   *)
(* and the card's is taken; then the device is registered.  A region       *)
(* without a table, like a failed command, ends the start.                 *)
UpdateHwSpec ==
    /\ started = "no"
    /\ \E reported \in ReportedCodes :
          /\ regioncode' = Region(reported)
          /\ region_channel' = IF Region(reported) \in DOMAIN RegionTable
                               THEN RegionTable[Region(reported)] ELSE <<>>
    /\ current_addr' = fw_addr /\ dev_addr' = fw_addr
    /\ started' = IF region_channel' = <<>> THEN "failed" ELSE "registered"
    /\ UNCHANGED <<meshedVars, fw_addr, setting, unsure>>

HwSpecFails ==
    /\ started = "no" /\ RegionFaults # {}
    /\ started' = "failed"
    /\ UNCHANGED <<tableVars, meshedVars, ownVars>>

(* lbs_add_mesh: priv->mesh_dev is set, then memcpy reads the other        *)
(* device's address and writes it here, which no lock joins.               *)
NewMesh == "zero"
PublishMesh ==
    /\ started = "registered"
    /\ started' = "adding"
    /\ mesh_addr' = NewMesh
    /\ UNCHANGED <<tableVars, copied, torn, ownVars>>

ReadAddr ==
    /\ started = "adding"
    /\ started' = "copying"
    /\ copied' = dev_addr
    /\ torn' = FALSE
    /\ UNCHANGED <<tableVars, mesh_addr, ownVars>>

WriteAddr ==
    /\ started = "copying"
    /\ started' = "up"
    /\ mesh_addr' = copied /\ copied' = Nowhere
    /\ UNCHANGED <<tableVars, torn, ownVars>>

(* lbs_set_mac_address, one at a time: the command; then what is kept.     *)
Registered == started \notin {"no", "failed"}

SetMacAddress(addr) ==
    /\ Registered /\ setting = Resting
    /\ \/ /\ fw_addr' = addr
          /\ setting' = [pc |-> "answered", addr |-> addr]
          /\ unsure' = FALSE
       \/ /\ "refused" \in RegionFaults
          /\ UNCHANGED <<fw_addr, setting, unsure>>
       \/ /\ "lost" \in RegionFaults
          /\ fw_addr' \in {fw_addr, addr}
          /\ unsure' = TRUE
          /\ UNCHANGED setting
    /\ UNCHANGED <<started, tableVars, meshedVars, current_addr, dev_addr>>

KeepAddr ==
    /\ setting.pc = "answered"
    /\ current_addr' = setting.addr /\ dev_addr' = setting.addr
    /\ setting' = [setting EXCEPT !.pc = "kept"]
    /\ UNCHANGED <<started, tableVars, meshedVars, fw_addr, unsure>>

MeshFollows_Never == mesh_addr
MeshFollows == IF mesh_addr = Nowhere THEN Nowhere ELSE setting.addr
KeepMeshAddr ==
    /\ setting.pc = "kept"
    /\ mesh_addr' = MeshFollows
    /\ torn' = (torn \/ started = "copying")
    /\ setting' = Resting
    /\ UNCHANGED <<started, tableVars, copied, current_addr, dev_addr, fw_addr,
                   unsure>>

RegionNext ==
    \/ UpdateHwSpec \/ HwSpecFails \/ PublishMesh \/ ReadAddr \/ WriteAddr
    \/ (\E addr \in Macs : SetMacAddress(addr)) \/ KeepAddr \/ KeepMeshAddr

RegionSpec == RegionInit /\ [][RegionNext]_regionVars
-----------------------------------------------------------------------------
(* lbs_region_code_to_index and region_cfp_table agree: whatever code the  *)
(* firmware reports (lbs_update_hw_spec), the card starts with channels.   *)
RegionIsSet ==
    regioncode # 0 =>
        regioncode \in DOMAIN RegionTable /\ region_channel # <<>> /\ Registered

(* What lbs_get_range lists is what lbs_set_freq accepts, by number and by *)
(* frequency, in ascending order, and lbs_get_freq shows it again.         *)
RangeIsSettable ==
    LET channels == {RangeFreqs[i].i : i \in DOMAIN RangeFreqs}
    IN  /\ \A i, j \in DOMAIN RangeFreqs : i < j => RangeFreqs[i].i < RangeFreqs[j].i
        /\ \A i \in DOMAIN RangeFreqs :
              LET f == RangeFreqs[i]
              IN  /\ ChannelFor(f.m, f.e) = f.i /\ ChannelFor(f.i, 0) = f.i
                  /\ ShownFreq(f.i) = [m |-> f.m, e |-> f.e]
        /\ \A ask \in Asked : ChannelFor(ask.m, ask.e) \in channels \cup {Invalid}
        /\ \A c \in Heard : Listed(c) => c \in channels

(* With no call under way the two devices have the same address, the one   *)
(* the driver and, unless a command was lost, the firmware use, however    *)
(* lbs_set_mac_address and lbs_add_mesh met; except that the copy of the   *)
(* address itself is not protected.                                        *)
AddressesAgree ==
    Registered /\ setting = Resting =>
        /\ dev_addr = current_addr
        /\ ~unsure => fw_addr = dev_addr
        /\ started = "up" /\ ~torn => mesh_addr = dev_addr
=============================================================================
