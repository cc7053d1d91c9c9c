----------------------------- MODULE LbsCountry -----------------------------
(***************************************************************************)
(* 802.11d (11d.c): from the country element of a network, or from the     *)
(* table of the card's own region, to the domain the firmware is to be     *)
(* given.  The functions are translated as they stand and are applied here *)
(* to every element and region: lbs_init_11d clears enable11d and nothing  *)
(* in this tree sets it, so that the two callers, at an association and at *)
(* the start of an ad-hoc network, return before they reach them.          *)
(***************************************************************************)
EXTENDS LbsRegion

CONSTANTS
    Elements,    \* country elements, as [country, subbands]; "" is no country
    OwnRegions   \* the region codes the card may have

VARIABLES
    parsed_region_chan,  \* the channels found and the power of each
    domainreg,           \* the sub-bands generated of them
    heard_in             \* history: what they are from

countryVars == <<parsed_region_chan, domainreg, heard_in>>

(* region_code_mapping and lbs_region_2_code: of three letters, upper or   *)
(* lower case; "default is US".                                            *)
CountryCodes ==
    "US" :> 16 @@ "CA" :> 16 @@ "SG" :> 16 @@ "EU" :> 48 @@ "AU" :> 48 @@
    "KR" :> 48 @@ "ES" :> 49 @@ "FR" :> 50 @@ "JP" :> 64
CodeOf(country) ==
    IF country \in DOMAIN CountryCodes THEN CountryCodes[country]
    ELSE CountryCodes["US"]

(* lbs_region_chan_supported_11d, lbs_get_region_cfp_table.                *)
SupportedIn(code) == {cfp.channel : cfp \in ToSet(RegionTable[code])}

(* lbs_get_chan_11d: the channels of a sub-band, until one is not in       *)
(* channel_freq_power_UN_BG.                                               *)
Universal == 1 .. 14
Covered(sub) ==
    {c \in Universal : sub.first \in Universal /\ sub.first <= c /\ c < sub.first + sub.nr}

(* parse_domain_info_11d: a sub-band that begins at or below the last      *)
(* channel so far is passed over.  Its limit of MAX_NO_OF_CHAN, 40, is not *)
(* reached, as the channels found ascend among the fourteen (11d.c:367).   *)
Channels(code, sub) ==
    LET cfps == SelectSeq(RegionTable[code], LAMBDA cfp : cfp.channel \in Covered(sub))
    IN  [i \in DOMAIN cfps |-> [chan |-> cfps[i].channel, pwr |-> sub.pwr]]

Overlaps(sub, last) == sub.first <= last

WithSubband(code, found, sub) ==
    IF Overlaps(sub, found.last) \/ Covered(sub) = {} THEN found
    ELSE [last  |-> CHOOSE c \in Covered(sub) : \A d \in Covered(sub) : d <= c,
          chans |-> found.chans \o Channels(code, sub)]

Parsed(element) ==
    IF element.country = "" THEN <<>>
    ELSE FoldLeft(LAMBDA found, sub : WithSubband(CodeOf(element.country), found, sub),
                  [last |-> 0, chans |-> <<>>], element.subbands).chans

(* lbs_generate_parsed_region_chan_11d: the channels of a region.          *)
OfRegion(code) ==
    [i \in DOMAIN RegionTable[code] |->
        [chan |-> RegionTable[code][i].channel, pwr |-> RegionTable[code][i].maxtxpower]]

(* generate_domain_info_11d: the sub-band under construction is kept, and  *)
(* a new one begun, when a channel does not continue it.  nr_parsedchan is *)
(* set to one for the first of them only, and goes on from there for the   *)
(* others (11d.c:192-196).                                                 *)
Continues_AnyPower(sub, next, c) == c.chan = next + 1
Continues(sub, next, c) == c.chan = next + 1 /\ c.pwr = sub.pwr

Starting(c, nr) == [first |-> c.chan, nr |-> nr, pwr |-> c.pwr]
WithChannel(made, c) ==
    IF Continues(made.sub, made.next, c)
    THEN [made EXCEPT !.next = @ + 1, !.sub.nr = @ + 1]
    ELSE [next |-> c.chan, sub |-> Starting(c, made.sub.nr),
          kept |-> Append(made.kept, made.sub)]

Domain(chans) ==
    IF chans = <<>> THEN <<>>
    ELSE LET made == FoldLeft(WithChannel,
                              [next |-> chans[1].chan, sub |-> Starting(chans[1], 1),
                               kept |-> <<>>], Tail(chans))
         IN  Append(made.kept, made.sub)
-----------------------------------------------------------------------------
Nobody == [country |-> "", subbands |-> <<>>]

CountryInit == parsed_region_chan = <<>> /\ domainreg = <<>> /\ heard_in = Nobody

(* lbs_parse_dnld_countryinfo_11d.                                         *)
ParseCountry(element) ==
    /\ heard_in' = element
    /\ parsed_region_chan' = Parsed(element)
    /\ domainreg' = Domain(parsed_region_chan')

(* lbs_create_dnld_countryinfo_11d.                                        *)
CreateCountry(code) ==
    /\ heard_in' = Nobody
    /\ parsed_region_chan' = OfRegion(code)
    /\ domainreg' = Domain(parsed_region_chan')

CountryNext ==
    \/ \E element \in Elements : ParseCountry(element)
    \/ \E code \in OwnRegions : CreateCountry(code)
-----------------------------------------------------------------------------
Ascending(element) ==
    LET subs == element.subbands
    IN  \A i, j \in DOMAIN subs : i < j => subs[i].first + subs[i].nr <= subs[j].first

(* The rules of parse_domain_info_11d: whatever sub-bands a network sends, *)
(* the channels found ascend, so that each has one power; each has the     *)
(* power of a sub-band it is in and is allowed in the region; and of       *)
(* sub-bands that keep the rules no allowed channel is left out.           *)
ParsedKeepsRules ==
    heard_in # Nobody =>
        LET found   == parsed_region_chan
            subs    == ToSet(heard_in.subbands)
            allowed == SupportedIn(CodeOf(heard_in.country))
        IN  /\ \A i, j \in DOMAIN found : i < j => found[i].chan < found[j].chan
            /\ \A c \in ToSet(found) :
                  /\ c.chan \in allowed
                  /\ \E s \in subs : c.chan \in Covered(s) /\ c.pwr = s.pwr
            /\ heard_in.country # "" /\ Ascending(heard_in) =>
                  \A s \in subs : \A c \in Covered(s) \cap allowed :
                      [chan |-> c, pwr |-> s.pwr] \in ToSet(found)

(* generate_domain_info_11d loses no channel: each that was found is in a  *)
(* sub-band of its power, and no sub-band begins at a channel that was not *)
(* found.                                                                  *)
DomainLosesNothing ==
    /\ \A c \in ToSet(parsed_region_chan) :
          \E s \in ToSet(domainreg) : c.chan \in Covered(s) /\ c.pwr = s.pwr
    /\ \A s \in ToSet(domainreg) :
          [chan |-> s.first, pwr |-> s.pwr] \in ToSet(parsed_region_chan)

(* It does make channels up (generate_domain_info_11d): as many at the end *)
(* of a sub-band as were found before it, less one for each sub-band before*)
(* it, and no others.  So the first is always right, and with it a domain  *)
(* of one sub-band; another only after sub-bands of one channel each.      *)
FoundAt(k) ==
    IF k \notin DOMAIN domainreg THEN Len(parsed_region_chan) + 1
    ELSE CHOOSE i \in DOMAIN parsed_region_chan :
            parsed_region_chan[i].chan = domainreg[k].first

OwnChannels(k) == FoundAt(k + 1) - FoundAt(k)
FoundBefore(k) == FoundAt(k) - 1

DomainCountsOn ==
    \A k \in DOMAIN domainreg :
        domainreg[k].nr = OwnChannels(k) + FoundBefore(k) - (k - 1)

(* On the way from element to domain no channel is lost, and those that    *)
(* are made up are the ones that nr_parsedchan, never set back, adds       *)
(* (parse_domain_info_11d, generate_domain_info_11d).                      *)
CountryKept == ParsedKeepsRules /\ DomainLosesNothing /\ DomainCountsOn
=============================================================================
