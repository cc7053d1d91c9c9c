------------------------------- MODULE LbsRx -------------------------------
(***************************************************************************)
(* The receive path of rx.c: what becomes of a packet, and the ring of     *)
(* signal strengths it adds to.  Packets come one at a time, in the SDIO   *)
(* interrupt; the main thread clears the ring when the card connects or    *)
(* disconnects (lbs_mac_event_disconnected, lbs_ret_80211_associate).      *)
(* Neither holds a lock.                                                   *)
(***************************************************************************)
EXTENDS Integers, Sequences, Functions

CONSTANTS
    RingSize, \* DEFAULT_DATA_AVG_FACTOR
    Snrs      \* what packets bring; noise is treated alike

VARIABLES
    rawSNR, nextSNRNF, numSNRNF, \* the ring
    avgSNR,  \* priv->SNR[TYPE_RXPD][TYPE_AVG], not scaled
    xpc,     \* where the packet is, and what it brings
    snr,
    divisor, \* the count that lbs_getavgsnr has checked
    clearpc, \* where the main thread is with its clearing
    oops,    \* the kernel divided by zero
    leaked,  \* the buffer of a frame was lost
    recent,  \* (history) the last strengths since the ring was cleared
    crossed_clear, \* (history) a packet crossed the last clearing
    whole    \* (history) this packet has not

ringVars == <<rawSNR, nextSNRNF, numSNRNF>>
rxVars == <<ringVars, avgSNR, xpc, snr, divisor, clearpc, oops, leaked,
            recent, crossed_clear, whole>>

Ring == 0 .. RingSize - 1
ClearRing == [i \in Ring |-> 0]

RxInit ==
    /\ rawSNR = ClearRing /\ nextSNRNF = 0 /\ numSNRNF = 0
    /\ avgSNR = 0
    /\ xpc = "idle" /\ snr = 0 /\ divisor = 0
    /\ clearpc = "idle" /\ oops = FALSE /\ leaked = FALSE
    /\ recent = <<>> /\ crossed_clear = FALSE /\ whole = FALSE

(* lbs_process_rxed_packet, process_rxed_802_11_packet.  A frame that is   *)
(* too short, or whose status is bad outside monitor mode, goes no further *)
(* and outside monitor mode its buffer is not freed either; every other    *)
(* frame is for lbs_compute_rssi before it is passed up.                   *)
Frames == [monitor : BOOLEAN, short : BOOLEAN, ok : BOOLEAN]
Good(frame) == ~frame.short /\ (frame.monitor \/ frame.ok)

Drop(frame) ==
    /\ xpc = "idle" /\ ~Good(frame)
    /\ leaked' = (leaked \/ ~frame.monitor)
    /\ UNCHANGED <<ringVars, avgSNR, xpc, snr, divisor, clearpc, oops, recent,
                   crossed_clear, whole>>

Receive(frame, v) ==
    /\ xpc = "idle" /\ Good(frame)
    /\ xpc' = "count" /\ snr' = v
    /\ whole' = (clearpc = "idle")
    /\ crossed_clear' = (crossed_clear \/ clearpc # "idle")
    /\ UNCHANGED <<ringVars, avgSNR, divisor, clearpc, oops, leaked, recent>>

(* lbs_save_rawSNRNF.                                                      *)
CountIt ==
    /\ xpc = "count"
    /\ numSNRNF' = IF numSNRNF < RingSize THEN numSNRNF + 1 ELSE numSNRNF
    /\ xpc' = "save"
    /\ UNCHANGED <<rawSNR, nextSNRNF, avgSNR, snr, divisor, clearpc, oops,
                   leaked, recent, crossed_clear, whole>>

SaveIt ==
    /\ xpc = "save"
    /\ rawSNR' = [rawSNR EXCEPT ![nextSNRNF] = snr]
    /\ xpc' = "advance"
    /\ UNCHANGED <<nextSNRNF, numSNRNF, avgSNR, snr, divisor, clearpc, oops,
                   leaked, recent, crossed_clear, whole>>

Advance ==
    /\ xpc = "advance"
    /\ nextSNRNF' = (nextSNRNF + 1) % RingSize
    /\ xpc' = "check"
    /\ UNCHANGED <<rawSNR, numSNRNF, avgSNR, snr, divisor, clearpc, oops,
                   leaked, recent, crossed_clear, whole>>

(* lbs_getavgsnr: nothing counted, no average.                             *)
LastOf(s) == IF Len(s) > RingSize THEN Tail(s) ELSE s

Ends(avg) ==
    /\ avgSNR' = avg
    /\ recent' = IF whole THEN LastOf(Append(recent, snr)) ELSE recent
    /\ xpc' = "idle" /\ snr' = 0 /\ divisor' = 0 /\ whole' = FALSE

CheckCount ==
    /\ xpc = "check"
    /\ IF numSNRNF = 0
       THEN Ends(0)
       ELSE /\ divisor' = numSNRNF
            /\ xpc' = "divide"
            /\ UNCHANGED <<avgSNR, snr, recent, whole>>
    /\ UNCHANGED <<ringVars, clearpc, oops, leaked, crossed_clear>>

(* The count may be read again for the division, or not.                   *)
SumUpTo(n) == SumFunctionOnSet(rawSNR, 0 .. n - 1)

Divide ==
    /\ xpc = "divide"
    /\ \E n \in {divisor, numSNRNF} :
          IF n = 0
          THEN /\ oops' = TRUE
               /\ xpc' = "dead"
               /\ UNCHANGED <<avgSNR, snr, divisor, recent, whole>>
          ELSE Ends(SumUpTo(n) \div n) /\ UNCHANGED oops
    /\ UNCHANGED <<ringVars, clearpc, leaked, crossed_clear>>
-----------------------------------------------------------------------------
(* The averages are cleared first, then the ring, its place, its count.    *)
ClearAverages ==
    /\ clearpc = "idle"
    /\ avgSNR' = 0
    /\ clearpc' = "ring"
    /\ recent' = <<>> /\ whole' = FALSE
    /\ crossed_clear' = (xpc # "idle")
    /\ UNCHANGED <<ringVars, xpc, snr, divisor, oops, leaked>>

ClearRaw ==
    /\ clearpc = "ring"
    /\ rawSNR' = ClearRing
    /\ clearpc' = "next"
    /\ UNCHANGED <<nextSNRNF, numSNRNF, avgSNR, xpc, snr, divisor, oops,
                   leaked, recent, crossed_clear, whole>>

FirstPlace_Kept == nextSNRNF
FirstPlace == 0

ClearNext ==
    /\ clearpc = "next"
    /\ nextSNRNF' = FirstPlace
    /\ clearpc' = "num"
    /\ UNCHANGED <<rawSNR, numSNRNF, avgSNR, xpc, snr, divisor, oops,
                   leaked, recent, crossed_clear, whole>>

ClearNum ==
    /\ clearpc = "num"
    /\ numSNRNF' = 0
    /\ clearpc' = "idle"
    /\ UNCHANGED <<rawSNR, nextSNRNF, avgSNR, xpc, snr, divisor, oops,
                   leaked, recent, crossed_clear, whole>>

RxNext ==
    \/ \E frame \in Frames : Drop(frame) \/ (\E v \in Snrs : Receive(frame, v))
    \/ CountIt \/ SaveIt \/ Advance
    \/ CheckCount \/ Divide
    \/ ClearAverages \/ ClearRaw \/ ClearNext \/ ClearNum

RxSpec == RxInit /\ [][RxNext]_rxVars
-----------------------------------------------------------------------------
(* The average is that of the last RingSize packets since the ring was     *)
(* cleared, or of as many as there were (lbs_getavgsnr).  A packet that    *)
(* crosses the clearing may spoil it, even divide by zero: but after       *)
(* RingSize whole packets the average is right again.                      *)
Mean(s) == SumFunctionOnSet(s, DOMAIN s) \div Len(s)

AverageOfLast ==
    /\ oops => crossed_clear
    /\ xpc = "idle" /\ clearpc = "idle" /\ recent # <<>>
         /\ (~crossed_clear \/ Len(recent) = RingSize)
       => avgSNR = Mean(recent)
=============================================================================
