----------------------------- MODULE LbsQuality -----------------------------
(***************************************************************************)
(* The link quality that lbs_get_wireless_stats makes of the strength of   *)
(* the last beacon and of the retries the firmware has counted, with the   *)
(* widths of its variables.                                                *)
(***************************************************************************)
EXTENDS Integers

Byte == 0 .. 255
U32(x) == IF x < 0 THEN x + 4294967296 ELSE x \* x > -2^32
U8(x)  == x % 256
Lesser(x, y) == IF x <= y THEN x ELSE y

(* By the strength over the noise.                                         *)
RssiQual(rssi) ==
    IF rssi < 15 THEN (rssi * 30) \div 10
    ELSE IF rssi < 20 THEN ((rssi - 15) * 30) \div 5 + 30
    ELSE IF rssi < 30 THEN ((rssi - 20) * 20) \div 5 + 60
    ELSE IF rssi < 40 THEN ((rssi - 30) * 10) \div 10 + 80
    ELSE ((rssi - 40) * 10) \div 10 + 90

(* By the retries: an unsigned number, from which they are taken away.     *)
TxQual(retries) ==
    IF retries > 75 THEN (U32(90 - retries) * 30) \div 15
    ELSE IF retries > 70 THEN ((75 - retries) * 30) \div 5 + 30
    ELSE IF retries > 65 THEN ((70 - retries) * 20) \div 5 + 60
    ELSE IF retries > 50 THEN ((65 - retries) * 10) \div 15 + 80
    ELSE ((50 - retries) * 10) \div 50 + 90

(* What is reported.                                                       *)
Quality(rssi, retries) ==
    Lesser(U8(Lesser(RssiQual(rssi), TxQual(retries))), 100)
=============================================================================
