----------------------------- MODULE MCLibertas -----------------------------
(* Small instances of Libertas for TLC: who makes which calls.             *)
EXTENDS LibertasService, TLC
CONSTANTS n1, n2, n3, c1, c2, c3

TwoBuffers   == <<n1, n2>>
ThreeBuffers == <<n1, n2, n3>>

Generic(api) == [api |-> api, cmd |-> "GENERIC"]
Legacy(cmd)  == [api |-> "wait", cmd |-> cmd]
NoWait(cmd)  == [api |-> "nowait", cmd |-> cmd]
On  == [api |-> "power_on", cmd |-> "ENTER_PS"]
Off == [api |-> "power_off", cmd |-> "EXIT_PS"]

(* One caller of __lbs_cmd, once, twice, and using lbs_cmd_async as well.  *)
ProgramOne   == c1 :> <<{Generic("sync")}>>
ProgramTwice == c1 :> <<{Generic("sync")}, {Generic("sync")}>>
ProgramAsync == c1 :> <<{Generic("sync")}, {Generic("sync"), Generic("async")}>>

(* iwconfig power on and off, and a command meanwhile.                     *)
ProgramPower ==
    c1 :> <<{On}, {Off}>> @@ c2 :> <<{Generic("sync"), NoWait("RSSI")}>>

(* Associating and deauthenticating, as lbs_associate and                  *)
(* lbs_cmd_80211_deauthenticate do it, in any order.                       *)
ProgramLink ==
    c1 :> [i \in 1..2 |-> {Legacy("ASSOCIATE"), Legacy("DEAUTHENTICATE")}]

(* Three callers of __lbs_cmd, once each: more than there are buffers.     *)
ProgramThree == [c \in {c1, c2, c3} |-> <<{Generic("sync")}>>]

(* iwconfig power on and off, alone.                                       *)
ProgramIwconfig == c1 :> <<{On}, {Off}>>

(* Two of them.                                                            *)
ProgramBoth == c1 :> <<{Generic("sync")}>> @@ c2 :> <<{Generic("sync")}>>
=============================================================================
