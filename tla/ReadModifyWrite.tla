-------------------------- MODULE ReadModifyWrite --------------------------
(***************************************************************************)
(* What is promised when several processes change single fields of one     *)
(* record the firmware keeps, each by fetching the whole record, changing  *)
(* its field in the copy and writing the copy back, with no lock from the  *)
(* one to the other.  The mesh attributes (LbsMesh) and the subscribed     *)
(* events (LbsDebugfs) implement it.                                       *)
(***************************************************************************)
EXTENDS TLAPS

CONSTANTS Clients, Fields, Values

VARIABLES
    cell,     \* the record
    copy,     \* per client that has fetched the record: its copy
    overtaken \* per such client (history): the fields written since

vars == <<cell, copy, overtaken>>

Cell == [Fields -> Values]
Holders == DOMAIN copy

TypeOK ==
    /\ cell \in Cell
    /\ Holders \subseteq Clients
    /\ copy \in [Holders -> Cell]
    /\ overtaken \in [Holders -> SUBSET Fields]

NoCopy == [c \in {} |-> {}]

Init == cell \in Cell /\ copy = NoCopy /\ overtaken = NoCopy

Fetch(c) ==
    /\ c \notin Holders
    /\ copy' = [d \in Holders \cup {c} |-> IF d = c THEN cell ELSE copy[d]]
    /\ overtaken' = [d \in Holders \cup {c} |-> IF d = c THEN {} ELSE overtaken[d]]
    /\ UNCHANGED cell

Store(c, f, v) ==
    /\ c \in Holders
    /\ cell' = [copy[c] EXCEPT ![f] = v]
    /\ copy' = [d \in Holders \ {c} |-> copy[d]]
    /\ overtaken' = [d \in Holders \ {c} |->
                        overtaken[d] \cup {g \in Fields : cell'[g] # cell[g]}]

GiveUp(c) ==
    /\ c \in Holders
    /\ copy' = [d \in Holders \ {c} |-> copy[d]]
    /\ overtaken' = [d \in Holders \ {c} |-> overtaken[d]]
    /\ UNCHANGED cell

Next == \E c \in Clients : \/ Fetch(c) \/ GiveUp(c)
                           \/ \E f \in Fields, v \in Values : Store(c, f, v)

Spec == Init /\ [][Next]_vars

(* Only a field somebody else wrote since it was fetched can be reverted:  *)
(* a copy agrees with the record everywhere else.                          *)
CopyIsFresh ==
    \A c \in Holders : \A f \in Fields \ overtaken[c] : copy[c][f] = cell[f]
-----------------------------------------------------------------------------
IInv == TypeOK /\ CopyIsFresh

LEMMA FetchKeeps ==
    ASSUME IInv, NEW c \in Clients, Fetch(c) PROVE IInv'
  <1>1. TypeOK'
    BY DEF IInv, TypeOK, Holders, Fetch, Cell
  <1>2. CopyIsFresh'
    BY DEF IInv, TypeOK, Holders, Fetch, CopyIsFresh, Cell
  <1> QED BY <1>1, <1>2 DEF IInv

LEMMA StoreKeeps ==
    ASSUME IInv, NEW c \in Clients, NEW f \in Fields, NEW v \in Values,
           Store(c, f, v)
    PROVE  IInv'
  <1>1. Holders' = Holders \ {c}
    BY DEF Store, Holders
  <1>2. TypeOK'
    <2>1. cell' \in Cell
      BY DEF IInv, TypeOK, Holders, Store, Cell
    <2> QED BY <1>1, <2>1 DEF IInv, TypeOK, Store
  <1>3. CopyIsFresh'
    <2> SUFFICES ASSUME NEW d \in Holders', NEW g \in Fields \ overtaken'[d]
                 PROVE  copy'[d][g] = cell'[g]
      BY DEF CopyIsFresh
    <2>1. d \in Holders
      BY <1>1
    <2>2. overtaken'[d] = overtaken[d] \cup {h \in Fields : cell'[h] # cell[h]}
      BY <1>1 DEF Store
    <2>3. g \notin overtaken[d] /\ cell'[g] = cell[g]
      BY <2>2
    <2>4. copy[d][g] = cell[g]
      BY <2>1, <2>3 DEF IInv, CopyIsFresh
    <2>5. copy'[d] = copy[d]
      BY <1>1 DEF Store
    <2> QED BY <2>3, <2>4, <2>5
  <1> QED BY <1>2, <1>3 DEF IInv

LEMMA GiveUpKeeps ==
    ASSUME IInv, NEW c \in Clients, GiveUp(c) PROVE IInv'
  BY DEF IInv, TypeOK, Holders, GiveUp, CopyIsFresh

(* Lost updates happen only in a race: whatever the fields, the values and *)
(* the number of clients, a copy that is written back (mesh_id_set,        *)
(* persistcfg.c; lbs_threshold_write, debugfs.c) differs from the record   *)
(* only where another client has written since it was fetched.             *)
THEOREM OnlyRacesRevert == Spec => []CopyIsFresh
  <1>1. Init => IInv
    BY DEF Init, NoCopy, Holders, IInv, TypeOK, CopyIsFresh
  <1>2. IInv /\ [Next]_vars => IInv'
    <2> SUFFICES ASSUME IInv, [Next]_vars PROVE IInv'
      OBVIOUS
    <2>1. CASE UNCHANGED vars
      BY <2>1 DEF vars, Holders, IInv, TypeOK, CopyIsFresh
    <2>2. ASSUME NEW c \in Clients, Fetch(c) PROVE IInv'
      BY <2>2, FetchKeeps
    <2>3. ASSUME NEW c \in Clients, NEW f \in Fields, NEW v \in Values,
                 Store(c, f, v)
          PROVE  IInv'
      BY <2>3, StoreKeeps
    <2>4. ASSUME NEW c \in Clients, GiveUp(c) PROVE IInv'
      BY <2>4, GiveUpKeeps
    <2> QED BY <2>1, <2>2, <2>3, <2>4 DEF Next
  <1>3. IInv => CopyIsFresh
    BY DEF IInv
  <1> QED BY <1>1, <1>2, <1>3, PTL DEF Spec
=============================================================================
