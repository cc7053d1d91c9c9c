----------------------------- MODULE FilesProof -----------------------------
(***************************************************************************)
(* The files that change one field of a record the firmware keeps: the     *)
(* mesh attributes (persistcfg.c) and the event thresholds (debugfs.c)     *)
(* implement ReadModifyWrite, so that what is proved of it there is true   *)
(* of them; and what a reader of a register is shown (debugfs.c).          *)
(***************************************************************************)
EXTENDS LbsMesh, LbsDebugfs, TLAPS

(* The mesh attributes.  A value that waits to be written is one that the  *)
(* store function has accepted, and a copy that waits is one of the IE.    *)
Accepted(w) ==
    wpc[w] \in {"get", "set"} =>
        /\ wattr[w] \in Attr /\ warg[w] \in Datums \cup MeshIds
        /\ Acceptable(wattr[w], warg[w])
        /\ wpc[w] = "get" => wattr[w] \in IeAttr
        /\ wpc[w] = "set" /\ wattr[w] \in IeAttr => ie[w] \in [IeAttr -> IeValues]

MeshInv ==
    /\ defaults \in [Attr -> IeValues \cup Nat]
    /\ Ie \in [IeAttr -> IeValues]
    /\ wpc \in [Writers -> {"idle", "get", "show", "set"}]
    /\ wattr \in [Writers -> Attr]
    /\ DOMAIN warg = Writers /\ DOMAIN ie = Writers
    /\ overtaken \in [Writers -> SUBSET IeAttr]
    /\ \A w \in Writers : Accepted(w)

(* The fields a store function writes are the record's values.             *)
LEMMA StoredValues ==
    ASSUME NEW attr \in Attr, NEW v \in Datums \cup MeshIds, Acceptable(attr, v)
    PROVE  /\ attr \in IeAttr => Stored(attr, v) \in IeValues
           /\ Stored(attr, v) \in IeValues \cup Nat
<1> USE MeshAssumption DEF Acceptable, Stored, IeValues, IeAttr, BootAttr, Attr
<1>1. CASE attr = "mesh_id"
  BY <1>1
<1>2. CASE attr # "mesh_id"
  <2>1. v \in Datums /\ v \in Nat /\ v % 256 \in {x % 256 : x \in Datums} /\ v % 256 \in Nat
    BY <1>2
  <2>2. (IF v < 20 THEN 20 ELSE v) % 256 \in Nat
    BY <2>1
  <2> QED
    BY <1>2, <2>1, <2>2
<1> QED
  BY <1>1, <1>2

LEMMA MeshInitially == MeshInit => MeshInv
<1> SUFFICES ASSUME MeshInit PROVE MeshInv
  OBVIOUS
<1>1. defaults \in [Attr -> IeValues \cup Nat] /\ Ie \in [IeAttr -> IeValues]
  BY DEF MeshInit, Ie, IeValues, Attr, IeAttr, BootAttr
<1> QED
  BY <1>1 DEF MeshInit, MeshInv, Accepted, NoneOpen, Attr, BootAttr

(* Steps that leave the record and the copies alone.                       *)
LEMMA NoCopyTouched ==
    ASSUME UNCHANGED defaults, Holding' = Holding,
           \A w \in Holding : ie'[w] = ie[w] /\ overtaken'[w] = overtaken[w]
    PROVE  UNCHANGED Rmw!vars
  BY DEF Ie, Rmw!vars

LEMMA MeshWrite ==
    ASSUME MeshInv, NEW w \in Writers, Write(w)
    PROVE  MeshInv' /\ UNCHANGED Rmw!vars
<1>1. PICK attr \in Attrs, v \in Datums \cup MeshIds :
         /\ Acceptable(attr, v)
         /\ wattr' = [wattr EXCEPT ![w] = attr]
         /\ warg' = [warg EXCEPT ![w] = v]
         /\ wpc' = [wpc EXCEPT ![w] = IF attr \in IeAttr THEN "get" ELSE "set"]
  BY DEF Write
<1>2. attr \in Attr
  BY MeshAssumption
<1>3. MeshInv'
  <2>1. \A x \in Writers : Accepted(x)'
    BY <1>1, <1>2 DEF MeshInv, Write, Accepted
  <2>2. Ie' = Ie
    BY DEF Write, Ie
  <2> QED
    BY <1>1, <1>2, <2>1, <2>2 DEF MeshInv, Write
<1>4. Holding' = Holding
  BY <1>1 DEF MeshInv, Write, Holding
<1> QED
  BY <1>3, <1>4, NoCopyTouched DEF Write

LEMMA MeshRead ==
    ASSUME MeshInv, NEW w \in Writers, Read(w) \/ Shown(w)
    PROVE  MeshInv' /\ UNCHANGED Rmw!vars
<1>1. Ie' = Ie /\ Holding' = Holding
  BY MeshAssumption DEF MeshInv, Read, Shown, Return, Holding, Ie
<1>2. \A x \in Holding : ie'[x] = ie[x] /\ overtaken'[x] = overtaken[x]
  BY DEF MeshInv, Read, Shown, Return, Holding
<1>3. \A x \in Writers : Accepted(x)'
  BY MeshAssumption DEF MeshInv, Read, Shown, Return, Accepted
<1>4. MeshInv'
  BY <1>1, <1>3, MeshAssumption DEF MeshInv, Read, Shown, Return, Attr, BootAttr
<1> QED
  BY <1>1, <1>2, <1>4, NoCopyTouched DEF Read, Shown

LEMMA MeshFetched ==
    ASSUME MeshInv, "get" \notin MeshFaults, NEW w \in Writers, Fetched(w)
    PROVE  MeshInv' /\ Rmw!Fetch(w)
<1>1. /\ ie' = [ie EXCEPT ![w] = Ie]
      /\ overtaken' = [overtaken EXCEPT ![w] = {}]
      /\ wpc' = [wpc EXCEPT ![w] = "set"]
      /\ UNCHANGED <<defaults, wattr, warg>>
  BY DEF Fetched
<1>2. wpc[w] = "get" /\ wattr[w] \in IeAttr
  BY DEF Fetched, MeshInv, Accepted
<1>3. MeshInv'
  <2>1. \A x \in Writers : Accepted(x)'
    BY <1>1, <1>2 DEF MeshInv, Accepted
  <2>2. Ie' = Ie
    BY <1>1 DEF Ie
  <2> QED
    BY <1>1, <2>1, <2>2 DEF MeshInv
<1>4. w \notin Holding /\ Holding' = Holding \cup {w}
  BY <1>1, <1>2 DEF MeshInv, Holding
<1>5. /\ ie'[w] = Ie /\ overtaken'[w] = {}
      /\ \A x \in Holding : ie'[x] = ie[x] /\ overtaken'[x] = overtaken[x]
  BY <1>1, <1>4 DEF MeshInv, Holding
<1>6. Ie' = Ie
  BY <1>1 DEF Ie
<1> QED
  BY <1>3, <1>4, <1>5, <1>6 DEF Rmw!Fetch, Rmw!Holders

(* A whole IE is written back, with one field of it changed.               *)
LEMMA MeshSetIe ==
    ASSUME MeshInv, NEW w \in Holding, Set(w)
    PROVE  MeshInv' /\ \E f \in IeAttr, v \in IeValues : Rmw!Store(w, f, v)
<1> DEFINE f == wattr[w]
           v == Stored(wattr[w], warg[w])
<1>1. /\ w \in Writers /\ wpc[w] = "set" /\ f \in IeAttr
      /\ ie[w] \in [IeAttr -> IeValues] /\ v \in IeValues
  BY StoredValues DEF MeshInv, Holding, Accepted
<1>2. defaults' = [a \in Attr |-> IF a \in IeAttr THEN [ie[w] EXCEPT ![f] = v][a]
                                                   ELSE defaults[a]]
  BY <1>1 DEF Set, Changed
<1> HIDE DEF f, v
<1>3. Ie' = [ie[w] EXCEPT ![f] = v] /\ Ie' \in [IeAttr -> IeValues]
  BY <1>1, <1>2 DEF Ie, Attr
<1>4. Holding' = Holding \ {w}
  BY <1>1 DEF Set, Return, MeshInv, Holding, IeAttr
<1>5. \A x \in Holding \ {w} :
         /\ ie'[x] = ie[x]
         /\ overtaken'[x] = overtaken[x] \cup {g \in IeAttr : Ie'[g] # Ie[g]}
  <2>1. \A g \in IeAttr : Ie'[g] = defaults'[g] /\ Ie[g] = defaults[g]
    BY <1>2 DEF Ie
  <2>2. {g \in IeAttr : Ie'[g] # Ie[g]} = {g \in IeAttr : defaults'[g] # defaults[g]}
    BY <2>1
  <2>3. ASSUME NEW x \in Holding \ {w}
        PROVE  /\ ie'[x] = ie[x]
               /\ overtaken'[x] = overtaken[x]
                     \cup {g \in IeAttr : defaults'[g] # defaults[g]}
    BY <2>3 DEF Set, Return, MeshInv, Holding
  <2> HIDE DEF Ie
  <2> QED
    BY <2>2, <2>3
<1>6. MeshInv'
  <2>1. \A x \in Writers : Accepted(x)'
    BY DEF MeshInv, Set, Return, Accepted
  <2>2. defaults' \in [Attr -> IeValues \cup Nat]
    BY <1>1, <1>2 DEF MeshInv
  <2>3. overtaken' \in [Writers -> SUBSET IeAttr]
    BY DEF MeshInv, Set
  <2> QED
    BY <1>3, <2>1, <2>2, <2>3 DEF MeshInv, Set, Return, Attr, BootAttr
<1> QED
  BY <1>1, <1>3, <1>4, <1>5, <1>6 DEF Rmw!Store, Rmw!Holders

(* The other defaults are no part of the IE.                               *)
LEMMA MeshSetOther ==
    ASSUME MeshInv, NEW w \in Writers \ Holding, Set(w)
    PROVE  MeshInv' /\ UNCHANGED Rmw!vars
<1>1. wpc[w] = "set" /\ wattr[w] \in BootAttr
  BY DEF Set, MeshInv, Holding, Attr
<1>2. Stored(wattr[w], warg[w]) \in IeValues \cup Nat
  BY <1>1, StoredValues DEF MeshInv, Accepted
<1>3. defaults' = [defaults EXCEPT ![wattr[w]] = Stored(wattr[w], warg[w])]
  BY <1>1 DEF Set, Changed, IeAttr, BootAttr
<1>4. \A a \in IeAttr : defaults'[a] = defaults[a]
  BY <1>1, <1>3 DEF MeshInv, Attr, IeAttr, BootAttr
<1>5. Ie' = Ie /\ Holding' = Holding
  BY <1>1, <1>4 DEF Ie, Set, Return, MeshInv, Holding, IeAttr
<1>6. \A x \in Holding : ie'[x] = ie[x] /\ overtaken'[x] = overtaken[x]
  BY <1>4 DEF Set, Return, MeshInv, Holding
<1>7. MeshInv'
  <2>1. \A x \in Writers : Accepted(x)'
    BY DEF MeshInv, Set, Return, Accepted
  <2>2. overtaken' \in [Writers -> SUBSET IeAttr]
    BY DEF MeshInv, Set
  <2> QED
    BY <1>2, <1>3, <1>5, <2>1, <2>2 DEF MeshInv, Set, Return, Attr, BootAttr
<1> QED
  BY <1>5, <1>6, <1>7 DEF Rmw!vars

LEMMA MeshSetFails ==
    ASSUME MeshInv, NEW w \in Writers, SetFails(w)
    PROVE  MeshInv' /\ [Rmw!GiveUp(w)]_Rmw!vars
<1>1. Ie' = Ie
  BY DEF SetFails, Ie
<1>2. MeshInv'
  <2>1. \A x \in Writers : Accepted(x)'
    BY DEF MeshInv, SetFails, Return, Accepted
  <2> QED
    BY <1>1, <2>1 DEF MeshInv, SetFails, Return, Attr, BootAttr
<1>3. CASE w \in Holding
  <2>1. Holding' = Holding \ {w}
    BY <1>3 DEF SetFails, Return, MeshInv, Holding, IeAttr
  <2>2. \A x \in Holding \ {w} : ie'[x] = ie[x] /\ overtaken'[x] = overtaken[x]
    BY DEF SetFails, Return, MeshInv, Holding
  <2> QED
    BY <1>1, <1>2, <1>3, <2>1, <2>2 DEF Rmw!GiveUp, Rmw!Holders
<1>4. CASE w \notin Holding
  <2>1. Holding' = Holding
    BY <1>4 DEF SetFails, Return, MeshInv, Holding, IeAttr
  <2>2. \A x \in Holding : ie'[x] = ie[x] /\ overtaken'[x] = overtaken[x]
    BY <1>4 DEF SetFails, Return, MeshInv, Holding
  <2> QED
    BY <1>2, <2>1, <2>2, NoCopyTouched DEF SetFails
<1> QED
  BY <1>3, <1>4

LEMMA MeshStep ==
    ASSUME MeshInv, "get" \notin MeshFaults, [MeshNext]_meshVars
    PROVE  MeshInv' /\ [Rmw!Next]_Rmw!vars
<1>1. CASE UNCHANGED meshVars
  BY <1>1 DEF meshVars, MeshInv, Accepted, Ie, Rmw!vars, Holding
<1>2. ASSUME NEW w \in Writers, Write(w) \/ Read(w) \/ Shown(w)
      PROVE  MeshInv' /\ [Rmw!Next]_Rmw!vars
  BY <1>2, MeshWrite, MeshRead
<1>3. ASSUME NEW w \in Writers, Fetched(w)
      PROVE  MeshInv' /\ [Rmw!Next]_Rmw!vars
  BY <1>3, MeshFetched DEF Rmw!Next
<1>4. ASSUME NEW w \in Writers, Set(w)
      PROVE  MeshInv' /\ [Rmw!Next]_Rmw!vars
  <2>1. CASE w \in Holding
    BY <1>4, <2>1, MeshSetIe DEF Rmw!Next
  <2>2. CASE w \notin Holding
    BY <1>4, <2>2, MeshSetOther
  <2> QED
    BY <2>1, <2>2
<1>5. ASSUME NEW w \in Writers, SetFails(w)
      PROVE  MeshInv' /\ [Rmw!Next]_Rmw!vars
  BY <1>5, MeshSetFails DEF Rmw!Next
<1> QED
  BY <1>1, <1>2, <1>3, <1>4, <1>5 DEF MeshNext

(* The attribute files of the mesh (persistcfg.c) are a read-modify-write  *)
(* of the information element, for any number of writers, attributes and   *)
(* values, as long as the commands that fetch it do not fail.              *)
THEOREM MeshImplements ==
    ASSUME "get" \notin MeshFaults
    PROVE  MeshSpec => IeIsReadModifyWrite
<1>1. MeshInit => MeshInv /\ Rmw!Init
  <2>1. MeshInit => Holding = {}
    BY DEF MeshInit, Holding
  <2> QED
    BY <2>1, MeshInitially DEF MeshInv, Rmw!Init, Rmw!NoCopy, Rmw!Cell
<1>2. MeshInv /\ [MeshNext]_meshVars => MeshInv' /\ [Rmw!Next]_Rmw!vars
  BY MeshStep
<1> QED
  BY <1>1, <1>2, PTL DEF MeshSpec, IeIsReadModifyWrite, Rmw!Spec

(* The event thresholds: a mask that waits to be written back is a whole   *)
(* mask, and the arguments of a call stay with it.                         *)
EventArgs == [file : {"event"}, tlv : Tlvs, level : Levels, on : BOOLEAN]

EventInv ==
    /\ subscribed \in [Tlvs -> BOOLEAN]
    /\ DOMAIN dpc = Users /\ DOMAIN darg = Users /\ DOMAIN mask = Users
    /\ DOMAIN mask_late = Users
    /\ \A u \in Users : /\ dpc[u] \in {"get", "set"} => darg[u] \in EventArgs
                        /\ dpc[u] = "set" => mask[u] \in [Tlvs -> BOOLEAN]

(* Steps that leave the mask and its copies alone.                         *)
LEMMA NoMaskTouched ==
    ASSUME UNCHANGED subscribed, Setting' = Setting,
           \A u \in Setting : mask'[u] = mask[u] /\ mask_late'[u] = mask_late[u]
    PROVE  UNCHANGED RmwMask!vars
  BY DEF RmwMask!vars

LEMMA EventWritten ==
    ASSUME EventInv, NEW u \in Users, ThresholdWrite(u)
    PROVE  EventInv' /\ UNCHANGED RmwMask!vars
<1>1. EventInv'
  BY DEF EventInv, EventArgs, ThresholdWrite, Call, eventVars
<1>2. Setting' = Setting
  BY DEF EventInv, ThresholdWrite, Call, Setting
<1> QED
  BY <1>1, <1>2, NoMaskTouched DEF ThresholdWrite, eventVars

LEMMA EventFetched ==
    ASSUME EventInv, NEW u \in Users, MaskFetched(u)
    PROVE  EventInv' /\ [RmwMask!Fetch(u)]_RmwMask!vars
<1>1. CASE /\ mask' = [mask EXCEPT ![u] = subscribed]
           /\ dpc' = [dpc EXCEPT ![u] = "set"]
           /\ UNCHANGED darg
  <2>1. EventInv'
    BY <1>1 DEF EventInv, MaskFetched
  <2>2. u \notin Setting /\ Setting' = Setting \cup {u}
    BY <1>1 DEF EventInv, MaskFetched, Setting
  <2>3. /\ mask'[u] = subscribed /\ mask_late'[u] = {}
        /\ \A x \in Setting : mask'[x] = mask[x] /\ mask_late'[x] = mask_late[x]
    BY <1>1, <2>2 DEF EventInv, MaskFetched, Setting
  <2> QED
    BY <2>1, <2>2, <2>3 DEF RmwMask!Fetch, RmwMask!Holders, MaskFetched
<1>2. CASE Done(u) /\ UNCHANGED mask
  <2>1. EventInv' /\ Setting' = Setting
    BY <1>2 DEF EventInv, EventArgs, MaskFetched, Done, Setting
  <2>2. \A x \in Setting : mask'[x] = mask[x] /\ mask_late'[x] = mask_late[x]
    BY <1>2 DEF EventInv, MaskFetched, Setting
  <2> QED
    BY <2>1, <2>2, NoMaskTouched DEF MaskFetched
<1> QED
  BY <1>1, <1>2 DEF MaskFetched

LEMMA EventSet ==
    ASSUME EventInv, NEW u \in Users, MaskSet(u)
    PROVE  /\ EventInv'
           /\ \/ \E s \in Tlvs, b \in BOOLEAN : RmwMask!Store(u, s, b)
              \/ RmwMask!GiveUp(u)
<1>1. dpc[u] = "set" /\ u \in Setting /\ darg[u] \in EventArgs /\ mask[u] \in [Tlvs -> BOOLEAN]
  BY DEF MaskSet, EventInv, Setting
<1>2. PICK t \in Tlvs, on \in BOOLEAN : t = darg[u].tlv /\ on = darg[u].on
  BY <1>1 DEF EventArgs
<1>3. Setting' = Setting \ {u}
  BY DEF EventInv, MaskSet, Done, Setting
<1>4. \A x \in Setting \ {u} :
         /\ mask'[x] = mask[x]
         /\ mask_late'[x] = mask_late[x] \cup {s \in Tlvs : subscribed'[s] # subscribed[s]}
  BY DEF EventInv, MaskSet, Setting
<1>5. ASSUME subscribed' \in [Tlvs -> BOOLEAN] PROVE EventInv'
  BY <1>5 DEF EventInv, EventArgs, MaskSet, Done
<1>6. CASE subscribed' = NewMask(mask[u], darg[u].tlv, darg[u].on)
  <2>1. subscribed' = [mask[u] EXCEPT ![t] = on]
    BY <1>2, <1>6 DEF NewMask
  <2>2. EventInv'
    BY <1>1, <1>5, <2>1
  <2>3. RmwMask!Store(u, t, on)
    BY <1>1, <1>3, <1>4, <2>1 DEF RmwMask!Store, RmwMask!Holders
  <2> QED
    BY <2>2, <2>3
<1>7. CASE UNCHANGED subscribed
  <2>1. \A x \in Setting \ {u} : mask'[x] = mask[x] /\ mask_late'[x] = mask_late[x]
    BY <1>4, <1>7
  <2>2. RmwMask!GiveUp(u)
    BY <1>1, <1>3, <1>7, <2>1 DEF RmwMask!GiveUp, RmwMask!Holders
  <2> QED
    BY <1>5, <1>7, <2>2 DEF EventInv
<1> QED
  BY <1>6, <1>7 DEF MaskSet

(* The files of the registers have no part in the events.                  *)
LEMMA RegisterFilesApart ==
    ASSUME EventInv, RegNext PROVE EventInv' /\ UNCHANGED RmwMask!vars
<1>1. UNCHANGED eventVars
  BY DEF RegNext, OffsetWrite, RegRead, RegReadAnswer, RegShown, RegWrite, RegWritten
<1>2. PICK u \in Users : /\ dpc[u] \notin {"get", "set"}
                         /\ \A x \in Users \ {u} : dpc'[x] = dpc[x] /\ darg'[x] = darg[x]
                         /\ dpc'[u] \notin {"get", "set"}
                         /\ DOMAIN dpc' = Users /\ DOMAIN darg' = Users
  BY DEF RegNext, OffsetWrite, RegRead, RegReadAnswer, RegShown, RegWrite, RegWritten,
         Call, Done, EventInv
<1>3. Setting' = Setting
  BY <1>2 DEF Setting
<1>4. EventInv'
  BY <1>1, <1>2 DEF EventInv, EventArgs, eventVars
<1> QED
  BY <1>1, <1>3, <1>4, NoMaskTouched DEF eventVars

(* The thresholds of debugfs (lbs_threshold_write, debugfs.c) are a        *)
(* read-modify-write of the event mask, for any number of users and        *)
(* events, whichever of the commands fail.                                 *)
THEOREM EventsImplement == DebugSpec => MaskIsReadModifyWrite
<1>1. DebugInit => EventInv /\ RmwMask!Init
  <2>1. DebugInit => Setting = {} /\ EventInv
    BY DEF DebugInit, EventInv, Setting
  <2> QED
    BY <2>1 DEF EventInv, RmwMask!Init, RmwMask!NoCopy, RmwMask!Cell
<1>2. EventInv /\ [DebugNext]_debugVars => EventInv' /\ [RmwMask!Next]_RmwMask!vars
  <2> SUFFICES ASSUME EventInv, [DebugNext]_debugVars
               PROVE  EventInv' /\ [RmwMask!Next]_RmwMask!vars
    OBVIOUS
  <2>1. CASE UNCHANGED debugVars
    BY <2>1 DEF debugVars, eventVars, EventInv, EventArgs, Setting, RmwMask!vars
  <2>2. CASE RegNext
    BY <2>2, RegisterFilesApart
  <2>3. ASSUME NEW u \in Users, ThresholdWrite(u)
        PROVE  EventInv' /\ [RmwMask!Next]_RmwMask!vars
    BY <2>3, EventWritten
  <2>4. ASSUME NEW u \in Users, MaskFetched(u)
        PROVE  EventInv' /\ [RmwMask!Next]_RmwMask!vars
    <3>1. EventInv' /\ [RmwMask!Fetch(u)]_RmwMask!vars
      BY <2>4, EventFetched
    <3> QED
      BY <3>1 DEF RmwMask!Next
  <2>5. ASSUME NEW u \in Users, MaskSet(u)
        PROVE  EventInv' /\ [RmwMask!Next]_RmwMask!vars
    <3>1. /\ EventInv'
          /\ \/ \E t \in Tlvs, on \in BOOLEAN : RmwMask!Store(u, t, on)
             \/ RmwMask!GiveUp(u)
      BY <2>5, EventSet
    <3> QED
      BY <3>1 DEF RmwMask!Next
  <2> QED
    BY <2>1, <2>2, <2>3, <2>4, <2>5 DEF DebugNext, EventNext
<1> QED
  BY <1>1, <1>2, PTL DEF DebugSpec, MaskIsReadModifyWrite, RmwMask!Spec

(* Lost updates in the files happen only in a race (persistcfg.c,          *)
(* debugfs.c): a copy that waits to be written back is the record but for  *)
(* the fields that other files have changed since it was fetched.          *)
THEOREM FilesRaceOnly ==
    /\ "get" \notin MeshFaults /\ MeshSpec
          => [](\A w \in Holding : \A f \in IeAttr \ overtaken[w] :
                   ie[w][f] = defaults[f])
    /\ DebugSpec => [](\A u \in Setting : \A t \in Tlvs \ mask_late[u] :
                          mask[u][t] = subscribed[t])
<1>1. Rmw!CopyIsFresh => \A w \in Holding : \A f \in IeAttr \ overtaken[w] :
                            ie[w][f] = defaults[f]
  BY DEF Rmw!CopyIsFresh, Rmw!Holders, Ie
<1>2. RmwMask!CopyIsFresh => \A u \in Setting : \A t \in Tlvs \ mask_late[u] :
                                mask[u][t] = subscribed[t]
  BY DEF RmwMask!CopyIsFresh, RmwMask!Holders
<1>3. Rmw!Spec => []Rmw!CopyIsFresh
  BY Rmw!OnlyRacesRevert
<1>4. RmwMask!Spec => []RmwMask!CopyIsFresh
  BY RmwMask!OnlyRacesRevert
<1>5. "get" \notin MeshFaults /\ MeshSpec => Rmw!Spec
  BY MeshImplements DEF IeIsReadModifyWrite
<1>6. DebugSpec => RmwMask!Spec
  BY EventsImplement DEF MaskIsReadModifyWrite
<1> QED
  BY <1>1, <1>2, <1>3, <1>4, <1>5, <1>6, PTL

(* The registers.  A reader that nobody disturbed still reads from the     *)
(* offset it will be shown, and once answered has that register's value.   *)
ReadArgs  == [file : {"read"}, reg : Regs, offset : Offsets]
WriteArgs == [file : {"write"}, reg : Regs, offset : Offsets, word : Words]

RegTypes ==
    /\ reg_mem \in [Regs -> [Offsets -> Words]]
    /\ reg_offset \in [Regs -> Offsets]
    /\ DOMAIN dpc = Users /\ DOMAIN darg = Users
    /\ disturbed \in [Users -> BOOLEAN]
    /\ \A u \in Users : /\ dpc[u] \in {"read", "show"} => darg[u] \in ReadArgs
                        /\ dpc[u] = "write" => darg[u] \in WriteArgs

Undisturbed(u) ==
    ~disturbed[u] =>
       LET r == darg[u].reg
       IN  /\ dpc[u] = "read" => darg[u].offset = reg_offset[r]
           /\ dpc[u] = "show" => offsetvalue = reg_mem[r][reg_offset[r]]

RegInv == RegTypes /\ \A u \in Users : Undisturbed(u)

LEMMA OffsetWriteKeeps ==
    ASSUME RegInv, NEW u \in Users, OffsetWrite(u) PROVE RegInv'
<1>1. RegTypes'
  BY DEF RegInv, RegTypes, OffsetWrite, Crossed
<1>2. ASSUME NEW x \in Users PROVE Undisturbed(x)'
  BY DEF RegInv, RegTypes, OffsetWrite, Crossed, Undisturbed, ReadArgs
<1> QED
  BY <1>1, <1>2 DEF RegInv

LEMMA RegReadKeeps ==
    ASSUME RegInv, NEW u \in Users, RegRead(u) PROVE RegInv'
<1>1. RegTypes'
  BY DEF RegInv, RegTypes, RegRead, Call, ReadArgs, WriteArgs
<1>2. ASSUME NEW x \in Users PROVE Undisturbed(x)'
  BY DEF RegInv, RegTypes, RegRead, Call, Undisturbed, ReadArgs
<1> QED
  BY <1>1, <1>2 DEF RegInv

LEMMA RegReadAnswerKeeps ==
    ASSUME RegInv, NEW u \in Users, RegReadAnswer(u) PROVE RegInv'
<1>1. RegTypes'
  BY DEF RegInv, RegTypes, RegReadAnswer, ReadArgs, WriteArgs
<1>2. ASSUME NEW x \in Users PROVE Undisturbed(x)'
  BY DEF RegInv, RegTypes, RegReadAnswer, Answered, Undisturbed, ReadArgs
<1> QED
  BY <1>1, <1>2 DEF RegInv

LEMMA RegShownKeeps ==
    ASSUME RegInv, NEW u \in Users, RegShown(u) PROVE RegInv'
<1>1. RegTypes'
  BY DEF RegInv, RegTypes, RegShown, Done, regVars, ReadArgs, WriteArgs
<1>2. ASSUME NEW x \in Users PROVE Undisturbed(x)'
  BY DEF RegInv, RegTypes, RegShown, Done, regVars, Undisturbed, ReadArgs
<1> QED
  BY <1>1, <1>2 DEF RegInv

LEMMA RegWriteKeeps ==
    ASSUME RegInv, NEW u \in Users, RegWrite(u) PROVE RegInv'
<1>1. RegTypes'
  BY DEF RegInv, RegTypes, RegWrite, Call, regVars, ReadArgs, WriteArgs
<1>2. ASSUME NEW x \in Users PROVE Undisturbed(x)'
  BY DEF RegInv, RegTypes, RegWrite, Call, regVars, Undisturbed, ReadArgs
<1> QED
  BY <1>1, <1>2 DEF RegInv

LEMMA RegWrittenKeeps ==
    ASSUME RegInv, NEW u \in Users, RegWritten(u) PROVE RegInv'
<1>1. darg[u] \in WriteArgs
  BY DEF RegInv, RegTypes, RegWritten
<1>2. RegTypes'
  <2>1. reg_mem' \in [Regs -> [Offsets -> Words]]
    BY <1>1 DEF RegInv, RegTypes, RegWritten, WriteArgs
  <2>2. disturbed' \in [Users -> BOOLEAN]
    BY DEF RegInv, RegTypes, RegWritten
  <2>3. \A x \in Users : /\ dpc'[x] \in {"read", "show"} => darg'[x] \in ReadArgs
                        /\ dpc'[x] = "write" => darg'[x] \in WriteArgs
    BY DEF RegInv, RegTypes, RegWritten, Done
  <2> QED
    BY <2>1, <2>2, <2>3 DEF RegInv, RegTypes, RegWritten, Done
<1>3. ASSUME NEW x \in Users PROVE Undisturbed(x)'
  BY DEF RegInv, RegTypes, RegWritten, Done, Undisturbed, ReadArgs
<1> QED
  BY <1>2, <1>3 DEF RegInv

(* The files of the events have no part in the registers.                  *)
LEMMA EventFilesApart ==
    ASSUME RegInv, EventNext PROVE RegInv'
<1>1. UNCHANGED regVars
  BY DEF EventNext, ThresholdWrite, MaskFetched, MaskSet
<1>2. PICK u \in Users : /\ dpc[u] \in {"idle", "get", "set"}
                         /\ \A x \in Users \ {u} : dpc'[x] = dpc[x] /\ darg'[x] = darg[x]
                         /\ dpc'[u] \in {"idle", "get", "set"}
                         /\ DOMAIN dpc' = Users /\ DOMAIN darg' = Users
  BY DEF EventNext, ThresholdWrite, MaskFetched, MaskSet, Call, Done, RegInv, RegTypes
<1>3. RegTypes'
  BY <1>1, <1>2 DEF RegInv, RegTypes, ReadArgs, WriteArgs, regVars
<1>4. ASSUME NEW x \in Users PROVE Undisturbed(x)'
  BY <1>1, <1>2 DEF RegInv, Undisturbed, regVars
<1> QED
  BY <1>1, <1>2, <1>3, <1>4 DEF RegInv

(* What a reader of a register is shown, from the driver's one shared      *)
(* answer (priv->offsetvalue, lbs_rdmac_read in debugfs.c), is the         *)
(* register at the offset it is shown, unless the read failed or another   *)
(* file came between.                                                      *)
THEOREM ShownAsRead == DebugSpec => RegisterShown
<1> DEFINE Step == \A u \in Users : dpc[u] = "show" /\ dpc'[u] = "idle" /\ ~disturbed[u]
                      => offsetvalue = reg_mem[darg[u].reg][reg_offset[darg[u].reg]]
<1>1. DebugInit => RegInv
  BY DebugAssumption DEF DebugInit, RegInv, RegTypes, Undisturbed
<1>2. RegInv /\ [DebugNext]_debugVars => RegInv'
  <2> SUFFICES ASSUME RegInv, [DebugNext]_debugVars PROVE RegInv'
    OBVIOUS
  <2>1. CASE UNCHANGED debugVars
    BY <2>1 DEF debugVars, regVars, RegInv, RegTypes, Undisturbed, ReadArgs, WriteArgs
  <2>2. CASE EventNext
    BY <2>2, EventFilesApart
  <2>3. CASE RegNext
    BY <2>3, OffsetWriteKeeps, RegReadKeeps, RegReadAnswerKeeps, RegShownKeeps,
       RegWriteKeeps, RegWrittenKeeps DEF RegNext
  <2> QED
    BY <2>1, <2>2, <2>3 DEF DebugNext
<1>3. RegInv => Step
  BY DEF RegInv, Undisturbed
<1> QED
  BY <1>1, <1>2, <1>3, PTL DEF DebugSpec, RegisterShown
=============================================================================
