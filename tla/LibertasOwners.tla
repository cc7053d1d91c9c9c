--------------------------- MODULE LibertasOwners ---------------------------
(***************************************************************************)
(* Command buffers are neither shared nor lost, for any number of buffers  *)
(* and callers, as long as no signal interrupts a caller and the card is   *)
(* not pulled out (both of which break the property).                      *)
(*                                                                         *)
(* NodeOwnership is not inductive.  What a completion does with a node     *)
(* depends on its callback, so the callback must say who waits for it; and *)
(* what a caller does depends on cmdwaitqwoken, so a node that is still    *)
(* queued must not be marked.  Each action then does one of eight things   *)
(* to the lists, and there is a lemma for each.                            *)
(***************************************************************************)
EXTENDS LibertasTypes

Free    == ToSet(cmdfreeq)
Pending == ToSet(cmdpendingq)

WaitsSync(c) == pc[c] = "wait" /\ call[c].api = "sync"

Plugged == remover = "plugged" /\ ~surpriseremoved

ListsApart ==
    /\ IsInjective(cmdfreeq) /\ IsInjective(cmdpendingq)
    /\ Free \cap Queued = {}
    /\ cur_cmd \notin Pending

(* The node a caller fills in is nowhere else, and has its callback.       *)
Fillers ==
    \A c \in Callers :
        pc[c] = "filled" => /\ held[c] \notin Free \cup Queued
                            /\ node[held[c]].cb = Callback(call[c].api)

(* The node __lbs_cmd waits for is not free, and has a callback.           *)
Waiters ==
    \A c \in Callers :
        WaitsSync(c) => held[c] \notin Free /\ node[held[c]].cb = "sync"

HoldersApart ==
    \A c, d \in Callers : c # d /\ Holds(c) /\ Holds(d) => held[c] # held[d]

(* A queued node has not been completed; if the caller is to free it, one  *)
(* waits for it.                                                           *)
QueuedNodes ==
    \A n \in Queued :
        /\ ~node[n].woken
        /\ node[n].cb = "sync" => \E c \in Callers : WaitsSync(c) /\ held[c] = n

Somewhere ==
    \A n \in Nodes : \/ n \in Free \cup Queued
                     \/ \E c \in Callers : Holds(c) /\ held[c] = n

OwnInv ==
    Plugged /\ ListsApart /\ Fillers /\ Waiters /\ HoldersApart /\ QueuedNodes /\ Somewhere
-----------------------------------------------------------------------------
(* What list_add_tail does to the set of the nodes on a list, ...          *)
LEMMA AppendSet ==
    ASSUME NEW S, NEW s \in Seq(S), NEW e \in S
    PROVE  /\ ToSet(Append(s, e)) = ToSet(s) \cup {e}
           /\ IsInjective(s) /\ e \notin ToSet(s) => IsInjective(Append(s, e))
<1>1. /\ Len(s) \in Nat /\ DOMAIN s = 1..Len(s)
      /\ DOMAIN Append(s, e) = 1..(Len(s) + 1)
      /\ \A i \in 1..Len(s) : Append(s, e)[i] = s[i]
      /\ Append(s, e)[Len(s) + 1] = e
  BY AppendProperties, LenProperties
<1> DEFINE t == Append(s, e)
<1> HIDE DEF t
<1>2. ToSet(t) = ToSet(s) \cup {e}
  BY <1>1 DEF ToSet, t
<1>3. IsInjective(s) /\ e \notin ToSet(s) => IsInjective(t)
  BY <1>1 DEF ToSet, IsInjective, t
<1> QED
  BY <1>2, <1>3 DEF t

(* ... what list_add does, ...                                             *)
LEMMA ConsSet ==
    ASSUME NEW S, NEW s \in Seq(S), NEW e \in S
    PROVE  /\ ToSet(<<e>> \o s) = ToSet(s) \cup {e}
           /\ IsInjective(s) /\ e \notin ToSet(s) => IsInjective(<<e>> \o s)
<1> DEFINE t == <<e>> \o s
<1>1. <<e>> \in Seq(S) /\ Len(<<e>>) = 1 /\ <<e>>[1] = e
  OBVIOUS
<1>2. /\ Len(s) \in Nat /\ DOMAIN s = 1..Len(s)
      /\ DOMAIN t = 1..(Len(s) + 1)
      /\ t[1] = e
      /\ \A i \in 1..Len(s) : t[i + 1] = s[i]
  <2>1. t \in Seq(S) /\ Len(t) = Len(s) + 1
    BY <1>1, ConcatProperties, LenProperties
  <2>2. \A i \in 1..(1 + Len(s)) : t[i] = IF i <= 1 THEN <<e>>[i] ELSE s[i - 1]
    BY <1>1, ConcatProperties
  <2>3. Len(s) \in Nat /\ DOMAIN s = 1..Len(s) /\ DOMAIN t = 1..Len(t)
    BY <2>1, LenProperties
  <2> HIDE DEF t
  <2> QED
    BY <1>1, <2>1, <2>2, <2>3
<1> HIDE DEF t
<1>3. \A i \in 1..(Len(s) + 1) : i = 1 \/ (i - 1 \in 1..Len(s) /\ t[i] = s[i - 1])
  BY <1>2
<1>4. ToSet(t) = ToSet(s) \cup {e}
  <2>1. ASSUME NEW x \in ToSet(s) PROVE x \in ToSet(t)
    <3>1. PICK i \in 1..Len(s) : x = s[i]
      BY <1>2 DEF ToSet
    <3>2. i + 1 \in DOMAIN t /\ t[i + 1] = x
      BY <1>2, <3>1
    <3> QED
      BY <3>2 DEF ToSet
  <2>2. e \in ToSet(t)
    <3>1. 1 \in DOMAIN t
      BY <1>2
    <3> QED
      BY <1>2, <3>1 DEF ToSet
  <2>3. ASSUME NEW x \in ToSet(t) PROVE x \in ToSet(s) \cup {e}
    <3>1. PICK i \in 1..(Len(s) + 1) : x = t[i]
      BY <1>2 DEF ToSet
    <3>2. x = e \/ (i - 1 \in DOMAIN s /\ x = s[i - 1])
      BY <1>2, <1>3, <3>1
    <3> QED
      BY <3>2 DEF ToSet
  <2> QED
    BY <2>1, <2>2, <2>3
<1>5. ASSUME IsInjective(s), e \notin ToSet(s) PROVE IsInjective(t)
  <2>1. \A i \in 1..Len(s) : s[i] # e
    BY <1>2, <1>5 DEF ToSet
  <2>2. \A i, j \in 1..Len(s) : s[i] = s[j] => i = j
    BY <1>2, <1>5 DEF IsInjective
  <2>3. ASSUME NEW i \in 1..(Len(s) + 1), NEW j \in 1..(Len(s) + 1), t[i] = t[j]
        PROVE  i = j
    <3>1. CASE i = 1 \/ j = 1
      BY <1>2, <1>3, <2>1, <2>3, <3>1
    <3>2. CASE i # 1 /\ j # 1
      <4>1. /\ i - 1 \in 1..Len(s) /\ t[i] = s[i - 1]
            /\ j - 1 \in 1..Len(s) /\ t[j] = s[j - 1]
        BY <1>3, <3>2
      <4>2. i - 1 = j - 1
        BY <2>2, <2>3, <4>1
      <4> QED
        BY <4>2
    <3> QED
      BY <3>1, <3>2
  <2> QED
    BY <1>2, <2>3 DEF IsInjective
<1> QED
  BY <1>4, <1>5 DEF t

(* ... and what list_del of the first node does.                           *)
LEMMA TailSet ==
    ASSUME NEW S, NEW s \in Seq(S), s # <<>>, IsInjective(s)
    PROVE  /\ Head(s) \in ToSet(s)
           /\ ToSet(Tail(s)) = ToSet(s) \ {Head(s)}
           /\ IsInjective(Tail(s))
<1> DEFINE t == Tail(s)
<1>1. /\ Len(s) \in Nat /\ Len(s) >= 1 /\ DOMAIN s = 1..Len(s)
      /\ DOMAIN t = 1..(Len(s) - 1)
      /\ \A i \in 1..(Len(s) - 1) : t[i] = s[i + 1]
      /\ Head(s) = s[1]
  BY EmptySeq, LenProperties, HeadTailProperties
<1> HIDE DEF t
<1>2. \A i \in 1..Len(s) : i = 1 \/ (i - 1 \in 1..(Len(s) - 1) /\ t[i - 1] = s[i])
  BY <1>1
<1>3. Head(s) \in ToSet(s)
  BY <1>1 DEF ToSet
<1>4. ToSet(t) = ToSet(s) \ {Head(s)}
  BY <1>1, <1>2 DEF ToSet, IsInjective
<1>5. IsInjective(t)
  BY <1>1 DEF IsInjective
<1> QED
  BY <1>3, <1>4, <1>5 DEF t

(* lbs_queue_cmd: the node joins cmdpendingq, at either end.               *)
LEMMA EnqueuedSet ==
    ASSUME cmdpendingq \in Seq(Nodes), NEW n \in Nodes, NEW cmd
    PROVE  /\ ToSet(Enqueued(n, cmd)) = Pending \cup {n}
           /\ IsInjective(cmdpendingq) /\ n \notin Pending
              => IsInjective(Enqueued(n, cmd))
  BY AppendSet, ConsSet DEF Enqueued, Pending
-----------------------------------------------------------------------------
(* What the callers hold does not change.                                  *)
SameHolders ==
    \A c \in Callers :
        /\ pc'[c] = "filled" <=> pc[c] = "filled"
        /\ WaitsSync(c)' <=> WaitsSync(c)
        /\ Holds(c) => held'[c] = held[c] /\ call'[c] = call[c]

(* A step of another thread does not change what the callers hold.         *)
LEMMA Unheld ==
    ASSUME UNCHANGED <<pc, held, call>>
    PROVE  SameHolders
  BY DEF SameHolders, WaitsSync

(* Lists hold nodes, and NoNode is not one.                                *)
LEMMA ListsOfNodes ==
    ASSUME TypeInv
    PROVE  /\ Free \subseteq Nodes /\ Pending \subseteq Nodes /\ Queued \subseteq Nodes
           /\ NoNode \notin Nodes
<1>1. ASSUME NEW s \in Seq(Nodes) PROVE ToSet(s) \subseteq Nodes
  BY LenProperties, ElementOfSeq DEF ToSet
<1>2. Free \subseteq Nodes /\ Pending \subseteq Nodes
  BY <1>1 DEF TypeInv, TypeOK, QueueTypes, Free, Pending
<1> QED
  BY <1>2, NodesAssumption DEF TypeInv, TypeOK, CurrentTypes, Queued, Pending

(* 1. Nothing happens to the nodes.                                        *)
LEMMA NothingMoves ==
    ASSUME OwnInv, SameHolders, UNCHANGED <<nodeVars, cur_cmd, removeVars>>
    PROVE  OwnInv'
<1> USE DEF OwnInv, SameHolders, nodeVars, removeVars, WaitsSync, Holds
<1>1. Plugged' /\ ListsApart'
  BY DEF Plugged, ListsApart, Free, Pending, Queued
<1>2. Free' = Free /\ Queued' = Queued
  BY DEF Free, Queued
<1>3. Fillers'
  BY <1>2 DEF Fillers
<1>4. Waiters'
  BY <1>2 DEF Waiters
<1>5. HoldersApart'
  BY DEF HoldersApart
<1>6. QueuedNodes'
  BY <1>2 DEF QueuedNodes
<1>7. Somewhere'
  BY <1>2 DEF Somewhere
<1> QED
  BY <1>1, <1>3, <1>4, <1>5, <1>6, <1>7

(* 2. The main thread takes a node and queues it (PrepareNoWait).          *)
LEMMA NodePrepared ==
    ASSUME TypeInv, OwnInv, NEW cmd \in Command, PrepareNoWait(cmd),
           UNCHANGED <<cur_cmd, removeVars, pc, held, call>>
    PROVE  OwnInv'
<1>1. CASE UNCHANGED nodeVars
  BY <1>1, Unheld, NothingMoves
<1>2. CASE cmdfreeq # <<>> /\ ~UNCHANGED nodeVars
  <2> DEFINE n == Head(cmdfreeq)
  <2>1. cmdfreeq \in Seq(Nodes) /\ cmdpendingq \in Seq(Nodes) /\ node \in [Nodes -> NodeRec]
    BY DEF TypeInv, TypeOK, QueueTypes
  <2>2. n \in Nodes /\ n \in Free /\ n \notin Queued
    BY <1>2, <2>1, TailSet, HeadTailProperties DEF OwnInv, ListsApart, Free
  <2>3. /\ cmdfreeq' = Tail(cmdfreeq) /\ cmdpendingq' = Enqueued(n, cmd)
        /\ node' = [node EXCEPT ![n] = Filled(cmd, NextSeq, "null", DriverRid)]
    BY <1>2 DEF PrepareNoWait, nodeVars
  <2>4. Free' = Free \ {n} /\ IsInjective(cmdfreeq')
    BY <1>2, <2>1, <2>3, TailSet DEF OwnInv, ListsApart, Free
  <2>5. Pending' = Pending \cup {n} /\ IsInjective(cmdpendingq')
    BY <2>1, <2>2, <2>3, EnqueuedSet DEF OwnInv, ListsApart, Pending, Queued
  <2>6. /\ node'[n].cb = "null" /\ ~node'[n].woken
        /\ \A m \in Nodes \ {n} : node'[m] = node[m]
    BY <2>1, <2>2, <2>3 DEF Filled
  <2> HIDE DEF n
  <2>7. Queued' = Queued \cup {n}
    BY <2>5 DEF Queued, Pending
  <2>8. \A c \in Callers : Holds(c) => held[c] \in Nodes /\ held[c] # n
    BY <2>2 DEF TypeInv, Holding, Holds, OwnInv, Fillers, Waiters, WaitsSync
  <2>9. \A c \in Callers : Holds(c) => node'[held[c]] = node[held[c]]
    BY <2>6, <2>8
  <2>10. Plugged' /\ ListsApart'
    <3>1. Plugged'
      BY DEF OwnInv, Plugged, removeVars
    <3>2. cur_cmd' \notin Pending'
      BY <2>2, <2>5, ListsOfNodes DEF OwnInv, ListsApart, Queued
    <3>3. Free' \cap Queued' = {}
      BY <2>2, <2>4, <2>7 DEF OwnInv, ListsApart
    <3> QED
      BY <2>4, <2>5, <3>1, <3>2, <3>3 DEF ListsApart
  <2>11. Fillers'
    BY <2>4, <2>7, <2>8, <2>9 DEF OwnInv, Fillers, Holds
  <2>12. Waiters'
    BY <2>4, <2>8, <2>9 DEF OwnInv, Waiters, Holds, WaitsSync
  <2>13. HoldersApart'
    BY DEF OwnInv, HoldersApart, Holds
  <2>14. QueuedNodes'
    <3>1. Queued \subseteq Nodes
      BY <2>1 DEF TypeInv, TypeOK, CurrentTypes, Queued, ToSet
    <3> QED
      BY <2>6, <2>7, <3>1 DEF OwnInv, QueuedNodes, WaitsSync
  <2>15. Somewhere'
    BY <2>4, <2>7 DEF OwnInv, Somewhere, Holds
  <2> QED
    BY <2>10, <2>11, <2>12, <2>13, <2>14, <2>15 DEF OwnInv
<1> QED
  BY <1>1, <1>2 DEF PrepareNoWait

(* 3. A node leaves the queue and is completed (lbs_complete_command): the *)
(* one in flight or, when none is, the first that is pending.              *)
LEMMA NodeCompleted ==
    ASSUME TypeInv, OwnInv, NEW n \in Queued, NEW result, Complete(n, result),
           UNCHANGED <<removeVars, pc, held, call>>,
           \/ n = cur_cmd /\ cmdpendingq' = cmdpendingq
           \/ /\ cur_cmd = NoNode /\ cmdpendingq # <<>>
              /\ n = Head(cmdpendingq) /\ cmdpendingq' = Tail(cmdpendingq)
    PROVE  OwnInv'
<1>1. /\ cmdfreeq \in Seq(Nodes) /\ cmdpendingq \in Seq(Nodes)
      /\ node \in [Nodes -> NodeRec] /\ n \in Nodes /\ n \notin Free
  BY ListsOfNodes DEF TypeInv, TypeOK, QueueTypes, OwnInv, ListsApart
<1>2. /\ Pending' = Pending \ {n} /\ IsInjective(cmdpendingq')
  <2>1. CASE n = cur_cmd /\ cmdpendingq' = cmdpendingq
    BY <2>1 DEF OwnInv, ListsApart, Pending
  <2>2. CASE /\ cmdpendingq # <<>>
             /\ n = Head(cmdpendingq) /\ cmdpendingq' = Tail(cmdpendingq)
    BY <1>1, <2>2, TailSet DEF OwnInv, ListsApart, Pending
  <2> QED
    BY <2>1, <2>2
<1>3. cur_cmd' = NoNode
  BY DEF Complete
<1>4. Queued' = Queued \ {n}
  BY <1>1, <1>2, <1>3, ListsOfNodes DEF Queued, Pending
<1>5. \A m \in Nodes \ {n} : node'[m] = node[m]
  BY <1>1 DEF Complete, Done, Cleaned
<1>6. CASE FreedByCaller(n)
  <2>1. Free' = Free /\ IsInjective(cmdfreeq')
    BY <1>6 DEF Complete, Free, OwnInv, ListsApart
  <2>2. PICK d \in Callers : WaitsSync(d) /\ held[d] = n
    BY <1>6 DEF FreedByCaller, OwnInv, QueuedNodes
  <2>3. node'[n].cb = "sync"
    BY <1>1, <1>6 DEF Complete, Done, FreedByCaller, TypeInv, TypeOK, QueueTypes, NodeRec
  <2>4. Plugged' /\ ListsApart'
    BY <1>2, <1>3, <1>4, <2>1, ListsOfNodes
    DEF OwnInv, Plugged, ListsApart, removeVars
  <2>5. Fillers'
    <3>1. \A c \in Callers : pc[c] = "filled" => held[c] \in Nodes \ {n}
      BY DEF TypeInv, Holding, OwnInv, Fillers
    <3> QED
      BY <1>4, <1>5, <2>1, <3>1 DEF OwnInv, Fillers
  <2>6. Waiters'
    <3>1. \A c \in Callers : WaitsSync(c) => held[c] \in Nodes
      BY DEF TypeInv, Holding, WaitsSync
    <3>2. \A c \in Callers : WaitsSync(c) => node'[held[c]].cb = "sync"
      BY <1>5, <2>3, <3>1 DEF OwnInv, Waiters
    <3> QED
      BY <2>1, <3>2 DEF OwnInv, Waiters, WaitsSync
  <2>7. HoldersApart'
    BY DEF OwnInv, HoldersApart, Holds
  <2>8. QueuedNodes'
    BY <1>4, <1>5, ListsOfNodes DEF OwnInv, QueuedNodes, WaitsSync
  <2>9. Somewhere'
    BY <1>4, <2>1, <2>2 DEF OwnInv, Somewhere, Holds, WaitsSync
  <2> QED
    BY <2>4, <2>5, <2>6, <2>7, <2>8, <2>9 DEF OwnInv
<1>7. CASE ~FreedByCaller(n)
  <2>1. Free' = Free \cup {n} /\ IsInjective(cmdfreeq')
    <3>1. cmdfreeq' = Append(cmdfreeq, n)
      BY <1>7 DEF Complete
    <3>2. IsInjective(cmdfreeq) /\ n \notin ToSet(cmdfreeq)
      BY <1>1 DEF OwnInv, ListsApart, Free
    <3> QED
      BY <1>1, <3>1, <3>2, AppendSet DEF Free
  <2>2. \A c \in Callers : Holds(c) => held[c] \in Nodes \ {n}
    <3>1. \A c \in Callers : Holds(c) => held[c] \in Nodes
      BY DEF TypeInv, Holding, Holds
    <3>2. ASSUME NEW c \in Callers, pc[c] = "filled" PROVE held[c] # n
      BY <3>2 DEF OwnInv, Fillers
    <3>3. ASSUME NEW c \in Callers, WaitsSync(c) PROVE held[c] # n
      BY <1>7, <3>3 DEF OwnInv, Waiters, FreedByCaller
    <3> QED
      BY <3>1, <3>2, <3>3 DEF Holds, WaitsSync
  <2>3. \A c \in Callers : Holds(c) => node'[held[c]] = node[held[c]]
    BY <1>5, <2>2
  <2>4. Plugged' /\ ListsApart'
    BY <1>2, <1>3, <1>4, <2>1, ListsOfNodes
    DEF OwnInv, Plugged, ListsApart, removeVars
  <2>5. Fillers'
    BY <1>4, <2>1, <2>2, <2>3 DEF OwnInv, Fillers, Holds
  <2>6. Waiters'
    BY <2>1, <2>2, <2>3 DEF OwnInv, Waiters, WaitsSync, Holds
  <2>7. HoldersApart'
    BY DEF OwnInv, HoldersApart, Holds
  <2>8. QueuedNodes'
    BY <1>4, <1>5, ListsOfNodes DEF OwnInv, QueuedNodes, WaitsSync
  <2>9. Somewhere'
    BY <1>4, <2>1 DEF OwnInv, Somewhere, Holds
  <2> QED
    BY <2>4, <2>5, <2>6, <2>7, <2>8, <2>9 DEF OwnInv
<1> QED
  BY <1>6, <1>7

(* 4. and 5. A queued node goes back to the head of cmdpendingq, or from   *)
(* there to cur_cmd: the set of queued nodes stays, and what OwnInv needs  *)
(* to know of each node does.                                              *)
LEMMA QueuedStay ==
    ASSUME TypeInv, OwnInv, Queued' = Queued, ListsApart',
           UNCHANGED <<cmdfreeq, removeVars, pc, held, call>>,
           \A m \in Nodes : node'[m].cb = node[m].cb /\ node'[m].woken = node[m].woken
    PROVE  OwnInv'
<1>1. Free' = Free
  BY DEF Free
<1>2. Plugged'
  BY DEF OwnInv, Plugged, removeVars
<1>3. Fillers'
  BY <1>1 DEF OwnInv, Fillers, TypeInv, Holding
<1>4. Waiters'
  BY <1>1 DEF OwnInv, Waiters, WaitsSync, TypeInv, Holding
<1>5. HoldersApart'
  BY DEF OwnInv, HoldersApart, Holds
<1>6. QueuedNodes'
  BY ListsOfNodes DEF OwnInv, QueuedNodes, WaitsSync
<1>7. Somewhere'
  BY <1>1 DEF OwnInv, Somewhere, Holds
<1> QED
  BY <1>2, <1>3, <1>4, <1>5, <1>6, <1>7 DEF OwnInv

(* The retry of lbs_thread.                                                *)
LEMMA NodeRequeued == TypeInv /\ OwnInv /\ Requeue => OwnInv'
<1> SUFFICES ASSUME TypeInv, OwnInv, Requeue PROVE OwnInv'
  OBVIOUS
<1>1. cur_cmd \in Nodes /\ cmdpendingq \in Seq(Nodes)
  BY DEF Requeue, TimedOut, TypeInv, TypeOK, CurrentTypes, QueueTypes
<1>2. cmdpendingq' = <<cur_cmd>> \o cmdpendingq /\ cur_cmd' = NoNode
  BY DEF Requeue, Requeued
<1>3. cur_cmd \notin Pending
  BY DEF OwnInv, ListsApart
<1>4. Pending' = Pending \cup {cur_cmd} /\ IsInjective(cmdpendingq')
  BY <1>1, <1>2, <1>3, ConsSet DEF OwnInv, ListsApart, Pending
<1>5. Queued' = Queued
  BY <1>1, <1>2, <1>4, ListsOfNodes DEF Queued, Pending
<1>6. cmdfreeq' = cmdfreeq /\ node' = node
  BY DEF Requeue
<1>7. ListsApart'
  BY <1>1, <1>2, <1>4, <1>5, <1>6, ListsOfNodes DEF OwnInv, ListsApart, Free
<1> QED
  BY <1>5, <1>6, <1>7, QueuedStay DEF Requeue, callerVars

(* lbs_submit_command.                                                     *)
LEMMA NodeSubmitted == TypeInv /\ OwnInv /\ SubmitNext => OwnInv'
<1> SUFFICES ASSUME TypeInv, OwnInv, SubmitNext PROVE OwnInv'
  OBVIOUS
<1> DEFINE n == Head(cmdpendingq)
<1>1. /\ cmdpendingq \in Seq(Nodes) /\ cmdpendingq # <<>> /\ n \in Nodes
      /\ node \in [Nodes -> NodeRec] /\ cur_cmd = NoNode
  BY HeadTailProperties DEF SubmitNext, MayExecute, TypeInv, TypeOK, QueueTypes
<1>2. cmdpendingq' = Tail(cmdpendingq) /\ cur_cmd' = n /\ cmdfreeq' = cmdfreeq
  BY DEF SubmitNext
<1>3. n \in Pending /\ Pending' = Pending \ {n} /\ IsInjective(cmdpendingq')
  BY <1>1, <1>2, TailSet DEF OwnInv, ListsApart, Pending
<1>4. \A m \in Nodes : node'[m].cb = node[m].cb /\ node'[m].woken = node[m].woken
  BY <1>1 DEF SubmitNext, NodeRec
<1> HIDE DEF n
<1>5. Queued' = Queued
  BY <1>1, <1>2, <1>3, ListsOfNodes DEF Queued, Pending
<1>6. ListsApart'
  BY <1>2, <1>3, <1>5 DEF OwnInv, ListsApart, Free
<1> QED
  BY <1>2, <1>4, <1>5, <1>6, QueuedStay DEF SubmitNext, callerVars
-----------------------------------------------------------------------------
(* 6. A caller takes a node (lbs_get_cmd_ctrl_node), or is refused.        *)
LEMMA NodeTaken ==
    ASSUME TypeInv, OwnInv, NEW c \in Callers, NEW api \in Api, NEW cmd \in Command,
           pc[c] = "idle", GetNode(c, api, cmd), UNCHANGED <<cur_cmd, removeVars>>
    PROVE  OwnInv'
<1>1. /\ cmdfreeq \in Seq(Nodes) /\ node \in [Nodes -> NodeRec]
      /\ pc \in [Callers -> {"idle", "filled", "wait", "ret"}]
      /\ held \in [Callers -> Nodes \cup {NoNode}] /\ call \in [Callers -> Call]
  BY DEF TypeInv, TypeOK, QueueTypes, CallerTypes
<1>2. call' = [call EXCEPT ![c] = [api |-> api, cmd |-> cmd]]
  BY DEF GetNode
<1>3. CASE surpriseremoved \/ cmdfreeq = <<>>
  <2>1. UNCHANGED <<nodeVars, pc, held>>
    BY <1>3 DEF GetNode, ReturnEarly
  <2>2. SameHolders
    BY <1>1, <1>2, <2>1 DEF SameHolders, WaitsSync, Holds
  <2> QED
    BY <2>1, <2>2, NothingMoves
<1>4. CASE ~surpriseremoved /\ cmdfreeq # <<>>
  <2> DEFINE n == Head(cmdfreeq)
             new == [Filled(cmd, NextSeq, Callback(api), <<c, calls[c] + 1>>)
                        EXCEPT !.woken = node[n].woken]
  <2>1. n \in Nodes /\ n \in Free /\ n \notin Queued
    BY <1>1, <1>4, TailSet, HeadTailProperties DEF OwnInv, ListsApart, Free
  <2>2. /\ cmdfreeq' = Tail(cmdfreeq) /\ cmdpendingq' = cmdpendingq
        /\ node' = [node EXCEPT ![n] = new]
        /\ held' = [held EXCEPT ![c] = n] /\ pc' = [pc EXCEPT ![c] = "filled"]
    BY <1>4 DEF GetNode
  <2>3. Free' = Free \ {n} /\ IsInjective(cmdfreeq')
    BY <1>1, <1>4, <2>2, TailSet DEF OwnInv, ListsApart, Free
  <2>4. new.cb = Callback(api)
    BY DEF Filled
  <2> HIDE DEF n, new
  <2>5. /\ node'[n].cb = Callback(api)
        /\ \A m \in Nodes \ {n} : node'[m] = node[m]
    BY <1>1, <2>1, <2>2, <2>4
  <2>6. Queued' = Queued /\ Pending' = Pending
    BY <2>2 DEF Queued, Pending
  <2>7. /\ pc'[c] = "filled" /\ held'[c] = n /\ call'[c].api = api
        /\ \A d \in Callers \ {c} : /\ pc'[d] = pc[d] /\ held'[d] = held[d]
                                    /\ call'[d] = call[d]
    BY <1>1, <1>2, <2>2
  <2>8. \A d \in Callers : Holds(d) => held[d] \in Nodes \ {n} /\ d # c
    BY <2>1 DEF TypeInv, Holding, Holds, OwnInv, Fillers, Waiters, WaitsSync
  <2>9. \A d \in Callers : Holds(d)' <=> (Holds(d) \/ d = c)
    BY <2>7 DEF Holds
  <2>10. Plugged' /\ ListsApart'
    BY <2>2, <2>3, <2>6 DEF OwnInv, Plugged, ListsApart, removeVars, Pending
  <2>11. Fillers'
    <3>1. ASSUME NEW d \in Callers, pc'[d] = "filled", d # c
          PROVE  /\ held'[d] \notin (Free \cup Queued)'
                 /\ node'[held'[d]].cb = Callback(call'[d].api)
      <4>1. pc[d] = "filled" /\ held'[d] = held[d] /\ call'[d] = call[d]
        BY <2>7, <3>1
      <4>2. node'[held[d]] = node[held[d]]
        BY <2>5, <2>8, <4>1 DEF Holds
      <4> QED
        BY <2>3, <2>6, <4>1, <4>2 DEF OwnInv, Fillers
    <3>2. /\ held'[c] \notin (Free \cup Queued)'
          /\ node'[held'[c]].cb = Callback(call'[c].api)
      BY <2>1, <2>3, <2>5, <2>6, <2>7
    <3>3. \A a : Callback(a)' = Callback(a)
      BY DEF Callback
    <3> QED
      BY <3>1, <3>2, <3>3 DEF Fillers
  <2>12. Waiters'
    <3>1. ASSUME NEW d \in Callers, WaitsSync(d)'
          PROVE  held'[d] \notin Free' /\ node'[held'[d]].cb = "sync"
      <4>1. WaitsSync(d) /\ held'[d] = held[d]
        BY <2>7, <3>1 DEF WaitsSync
      <4>2. node'[held[d]] = node[held[d]]
        BY <2>5, <2>8, <4>1 DEF Holds, WaitsSync
      <4> QED
        BY <2>3, <4>1, <4>2 DEF OwnInv, Waiters
    <3> QED
      BY <3>1 DEF Waiters
  <2>13. HoldersApart'
    BY <2>7, <2>8, <2>9 DEF OwnInv, HoldersApart
  <2>14. QueuedNodes'
    <3>1. \A m \in Queued : node'[m] = node[m]
      BY <2>1, <2>5, ListsOfNodes
    <3>2. \A d \in Callers : WaitsSync(d) => WaitsSync(d)' /\ held'[d] = held[d]
      BY <2>7 DEF WaitsSync
    <3> QED
      BY <2>6, <3>1, <3>2 DEF OwnInv, QueuedNodes
  <2>15. Somewhere'
    BY <2>3, <2>6, <2>7, <2>8, <2>9 DEF OwnInv, Somewhere
  <2> QED
    BY <2>10, <2>11, <2>12, <2>13, <2>14, <2>15 DEF OwnInv
<1> QED
  BY <1>3, <1>4

(* 7. The caller queues its node (lbs_queue_cmd).                          *)
LEMMA NodeQueued ==
    ASSUME TypeInv, OwnInv, NEW c \in Callers, Queue(c)
    PROVE  OwnInv'
<1> DEFINE n == held[c]
           keeps == call[c].api \in {"sync", "wait"}
<1>1. /\ cmdfreeq \in Seq(Nodes) /\ cmdpendingq \in Seq(Nodes)
      /\ node \in [Nodes -> NodeRec] /\ n \in Nodes
      /\ pc \in [Callers -> {"idle", "filled", "wait", "ret"}]
      /\ held \in [Callers -> Nodes \cup {NoNode}]
  BY DEF TypeInv, TypeOK, QueueTypes, CallerTypes, Holding, Queue
<1>2. UNCHANGED <<cmdfreeq, cur_cmd, removeVars, call>>
  BY DEF Queue, elsewhere
<1>3. n \notin Free \cup Queued /\ node[n].cb = Callback(call[c].api)
  BY DEF Queue, OwnInv, Fillers
<1>4. /\ node'[n].cb = node[n].cb /\ ~node'[n].woken
      /\ \A m \in Nodes \ {n} : node'[m] = node[m]
  BY <1>1 DEF Queue, TypeInv, TypeOK, QueueTypes, NodeRec
<1>5. cmdpendingq' = Enqueued(n, call[c].cmd)
  BY DEF Queue
<1>6. Pending' = Pending \cup {n} /\ IsInjective(cmdpendingq')
  BY <1>1, <1>3, <1>5, EnqueuedSet DEF OwnInv, ListsApart, Pending, Queued
<1>7. Queued' = Queued \cup {n} /\ Free' = Free
  BY <1>2, <1>6 DEF Queued, Pending, Free
<1>8. /\ pc[c] = "filled" /\ pc'[c] # "filled"
      /\ pc'[c] = "wait" <=> keeps
      /\ keeps => held'[c] = n
      /\ \A d \in Callers \ {c} : pc'[d] = pc[d] /\ held'[d] = held[d]
  BY <1>1 DEF Queue
<1> HIDE DEF n, keeps
<1>9. \A d \in Callers \ {c} : Holds(d) => held[d] \in Nodes \ {n}
  BY <1>8 DEF TypeInv, Holding, OwnInv, HoldersApart, Holds, n
<1>10. WaitsSync(c)' <=> call[c].api = "sync"
  BY <1>2, <1>8 DEF WaitsSync, keeps
<1>11. \A d \in Callers \ {c} : /\ Holds(d)' <=> Holds(d)
                                /\ WaitsSync(d)' <=> WaitsSync(d)
  BY <1>2, <1>8 DEF Holds, WaitsSync
<1>12. Holds(c) /\ ~WaitsSync(c) /\ (Holds(c)' <=> call[c].api = "sync")
  BY <1>2, <1>8 DEF Holds, WaitsSync, keeps
<1>13. call[c].api = "sync" <=> node[n].cb = "sync"
  BY <1>3 DEF Callback
<1>14. Plugged' /\ ListsApart'
  <2>1. Plugged'
    BY <1>2 DEF OwnInv, Plugged, removeVars
  <2>2. cur_cmd' \notin Pending'
    BY <1>1, <1>2, <1>3, <1>6, ListsOfNodes DEF OwnInv, ListsApart, Queued
  <2>3. Free' \cap Queued' = {}
    BY <1>3, <1>7 DEF OwnInv, ListsApart
  <2> QED
    BY <1>2, <1>6, <2>1, <2>2, <2>3 DEF OwnInv, ListsApart
<1>15. Fillers'
  <2>1. ASSUME NEW d \in Callers, pc'[d] = "filled"
        PROVE  /\ held'[d] \notin (Free \cup Queued)'
               /\ node'[held'[d]].cb = Callback(call'[d].api)
    <3>1. d # c /\ pc[d] = "filled" /\ held'[d] = held[d] /\ held[d] \in Nodes \ {n}
      BY <1>8, <1>9, <2>1 DEF Holds
    <3> QED
      BY <1>2, <1>4, <1>7, <3>1 DEF OwnInv, Fillers
  <2>2. \A a : Callback(a)' = Callback(a)
    BY DEF Callback
  <2> QED
    BY <2>1, <2>2 DEF Fillers
<1>16. Waiters'
  <2>1. ASSUME NEW d \in Callers, WaitsSync(d)'
        PROVE  held'[d] \notin Free' /\ node'[held'[d]].cb = "sync"
    <3>1. CASE d = c
      BY <1>3, <1>4, <1>7, <1>8, <1>10, <1>13, <2>1, <3>1 DEF keeps
    <3>2. CASE d # c
      <4>1. WaitsSync(d) /\ held'[d] = held[d] /\ held[d] \in Nodes \ {n}
        BY <1>8, <1>9, <1>11, <2>1, <3>2 DEF Holds, WaitsSync
      <4> QED
        BY <1>4, <1>7, <4>1 DEF OwnInv, Waiters
    <3> QED
      BY <3>1, <3>2
  <2> QED
    BY <2>1 DEF Waiters
<1>17. HoldersApart'
  <2>1. \A d \in Callers : Holds(d)' => Holds(d) /\ held'[d] = held[d]
    BY <1>8, <1>11, <1>12 DEF keeps, n
  <2> QED
    BY <2>1 DEF OwnInv, HoldersApart
<1>18. QueuedNodes'
  <2>1. ASSUME NEW m \in Queued'
        PROVE  /\ ~node'[m].woken
               /\ node'[m].cb = "sync" => \E d \in Callers : WaitsSync(d)' /\ held'[d] = m
    <3>1. CASE m = n
      BY <1>4, <1>8, <1>10, <1>13, <3>1 DEF keeps
    <3>2. CASE m # n
      <4>1. m \in Queued /\ node'[m] = node[m]
        BY <1>4, <1>7, <2>1, <3>2, ListsOfNodes
      <4>2. \A d \in Callers : WaitsSync(d) => WaitsSync(d)' /\ held'[d] = held[d]
        BY <1>8, <1>11, <1>12
      <4> QED
        BY <4>1, <4>2 DEF OwnInv, QueuedNodes
    <3> QED
      BY <3>1, <3>2
  <2> QED
    BY <2>1 DEF QueuedNodes
<1>19. Somewhere'
  <2>1. ASSUME NEW m \in Nodes
        PROVE  m \in (Free \cup Queued)' \/ \E d \in Callers : Holds(d)' /\ held'[d] = m
    <3>1. CASE m \in Free \cup Queued \cup {n}
      BY <1>7, <3>1
    <3>2. CASE \E d \in Callers : Holds(d) /\ held[d] = m
      BY <1>7, <1>8, <1>11, <3>2 DEF n
    <3> QED
      BY <3>1, <3>2 DEF OwnInv, Somewhere
  <2> QED
    BY <2>1 DEF Somewhere
<1> QED
  BY <1>14, <1>15, <1>16, <1>17, <1>18, <1>19 DEF OwnInv

(* 8. __lbs_cmd frees the node it waited for.                              *)
LEMMA NodeReturned ==
    ASSUME TypeInv, OwnInv, Signals = {}, NEW c \in Callers, ReturnSync(c)
    PROVE  OwnInv'
<1> DEFINE n == held[c]
<1>1. /\ cmdfreeq \in Seq(Nodes) /\ node \in [Nodes -> NodeRec] /\ n \in Nodes
      /\ pc \in [Callers -> {"idle", "filled", "wait", "ret"}]
      /\ held \in [Callers -> Nodes \cup {NoNode}]
  BY DEF TypeInv, TypeOK, QueueTypes, CallerTypes, Holding, ReturnSync
<1>2. UNCHANGED <<cmdpendingq, cur_cmd, removeVars, call>>
  BY DEF ReturnSync, elsewhere
<1>3. n \notin Free /\ n \notin Queued
  BY DEF ReturnSync, OwnInv, Waiters, QueuedNodes, WaitsSync
<1>4. \A m \in Nodes \ {n} : node'[m] = node[m]
  BY <1>1 DEF ReturnSync, Cleaned
<1>5. Free' = Free \cup {n} /\ IsInjective(cmdfreeq')
  <2>1. cmdfreeq' = Append(cmdfreeq, n)
    BY DEF ReturnSync
  <2> QED
    BY <1>1, <1>3, <2>1, AppendSet DEF OwnInv, ListsApart, Free
<1>6. Queued' = Queued /\ Pending' = Pending
  BY <1>2 DEF Queued, Pending
<1>7. /\ WaitsSync(c) /\ pc'[c] = "idle"
      /\ \A d \in Callers \ {c} : pc'[d] = pc[d] /\ held'[d] = held[d]
  BY <1>1 DEF ReturnSync, WaitsSync
<1> HIDE DEF n
<1>8. \A d \in Callers \ {c} : Holds(d) => held[d] \in Nodes \ {n}
  BY <1>7 DEF TypeInv, Holding, OwnInv, HoldersApart, Holds, WaitsSync, n
<1>9. \A d \in Callers : /\ Holds(d)' <=> Holds(d) /\ d # c
                         /\ WaitsSync(d)' <=> WaitsSync(d) /\ d # c
  BY <1>2, <1>7 DEF Holds, WaitsSync
<1>10. Plugged' /\ ListsApart'
  BY <1>1, <1>2, <1>3, <1>5, <1>6 DEF OwnInv, Plugged, ListsApart, removeVars
<1>11. Fillers'
  <2>1. ASSUME NEW d \in Callers, pc'[d] = "filled"
        PROVE  /\ held'[d] \notin (Free \cup Queued)'
               /\ node'[held'[d]].cb = Callback(call'[d].api)
    <3>1. pc[d] = "filled" /\ held'[d] = held[d] /\ held[d] \in Nodes \ {n}
      BY <1>7, <1>8, <2>1 DEF Holds
    <3> QED
      BY <1>2, <1>4, <1>5, <1>6, <3>1 DEF OwnInv, Fillers
  <2>2. \A a : Callback(a)' = Callback(a)
    BY DEF Callback
  <2> QED
    BY <2>1, <2>2 DEF Fillers
<1>12. Waiters'
  <2>1. ASSUME NEW d \in Callers, WaitsSync(d)'
        PROVE  held'[d] \notin Free' /\ node'[held'[d]].cb = "sync"
    <3>1. WaitsSync(d) /\ held'[d] = held[d] /\ held[d] \in Nodes \ {n}
      BY <1>7, <1>8, <1>9, <2>1 DEF Holds, WaitsSync
    <3> QED
      BY <1>4, <1>5, <3>1 DEF OwnInv, Waiters
  <2> QED
    BY <2>1 DEF Waiters
<1>13. HoldersApart'
  BY <1>7, <1>9 DEF OwnInv, HoldersApart
<1>14. QueuedNodes'
  <2>1. ASSUME NEW m \in Queued'
        PROVE  /\ ~node'[m].woken
               /\ node'[m].cb = "sync" => \E d \in Callers : WaitsSync(d)' /\ held'[d] = m
    <3>1. m \in Queued /\ m # n /\ node'[m] = node[m]
      BY <1>3, <1>4, <1>6, <2>1, ListsOfNodes
    <3>2. \A d \in Callers : WaitsSync(d) /\ held[d] = m => WaitsSync(d)' /\ held'[d] = m
      BY <1>7, <1>9, <3>1 DEF n
    <3> QED
      BY <3>1, <3>2 DEF OwnInv, QueuedNodes
  <2> QED
    BY <2>1 DEF QueuedNodes
<1>15. Somewhere'
  BY <1>5, <1>6, <1>7, <1>9 DEF OwnInv, Somewhere, n
<1> QED
  BY <1>10, <1>11, <1>12, <1>13, <1>14, <1>15 DEF OwnInv

(* The steps of a caller.                                                  *)
LEMMA CallerOwns ==
    ASSUME TypeInv, OwnInv, Signals = {}, NEW c \in Callers, CallerStep(c)
    PROVE  OwnInv'
<1>1. CASE Issue(c)
  <2>1. PICK k \in Program[c][calls[c] + 1] : k.api \in Api /\ GetNode(c, k.api, k.cmd)
    BY <1>1 DEF Issue
  <2>2. k.cmd \in Command
    <3>1. Program[c] \in Seq(SUBSET CallOrPs) /\ calls[c] + 1 \in 1..Len(Program[c])
      BY <1>1, ProgramAssumption, LenProperties
      DEF Issue, TypeInv, TypeOK, CallerTypes
    <3>2. k \in CallOrPs
      BY <3>1, ElementOfSeq
    <3> QED
      BY <3>2 DEF CallOrPs, Call, PsCommand, Command
  <2> QED
    BY <1>1, <2>1, <2>2, NodeTaken DEF Issue, elsewhere
<1>2. CASE SetPower(c)
  <2>1. CASE \E cmd \in Command : GetNode(c, "wait", cmd)
    BY <1>2, <2>1, NodeTaken DEF SetPower, elsewhere, Api
  <2>2. CASE ReturnEarly(c, "ok") /\ UNCHANGED call
    BY <1>2, <2>2, Unheld, NothingMoves DEF SetPower, elsewhere, ReturnEarly
  <2>3. "ENTER_PS" \in Command /\ "EXIT_PS" \in Command
    BY DEF Command, PsCommand
  <2> QED
    BY <1>2, <2>1, <2>2, <2>3 DEF SetPower, lbs_set_power_on, lbs_set_power_off
<1>3. CASE Queue(c)
  BY <1>3, NodeQueued
<1>4. CASE ReturnSync(c)
  BY <1>4, NodeReturned
<1>5. CASE EndWait(c) \/ ReturnLegacy(c)
  <2>1. UNCHANGED <<nodeVars, cur_cmd, removeVars>>
    BY <1>5 DEF EndWait, ReturnLegacy, elsewhere
  <2>2. SameHolders
    BY <1>5 DEF EndWait, ReturnLegacy, SameHolders, Holds, WaitsSync,
                TypeInv, TypeOK, CallerTypes
  <2> QED
    BY <2>1, <2>2, NothingMoves
<1> QED
  BY <1>1, <1>2, <1>3, <1>4, <1>5 DEF CallerStep

(* The steps of the main thread that leave the nodes alone.                *)
LEMMA MainLeaves ==
    ASSUME MainCheck \/ MainWakeUp \/ MainExit \/ MainRun \/ DropResponse
           \/ GoodResponse \/ MainConsume \/ NoTimeout \/ ClearTimeout
           \/ PsSleepEvent \/ HostAwakeEvent \/ OtherEvent \/ NoMoreEvents
           \/ MainPreSleep \/ MainConfirmDelayed \/ MainConfirm
           \/ MainConfirmSent \/ NothingToExecute \/ MainTx
    PROVE  UNCHANGED <<nodeVars, cur_cmd, removeVars, pc, held, call>>
<1> USE DEF curVars, callerVars
<1>1. CASE MainCheck \/ MainWakeUp \/ MainExit \/ MainRun
  BY <1>1 DEF MainCheck, MainWakeUp, MainExit, MainRun
<1>2. CASE DropResponse \/ GoodResponse \/ MainConsume
  BY <1>2 DEF DropResponse, GoodResponse, MainConsume
<1>3. CASE NoTimeout \/ ClearTimeout
  BY <1>3 DEF NoTimeout, ClearTimeout
<1>4. CASE PsSleepEvent \/ HostAwakeEvent \/ OtherEvent \/ NoMoreEvents
  BY <1>4 DEF PsSleepEvent, HostAwakeEvent, OtherEvent, NoMoreEvents, NextEvent
<1>5. CASE MainPreSleep \/ MainConfirmDelayed \/ MainConfirm \/ MainConfirmSent
  BY <1>5 DEF MainPreSleep, MainConfirmDelayed, MainConfirm, MainConfirmSent
<1>6. CASE NothingToExecute \/ MainTx
  BY <1>6 DEF NothingToExecute, MainTx
<1> QED
  BY <1>1, <1>2, <1>3, <1>4, <1>5, <1>6

(* The timer, the card and the transmit path know nothing of nodes.        *)
LEMMA OthersLeave ==
    ASSUME TimerExpires \/ TimerHandler \/ CardStep \/ TxStep
    PROVE  UNCHANGED <<nodeVars, cur_cmd, removeVars, pc, held, call>>
<1> USE DEF curVars, callerVars
<1>1. CASE TimerExpires \/ TimerHandler
  BY <1>1 DEF TimerExpires, TimerHandler
<1>2. CASE CardStep
  BY <1>2 DEF CardStep, WritePacket, DropPacket, DownloadInterrupt,
              ResponseInterrupt, LoseResponse, EventInterrupt, hostElsewhere
<1>3. CASE TxStep
  BY <1>3 DEF TxStep, XmitDropped, XmitBusy, XmitBuild, XmitLineUp, txElsewhere
<1> QED
  BY <1>1, <1>2, <1>3

(* The steps of the main thread that may queue a command of its own.       *)
LEMMA MainPrepares ==
    ASSUME TypeInv, OwnInv,
           MainRespWakeup \/ MainCallback \/ DeauthEvent \/ PsAwakeEvent
           \/ WakeFirmwareFirst \/ EnterPowerSave
    PROVE  OwnInv'
<1>1. UNCHANGED <<cur_cmd, removeVars, pc, held, call>>
  BY DEF MainRespWakeup, MainCallback, DeauthEvent, PsAwakeEvent, WakeFirmwareFirst,
         EnterPowerSave, NextEvent, callerVars
<1>2. UNCHANGED nodeVars \/ PrepareNoWait("EXIT_PS") \/ PrepareNoWait("ENTER_PS")
  <2>1. CASE MainRespWakeup \/ WakeFirmwareFirst \/ EnterPowerSave
    BY <2>1 DEF MainRespWakeup, WakeFirmwareFirst, EnterPowerSave
  <2>2. CASE MainCallback
    BY <2>2 DEF MainCallback, Disconnected, Associated
  <2>3. CASE DeauthEvent \/ PsAwakeEvent
    BY <2>3 DEF DeauthEvent, PsAwakeEvent, Disconnected
  <2> QED
    BY <2>1, <2>2, <2>3
<1>3. "ENTER_PS" \in Command /\ "EXIT_PS" \in Command
  BY DEF Command, PsCommand
<1> QED
  BY <1>1, <1>2, <1>3, Unheld, NothingMoves, NodePrepared

(* The steps of the main thread that complete a command.                   *)
LEMMA MainCompletes ==
    ASSUME TypeInv, OwnInv,
           PsOrErrorResponse \/ MainFinish \/ GiveUp \/ IgnoreEnterPs
    PROVE  OwnInv'
<1>1. UNCHANGED <<removeVars, pc, held, call>>
  BY DEF PsOrErrorResponse, MainFinish, GiveUp, IgnoreEnterPs
<1>2. CASE cur_cmd \in Nodes /\ cmdpendingq' = cmdpendingq
           /\ \E result : Complete(cur_cmd, result)
  <2>1. cur_cmd \in Queued
    BY <1>2, ListsOfNodes DEF Queued
  <2> QED
    BY <1>1, <1>2, <2>1, NodeCompleted
<1>3. CASE PsOrErrorResponse
  <2>1. cur_cmd \in Nodes
    BY <1>3 DEF PsOrErrorResponse, AnswerArrived, Unexpected, TypeInv, TypeOK, CurrentTypes
  <2>2. CASE UNCHANGED <<nodeVars, cur_cmd>>
    BY <1>1, <2>2, Unheld, NothingMoves
  <2> QED
    BY <1>2, <1>3, <2>1, <2>2 DEF PsOrErrorResponse
<1>4. CASE MainFinish
  BY <1>2, <1>4 DEF MainFinish, TypeInv, Serving
<1>5. CASE GiveUp
  BY <1>2, <1>5 DEF GiveUp, TimedOut, TypeInv, TypeOK, CurrentTypes
<1>6. CASE IgnoreEnterPs
  <2>1. /\ cur_cmd = NoNode /\ cmdpendingq # <<>> /\ cmdpendingq' = Tail(cmdpendingq)
        /\ Complete(Head(cmdpendingq), "ok")
    BY <1>6 DEF IgnoreEnterPs, MayExecute
  <2>2. Head(cmdpendingq) \in Queued
    BY <2>1, TailSet DEF TypeInv, TypeOK, QueueTypes, OwnInv, ListsApart, Queued
  <2> QED
    BY <1>1, <2>1, <2>2, NodeCompleted
<1> QED
  BY <1>3, <1>4, <1>5, <1>6

(* While the card stays, the removal does not start.                       *)
LEMMA NoRemoval == OwnInv /\ ~Hotplug => ~RemoveStep
  BY DEF OwnInv, Plugged, RemoveStep, CardRemoved, FlushPending, CancelWork,
         StopThread, FreeAdapter

(* Every step of the driver.                                               *)
LEMMA StepOwns ==
    ASSUME Signals = {}, ~Hotplug, TypeInv, OwnInv, [Next]_vars
    PROVE  OwnInv'
<1>1. CASE UNCHANGED vars
  BY <1>1, Unheld, NothingMoves DEF vars, curVars, callerVars
<1>2. CASE MainStep
  <2>1. CASE UNCHANGED <<nodeVars, cur_cmd, removeVars, pc, held, call>>
    BY <2>1, Unheld, NothingMoves
  <2> QED
    BY <1>2, <2>1, MainLeaves, MainPrepares, MainCompletes, NodeRequeued, NodeSubmitted
    DEF MainStep
<1>3. CASE TimerExpires \/ TimerHandler \/ CardStep \/ TxStep
  BY <1>3, OthersLeave, Unheld, NothingMoves
<1>4. CASE Running
  BY <1>2, <1>3, <1>4, CallerOwns, NoRemoval DEF Running
<1> QED
  BY <1>1, <1>4 DEF Next, AllReturned, Halted

(* lbs_allocate_cmd_buffer puts every node on cmdfreeq.                    *)
LEMMA InitOwns == Init => OwnInv
<1> SUFFICES ASSUME Init PROVE OwnInv
  OBVIOUS
<1> USE DEF Init, PrivInit
<1>1. Free = Nodes /\ Pending = {} /\ Queued = {}
  BY NodesAssumption, EmptySeq DEF Free, Pending, Queued, ToSet
<1>2. IsInjective(cmdfreeq) /\ IsInjective(cmdpendingq)
  BY NodesAssumption, EmptySeq DEF IsInjective
<1>3. \A c \in Callers : pc[c] = "idle"
  OBVIOUS
<1>4. Plugged /\ ListsApart
  BY <1>1, <1>2 DEF Plugged, ListsApart
<1>5. Fillers /\ Waiters /\ HoldersApart
  BY <1>3 DEF Fillers, Waiters, WaitsSync, HoldersApart, Holds
<1>6. QueuedNodes /\ Somewhere
  BY <1>1 DEF QueuedNodes, Somewhere
<1> QED
  BY <1>4, <1>5, <1>6 DEF OwnInv
-----------------------------------------------------------------------------
(* NodeOwnership for any number of buffers, callers and calls: as long as  *)
(* no signal interrupts a wait and the card stays, lbs_get_cmd_ctrl_node,  *)
(* lbs_queue_cmd, lbs_submit_command, lbs_complete_command and __lbs_cmd   *)
(* never share or lose a command buffer, whatever is retried or lost.      *)
THEOREM OwnershipKept ==
    ASSUME Signals = {}, ~Hotplug
    PROVE  Spec => []NodeOwnership
<1>1. OwnInv => NodeOwnership
  BY DEF OwnInv, ListsApart, Fillers, Waiters, HoldersApart, Somewhere, Free,
         Pending, WaitsSync, Holds, NodeOwnership
<1>2. TypeInv /\ OwnInv /\ [Next]_vars => OwnInv'
  BY StepOwns
<1> QED
  BY InitTypes, StepTypes, InitOwns, <1>1, <1>2, PTL DEF Spec
=============================================================================
