------------------------- MODULE NodeWatcher_proofs -------------------------
(***************************************************************************)
(* The record of a node alternates, and what complete_workflow writes of   *)
(* it while the watcher goes on is a part of that record from its start:   *)
(* for every number of nodes and of changes, and however the two threads   *)
(* interleave.                                                             *)
(***************************************************************************)
EXTENDS NodeWatcher, TLAPS

Ready == {"True", "False"}
Condition == {"bare"} \cup Ready
Told == [status : Condition, stamped : BOOLEAN]
Record == [conditions : Seq(Ready), ready : Ready, deleted : BOOLEAN]

-----------------------------------------------------------------------------
(* Sequences that get one more element.                                    *)

LEMMA AppendFacts ==
    ASSUME NEW S, NEW t \in Seq(S), NEW x \in S
    PROVE  /\ Append(t, x) \in Seq(S) /\ Len(Append(t, x)) = Len(t) + 1
           /\ \A i \in 1 .. Len(t) : Append(t, x)[i] = t[i]
           /\ Append(t, x)[Len(t) + 1] = x
           /\ ToSet(Append(t, x)) = ToSet(t) \cup {x}
  <1>1. /\ Append(t, x) \in Seq(S) /\ Len(Append(t, x)) = Len(t) + 1 /\ Len(t) \in Nat
        /\ \A i \in 1 .. Len(t) : Append(t, x)[i] = t[i]
        /\ Append(t, x)[Len(t) + 1] = x
        /\ DOMAIN t = 1 .. Len(t) /\ DOMAIN Append(t, x) = 1 .. (Len(t) + 1)
    OBVIOUS
  <1>2. 1 .. (Len(t) + 1) = 1 .. Len(t) \cup {Len(t) + 1}
    BY <1>1
  <1> QED
    BY <1>1, <1>2 DEF ToSet

LEMMA PrefixFacts ==
    ASSUME NEW S, NEW s \in Seq(S), NEW t \in Seq(S), NEW x \in S
    PROVE  /\ IsPrefix(t, t)
           /\ IsPrefix(s, t) => IsPrefix(s, Append(t, x))
  <1>1. Len(s) \in Nat /\ Len(t) \in Nat /\ Len(Append(t, x)) = Len(t) + 1
    OBVIOUS
  <1>2. ASSUME Len(s) <= Len(t) PROVE SubSeq(Append(t, x), 1, Len(s)) = SubSeq(t, 1, Len(s))
    BY <1>1, <1>2
  <1> QED
    BY <1>1, <1>2 DEF IsPrefix

-----------------------------------------------------------------------------
(* The watcher's thread.                                                   *)

(* The newest condition of a node is its readiness, but for the moment     *)
(* between the two writes.                                                 *)
Newest(n) ==
    LET r == nodes[n] IN
    r.conditions[Len(r.conditions)] =
        IF wpc = "set" /\ event.name = n THEN event.status ELSE r.ready

ListedOK ==
    /\ node \in [Nodes -> {"gone"} \cup Condition]
    /\ listed \in [Nodes -> {"gone"} \cup Condition]
    /\ stream \in [Nodes -> Seq(Told)]

RecordsOK ==
    /\ nodes \in [DOMAIN nodes -> Record]
    /\ \A n \in DOMAIN nodes :
          /\ nodes[n].conditions # << >>
          /\ Newest(n)
          /\ nodes[n].ready \in ToSet(nodes[n].conditions)

\* What parse_node_event holds between two writes.
InHandOK ==
    /\ wpc \in {"mark", "append", "set"} =>
          event.name \in DOMAIN nodes /\ event.status \in Condition
    /\ wpc \in {"append", "set"} => event.status \in Ready
    /\ wpc = "append" => event.status # nodes[event.name].ready

\* The listing is recorded once for each node, before anything else is.
ListingOK ==
    /\ wpc = "list" => DOMAIN nodes = {}
    /\ wpc = "record" => \A n \in Nodes : listed[n] # "gone" => n \notin DOMAIN nodes

WatcherInv == ListedOK /\ RecordsOK /\ InHandOK /\ ListingOK /\ Alternates

\* What the main thread has read is still there.
Holds(n, conditions, deleted) ==
    /\ n \in DOMAIN nodes
    /\ conditions \in Seq(Ready)
    /\ IsPrefix(conditions, nodes[n].conditions)
    /\ deleted => nodes[n].deleted

ReportInv ==
    /\ todo \subseteq DOMAIN nodes
    /\ mpc = "visit" => Holds(visit.name, visit.conditions, visit.deleted)
    /\ \A n \in DOMAIN report :
          /\ Holds(n, report[n].conditions, report[n].deleted)
          /\ report[n].ready \in ToSet(nodes[n].conditions)

(* A new record has one condition, its readiness.                          *)
LEMMA NewRecord ==
    ASSUME NEW st \in Ready
    PROVE  /\ NewNodeEvent(st) \in Record
           /\ NewNodeEvent(st).conditions = <<st>> /\ NewNodeEvent(st).ready = st
           /\ NewNodeEvent(st).conditions # << >>
           /\ st \in ToSet(<<st>>) /\ Len(<<st>>) = 1 /\ <<st>>[1] = st
  BY DEF NewNodeEvent, Record, ToSet

(* The records stay as they are, and the thread is between two events.     *)
LEMMA RecordsFrame ==
    ASSUME RecordsOK, Alternates, nodes' = nodes,
           wpc # "set" \/ UNCHANGED <<wpc, event>>, wpc' = "set" => UNCHANGED <<wpc, event>>
    PROVE  RecordsOK' /\ Alternates'
  BY DEF RecordsOK, Newest, Alternates

(* A node that is not in the dictionary is added to it.                    *)
LEMMA RecordsAdd ==
    ASSUME RecordsOK, Alternates, NEW n, n \notin DOMAIN nodes, NEW st \in Ready,
           nodes' = With(nodes, n, NewNodeEvent(st)), wpc # "set", wpc' # "set"
    PROVE  RecordsOK' /\ Alternates'
  <1>1. /\ DOMAIN nodes' = DOMAIN nodes \cup {n}
        /\ nodes'[n] = NewNodeEvent(st)
        /\ \A k \in DOMAIN nodes : nodes'[k] = nodes[k]
        /\ nodes' \in [DOMAIN nodes' -> Record]
    <2>1. /\ DOMAIN nodes' = DOMAIN nodes \cup {n}
          /\ nodes'[n] = NewNodeEvent(st)
          /\ \A k \in DOMAIN nodes : nodes'[k] = nodes[k]
      BY DEF With
    <2>2. nodes \in [DOMAIN nodes -> Record] /\ NewNodeEvent(st) \in Record
      BY NewRecord DEF RecordsOK
    <2>3. nodes' = [k \in DOMAIN nodes \cup {n} |->
                       IF k = n THEN NewNodeEvent(st) ELSE nodes[k]]
      BY DEF With
    <2>4. nodes' \in [DOMAIN nodes \cup {n} -> Record]
      BY <2>2, <2>3
    <2> QED
      BY <2>1, <2>4
  <1>2. ASSUME NEW k \in DOMAIN nodes'
        PROVE  /\ nodes'[k].conditions # << >> /\ Newest(k)'
               /\ nodes'[k].ready \in ToSet(nodes'[k].conditions)
               /\ \A i \in 1 .. Len(nodes'[k].conditions) - 1 :
                     nodes'[k].conditions[i] # nodes'[k].conditions[i + 1]
    <2>1. CASE k \in DOMAIN nodes
      BY <1>1, <2>1 DEF RecordsOK, Newest, Alternates
    <2>2. CASE k = n
      <3>1. nodes'[k].conditions = <<st>> /\ nodes'[k].ready = st /\ Len(<<st>>) = 1
        BY <1>1, <2>2, NewRecord
      <3>2. nodes'[k].conditions # << >> /\ Newest(k)'
            /\ nodes'[k].ready \in ToSet(nodes'[k].conditions)
        BY <3>1, NewRecord DEF Newest
      <3>3. 1 .. Len(nodes'[k].conditions) - 1 = {}
        BY <3>1
      <3> QED
        BY <3>2, <3>3
    <2> QED
      BY <1>1, <1>2, <2>1, <2>2
  <1> QED
    BY <1>1, <1>2 DEF RecordsOK, Alternates

(* The first of the two writes: a condition that differs from the last.    *)
LEMMA RecordsAppend ==
    ASSUME WatcherInv, AppendCondition
    PROVE  RecordsOK' /\ Alternates'
  <1> DEFINE n == event.name
             st == event.status
             t == nodes[n].conditions
  <1>1. /\ wpc = "append" /\ wpc' = "set" /\ event' = event
        /\ n \in DOMAIN nodes /\ st \in Ready /\ st # nodes[n].ready
        /\ nodes \in [DOMAIN nodes -> Record] /\ t \in Seq(Ready) /\ t # << >>
        /\ t[Len(t)] = nodes[n].ready
    BY DEF WatcherInv, InHandOK, RecordsOK, Newest, AppendCondition, Record
  <1>2. /\ Append(t, st) \in Seq(Ready) /\ Len(Append(t, st)) = Len(t) + 1
        /\ \A i \in 1 .. Len(t) : Append(t, st)[i] = t[i]
        /\ Append(t, st)[Len(t) + 1] = st
        /\ ToSet(Append(t, st)) = ToSet(t) \cup {st}
        /\ Len(t) \in Nat /\ Len(t) >= 1 /\ Append(t, st) # << >>
    <2>1. Len(t) \in Nat /\ Len(t) >= 1 /\ Append(t, st) # << >>
      BY <1>1
    <2> QED
      BY <1>1, <2>1, AppendFacts
  <1>3. /\ DOMAIN nodes' = DOMAIN nodes
        /\ nodes' \in [DOMAIN nodes' -> Record]
        /\ nodes'[n].conditions = Append(t, st) /\ nodes'[n].ready = nodes[n].ready
        /\ \A k \in DOMAIN nodes : k # n => nodes'[k] = nodes[k]
    <2>1. nodes' = [nodes EXCEPT ![n].conditions = Append(t, st)]
      BY DEF AppendCondition
    <2>2. [nodes[n] EXCEPT !.conditions = Append(t, st)] \in Record
      BY <1>1, <1>2 DEF Record
    <2>3. /\ DOMAIN nodes' = DOMAIN nodes
          /\ nodes'[n] = [nodes[n] EXCEPT !.conditions = Append(t, st)]
          /\ \A k \in DOMAIN nodes : k # n => nodes'[k] = nodes[k]
          /\ nodes' \in [DOMAIN nodes -> Record]
      BY <1>1, <2>1, <2>2
    <2> QED
      BY <1>1, <2>3 DEF Record
  <1>4. ASSUME NEW i \in 1 .. Len(Append(t, st)) - 1
        PROVE  Append(t, st)[i] # Append(t, st)[i + 1]
    <2>1. i \in 1 .. Len(t)
      BY <1>2
    <2>2. CASE i = Len(t)
      BY <1>1, <1>2, <2>2
    <2>3. CASE i # Len(t)
      <3>1. i \in 1 .. Len(t) - 1 /\ i + 1 \in 1 .. Len(t)
        BY <1>2, <2>1, <2>3
      <3>2. t[i] # t[i + 1]
        BY <1>1, <3>1 DEF WatcherInv, Alternates
      <3> QED
        BY <1>2, <2>1, <3>1, <3>2
    <2> QED
      BY <2>2, <2>3
  <1> HIDE DEF t, st
  <1>5. ASSUME NEW k \in DOMAIN nodes'
        PROVE  /\ nodes'[k].conditions # << >> /\ Newest(k)'
               /\ nodes'[k].ready \in ToSet(nodes'[k].conditions)
               /\ \A i \in 1 .. Len(nodes'[k].conditions) - 1 :
                     nodes'[k].conditions[i] # nodes'[k].conditions[i + 1]
    <2>1. CASE k # n
      BY <1>1, <1>3, <2>1 DEF WatcherInv, RecordsOK, Newest, Alternates
    <2>2. CASE k = n
      <3>1. nodes[n].ready \in ToSet(t)
        BY <1>1 DEF WatcherInv, RecordsOK, t
      <3>2. nodes'[k].ready \in ToSet(nodes'[k].conditions)
        BY <1>2, <1>3, <2>2, <3>1
      <3>3. Newest(k)'
        BY <1>1, <1>2, <1>3, <2>2 DEF Newest, st
      <3> QED
        BY <1>2, <1>3, <1>4, <2>2, <3>2, <3>3
    <2> QED
      BY <2>1, <2>2
  <1> QED
    BY <1>3, <1>5 DEF RecordsOK, Alternates

(* Writing a record's readiness, or that its node is gone, changes none of *)
(* its conditions.                                                         *)
LEMMA RecordsWrite ==
    ASSUME WatcherInv, MarkDeleted \/ SetReady
    PROVE  RecordsOK' /\ Alternates' /\ DOMAIN nodes' = DOMAIN nodes
  <1> DEFINE n == event.name
  <1>1. /\ n \in DOMAIN nodes /\ nodes \in [DOMAIN nodes -> Record] /\ nodes[n] \in Record
        /\ event' = event /\ wpc \in {"mark", "set"} /\ wpc' # "set"
        /\ wpc = "set" => event.status \in Ready
    BY DEF WatcherInv, InHandOK, RecordsOK, MarkDeleted, SetReady, NextEvent
  <1>2. PICK r \in Record :
           /\ nodes' = [nodes EXCEPT ![n] = r]
           /\ r.conditions = nodes[n].conditions
           /\ r.ready = IF wpc = "set" THEN event.status ELSE nodes[n].ready
    <2>1. CASE SetReady
      <3>1. wpc = "set" /\ [nodes[n] EXCEPT !.ready = event.status] \in Record
        BY <1>1, <2>1 DEF SetReady, Record
      <3>2. nodes' = [nodes EXCEPT ![n] = [nodes[n] EXCEPT !.ready = event.status]]
        BY <2>1 DEF SetReady
      <3> QED
        BY <1>1, <3>1, <3>2 DEF Record
    <2>2. CASE MarkDeleted
      <3>1. [nodes[n] EXCEPT !.deleted = TRUE] \in Record /\ nodes = [nodes EXCEPT ![n] = nodes[n]]
        BY <1>1 DEF Record
      <3>2. \/ nodes' = [nodes EXCEPT ![n] = [nodes[n] EXCEPT !.deleted = TRUE]]
            \/ nodes' = [nodes EXCEPT ![n] = nodes[n]]
        BY <2>2, <3>1 DEF MarkDeleted
      <3> QED
        BY <1>1, <2>2, <3>1, <3>2 DEF MarkDeleted, Record
    <2> QED
      BY <2>1, <2>2
  <1>3. /\ DOMAIN nodes' = DOMAIN nodes /\ nodes' \in [DOMAIN nodes' -> Record]
        /\ nodes'[n] = r /\ \A k \in DOMAIN nodes : k # n => nodes'[k] = nodes[k]
    BY <1>1, <1>2
  <1>4. ASSUME NEW k \in DOMAIN nodes'
        PROVE  /\ nodes'[k].conditions = nodes[k].conditions /\ Newest(k)'
               /\ nodes'[k].ready \in ToSet(nodes'[k].conditions)
    <2>0. /\ nodes[k].conditions # << >> /\ nodes[k].conditions \in Seq(Ready)
          /\ Newest(k) /\ nodes[k].ready \in ToSet(nodes[k].conditions)
      BY <1>1, <1>3 DEF WatcherInv, RecordsOK, Record
    <2>1. CASE k # n
      BY <1>1, <1>3, <2>0, <2>1 DEF Newest
    <2>2. CASE k = n
      <3>1. nodes'[k].conditions = nodes[k].conditions /\ Newest(k)'
        BY <1>1, <1>2, <1>3, <2>0, <2>2 DEF Newest
      <3>2. r.ready \in ToSet(nodes[k].conditions)
        <4>1. Len(nodes[k].conditions) \in DOMAIN nodes[k].conditions
          BY <2>0
        <4>2. wpc = "set" => nodes[k].conditions[Len(nodes[k].conditions)] = event.status
          BY <2>0, <2>2 DEF Newest
        <4> QED
          BY <1>1, <1>2, <2>0, <2>2, <4>1, <4>2 DEF ToSet
      <3> QED
        BY <1>3, <2>2, <3>1, <3>2
    <2> QED
      BY <2>1, <2>2
  <1> QED
    BY <1>3, <1>4 DEF WatcherInv, RecordsOK, Alternates

(* The events of the cluster, as they come from the watch.                 *)
LEMMA ListedStep ==
    ASSUME WatcherInv, Next
    PROVE  ListedOK'
  <1> USE DEF Condition, Ready
  <1>0. /\ node \in [Nodes -> {"gone"} \cup Condition]
        /\ listed \in [Nodes -> {"gone"} \cup Condition]
        /\ stream \in [Nodes -> Seq(Told)]
    BY DEF WatcherInv, ListedOK
  <1>1. ASSUME NEW n \in Nodes, Change(n) PROVE ListedOK'
    <2>1. ASSUME NEW st \in Condition, NEW b \in BOOLEAN, Tell(n, st, b)
          PROVE  stream' \in [Nodes -> Seq(Told)]
      <3>1. [status |-> st, stamped |-> b] \in Told
        BY <2>1 DEF Told
      <3>2. Append(stream[n], [status |-> st, stamped |-> b]) \in Seq(Told)
        BY <1>0, <1>1, <3>1
      <3> QED
        BY <1>0, <2>1, <3>2 DEF Tell
    <2>2. /\ listed' = listed
          /\ node' \in [Nodes -> {"gone"} \cup Condition]
          /\ \E st \in Condition, b \in BOOLEAN : Tell(n, st, b)
      BY <1>0, <1>1 DEF Change
    <2> QED
      BY <1>0, <2>1, <2>2 DEF ListedOK
  <1>2. ASSUME NEW n \in Nodes, Take(n) PROVE ListedOK'
    <2>1. stream[n] \in Seq(Told) /\ stream[n] # << >>
      BY <1>0, <1>2 DEF Take
    <2>2. Tail(stream[n]) \in Seq(Told)
      BY <2>1
    <2> QED
      BY <1>0, <1>2, <2>2 DEF Take, ListedOK
  <1>3. CASE OpenStream
    <2>1. ASSUME NEW n \in Nodes, node[n] # "gone"
          PROVE  <<[status |-> node[n], stamped |-> FALSE]>> \in Seq(Told)
      <3>1. [status |-> node[n], stamped |-> FALSE] \in Told
        BY <1>0, <2>1 DEF Told
      <3> QED
        BY <3>1
    <2>2. Replay \in [Nodes -> Seq(Told)]
      BY <2>1 DEF Replay
    <2> QED
      BY <1>0, <1>3, <2>2 DEF OpenStream, ListedOK
  <1>4. CASE List
    BY <1>0, <1>4 DEF List, clusterVars, ListedOK
  <1>5. ASSUME NEW n \in Nodes, RecordListed(n) PROVE ListedOK'
    BY <1>0, <1>5 DEF RecordListed, clusterVars, ListedOK
  <1>6. CASE Parse \/ ThreadFails \/ StopWatcher \/ Save
    BY <1>0, <1>6 DEF Parse, MarkDeleted, AppendCondition, SetReady, ThreadFails, StopWatcher,
         Save, BeginWrite, VisitNode, FinishNode, EndWrite, clusterVars, ListedOK
  <1> QED
    BY <1>1, <1>2, <1>3, <1>4, <1>5, <1>6 DEF Next, RecordNodes

(* parse_node_event begins.                                                *)
LEMMA TakeStep ==
    ASSUME WatcherInv, NEW n \in Nodes, Take(n)
    PROVE  /\ RecordsOK' /\ InHandOK' /\ ListingOK' /\ Alternates'
           /\ \/ nodes' = nodes
              \/ \E st \in Ready : n \notin DOMAIN nodes /\ nodes' = With(nodes, n, NewNodeEvent(st))
  <1> DEFINE st == Head(stream[n]).status
  <1>1. st \in Condition
    <2>1. stream[n] \in Seq(Told) /\ stream[n] # << >>
      BY DEF WatcherInv, ListedOK, Take
    <2>2. Head(stream[n]) \in Told
      BY <2>1
    <2> QED
      BY <2>2 DEF Told
  <1>2. /\ wpc = "stream" /\ wpc' \in {"mark", "stream", "stopped"}
        /\ event'.name = n /\ event'.status = st
        /\ nodes' = Inserted(n, st) /\ (wpc' = "mark" => n \in DOMAIN nodes')
    BY DEF Take, NextEvent
  <1> HIDE DEF st
  <1>3. \/ nodes' = nodes
        \/ n \notin DOMAIN nodes /\ st \in Ready /\ nodes' = With(nodes, n, NewNodeEvent(st))
    BY <1>1, <1>2 DEF Inserted, Condition
  <1>4. RecordsOK' /\ Alternates'
    <2>1. RecordsOK /\ Alternates
      BY DEF WatcherInv
    <2>2. CASE nodes' = nodes
      BY <1>2, <2>1, <2>2, RecordsFrame
    <2>3. CASE n \notin DOMAIN nodes /\ st \in Ready /\ nodes' = With(nodes, n, NewNodeEvent(st))
      BY <1>2, <2>1, <2>3, RecordsAdd
    <2> QED
      BY <1>3, <2>2, <2>3
  <1>5. InHandOK' /\ ListingOK'
    BY <1>1, <1>2 DEF InHandOK, ListingOK
  <1> QED
    BY <1>3, <1>4, <1>5

(* A node of the listing is recorded.                                      *)
LEMMA RecordStep ==
    ASSUME WatcherInv, NEW n \in Nodes, RecordListed(n)
    PROVE  /\ RecordsOK' /\ InHandOK' /\ ListingOK' /\ Alternates'
           /\ \/ nodes' = nodes
              \/ \E st \in Ready : n \notin DOMAIN nodes /\ nodes' = With(nodes, n, NewNodeEvent(st))
  <1>1. /\ wpc = "record" /\ wpc' \in {"record", "dead"}
        /\ n \notin DOMAIN nodes /\ RecordsOK /\ Alternates
        /\ listed \in [Nodes -> {"gone"} \cup Condition]
    BY DEF RecordListed, WatcherInv, ListingOK, ListedOK
  <1>2. CASE listed[n] = "bare"
    <2>1. nodes' = nodes /\ wpc' = "dead"
      BY <1>2 DEF RecordListed
    <2>2. RecordsOK' /\ Alternates'
      BY <1>1, <2>1, RecordsFrame
    <2> QED
      BY <2>1, <2>2 DEF InHandOK, ListingOK
  <1>3. CASE listed[n] # "bare"
    <2>1. /\ listed[n] \in Ready
          /\ nodes' = With(nodes, n, NewNodeEvent(listed[n]))
          /\ listed' = [listed EXCEPT ![n] = "gone"] /\ wpc' = "record"
      BY <1>1, <1>3 DEF RecordListed, Condition
    <2>2. RecordsOK' /\ Alternates'
      BY <1>1, <2>1, RecordsAdd
    <2>3. DOMAIN nodes' = DOMAIN nodes \cup {n}
      BY <2>1 DEF With
    <2>4. ListingOK'
      BY <1>1, <2>1, <2>3 DEF ListingOK, WatcherInv
    <2>5. InHandOK'
      BY <2>1 DEF InHandOK
    <2> QED
      BY <1>1, <2>1, <2>2, <2>4, <2>5
  <1> QED
    BY <1>2, <1>3

(* The main thread writes nothing that the watcher's thread reads.         *)
LEMMA MainFrame ==
    ASSUME StopWatcher \/ Save
    PROVE  UNCHANGED <<clusterVars, wpc, listed, event, nodes>>
  BY DEF StopWatcher, Save, BeginWrite, VisitNode, FinishNode, EndWrite

(* Every step keeps the watcher's invariant.                               *)
LEMMA WatcherStep ==
    ASSUME WatcherInv, [Next]_vars
    PROVE  WatcherInv'
  <1>0. RecordsOK /\ InHandOK /\ ListingOK /\ Alternates
    BY DEF WatcherInv
  <1>1. CASE Next
    <2> SUFFICES RecordsOK' /\ InHandOK' /\ ListingOK' /\ Alternates'
      BY <1>1, ListedStep DEF WatcherInv
    <2>1. ASSUME NEW n \in Nodes, Change(n)
          PROVE  RecordsOK' /\ InHandOK' /\ ListingOK' /\ Alternates'
      <3>1. UNCHANGED <<wpc, listed, event, nodes>>
        BY <2>1 DEF Change
      <3>2. RecordsOK' /\ Alternates'
        BY <1>0, <3>1, RecordsFrame
      <3> QED
        BY <1>0, <3>1, <3>2 DEF InHandOK, ListingOK
    <2>2. ASSUME NEW n \in Nodes, Take(n)
          PROVE  RecordsOK' /\ InHandOK' /\ ListingOK' /\ Alternates'
      BY <2>2, TakeStep
    <2>3. CASE List \/ OpenStream \/ ThreadFails
      <3>1. /\ nodes' = nodes /\ wpc # "set" /\ wpc' \in {"record", "stream", "dead"}
            /\ wpc' = "record" => wpc = "list"
        BY <2>3 DEF List, OpenStream, ThreadFails
      <3>2. RecordsOK' /\ Alternates'
        BY <1>0, <3>1, RecordsFrame
      <3> QED
        BY <1>0, <3>1, <3>2 DEF InHandOK, ListingOK
    <2>4. ASSUME NEW n \in Nodes, RecordListed(n)
          PROVE  RecordsOK' /\ InHandOK' /\ ListingOK' /\ Alternates'
      BY <2>4, RecordStep
    <2>5. CASE AppendCondition
      <3>1. /\ wpc = "append" /\ wpc' = "set" /\ event' = event /\ DOMAIN nodes' = DOMAIN nodes
        BY <2>5 DEF AppendCondition
      <3>2. InHandOK' /\ ListingOK'
        BY <1>0, <3>1 DEF InHandOK, ListingOK
      <3> QED
        BY <2>5, <3>2, RecordsAppend
    <2>6. CASE MarkDeleted \/ SetReady
      <3>1. /\ RecordsOK' /\ Alternates' /\ DOMAIN nodes' = DOMAIN nodes
            /\ wpc \in {"mark", "set"} /\ wpc' \in {"append", "stream", "stopped"}
            /\ event' = event
        BY <2>6, RecordsWrite DEF MarkDeleted, SetReady, NextEvent
      <3>2. wpc' = "append" => /\ event.status \in Ready
                               /\ event.status # nodes[event.name].ready
                               /\ nodes'[event.name].ready = nodes[event.name].ready
        <4>1. ASSUME wpc' = "append"
              PROVE  /\ MarkDeleted /\ event.status # "bare" /\ event.status # nodes[event.name].ready
          BY <2>6, <4>1 DEF MarkDeleted, SetReady, NextEvent, Changed
        <4>2. wpc = "mark" => event.name \in DOMAIN nodes /\ event.status \in Condition
          BY <1>0 DEF InHandOK
        <4>3. ASSUME MarkDeleted PROVE nodes'[event.name].ready = nodes[event.name].ready
          <5>1. event.name \in DOMAIN nodes /\ nodes[event.name] \in Record
            BY <1>0, <4>2, <4>3 DEF MarkDeleted, RecordsOK
          <5> QED
            BY <4>3, <5>1 DEF MarkDeleted, Record
        <4> QED
          BY <4>1, <4>2, <4>3 DEF MarkDeleted, Condition, Ready
      <3>3. InHandOK' /\ ListingOK'
        BY <1>0, <3>1, <3>2 DEF InHandOK, ListingOK
      <3> QED
        BY <3>1, <3>3
    <2>7. CASE StopWatcher \/ Save
      <3>1. UNCHANGED <<wpc, listed, event, nodes>>
        BY <2>7, MainFrame
      <3>2. RecordsOK' /\ Alternates'
        BY <1>0, <3>1, RecordsFrame
      <3> QED
        BY <1>0, <3>1, <3>2 DEF InHandOK, ListingOK
    <2> QED
      BY <1>1, <2>1, <2>2, <2>3, <2>4, <2>5, <2>6, <2>7 DEF Next, RecordNodes, Parse
  <1>2. CASE UNCHANGED vars
    <2>1. UNCHANGED <<clusterVars, wpc, listed, event, nodes>>
      BY <1>2 DEF vars
    <2>2. RecordsOK' /\ Alternates'
      BY <1>0, <2>1, RecordsFrame
    <2> QED
      BY <2>1, <2>2 DEF WatcherInv, ListedOK, InHandOK, ListingOK, clusterVars
  <1> QED
    BY <1>1, <1>2

LEMMA WatcherStart == Init => WatcherInv
  <1> SUFFICES ASSUME Init PROVE WatcherInv
    OBVIOUS
  <1>1. nodes = Empty /\ DOMAIN nodes = {} /\ nodes \in [DOMAIN nodes -> Record]
    BY DEF Init, Empty
  <1>2. RecordsOK /\ Alternates
    BY <1>1 DEF RecordsOK, Alternates
  <1>3. ListedOK /\ InHandOK /\ ListingOK
    BY <1>1 DEF Init, ListedOK, InHandOK, ListingOK, Condition, Ready
  <1> QED
    BY <1>2, <1>3 DEF WatcherInv

LEMMA WatcherAlways == Spec => []WatcherInv
  <1>1. WatcherInv /\ [Next]_vars => WatcherInv'
    BY WatcherStep
  <1> QED
    BY <1>1, WatcherStart, PTL DEF Spec

(***************************************************************************)
(* "Only save conditions on changes": two neighbouring conditions of a     *)
(* node's record always differ, whatever parse_node_event was told, twice  *)
(* or out of nowhere, and wherever the thread has been stopped.            *)
(***************************************************************************)
THEOREM AlternatesHolds == Spec => []Alternates
  <1>1. WatcherInv => Alternates
    BY DEF WatcherInv
  <1> QED
    BY <1>1, WatcherAlways, PTL

-----------------------------------------------------------------------------
(* What complete_workflow writes.                                          *)

(* The dictionary only grows: a record keeps its conditions, in front of   *)
(* at most one new one, and a deletion stays.                              *)
LEMMA OnlyGrows ==
    ASSUME WatcherInv, [Next]_vars, NEW n \in DOMAIN nodes
    PROVE  /\ n \in DOMAIN nodes'
           /\ \/ nodes'[n].conditions = nodes[n].conditions
              \/ \E x \in Ready : nodes'[n].conditions = Append(nodes[n].conditions, x)
           /\ nodes[n].deleted => nodes'[n].deleted
  <1> DEFINE Goal ==
               /\ n \in DOMAIN nodes'
               /\ \/ nodes'[n].conditions = nodes[n].conditions
                  \/ \E x \in Ready : nodes'[n].conditions = Append(nodes[n].conditions, x)
               /\ nodes[n].deleted => nodes'[n].deleted
  <1> SUFFICES Goal
    OBVIOUS
  <1>0. nodes[n] \in Record
    BY DEF WatcherInv, RecordsOK
  <1>1. ASSUME NEW k, NEW st \in Ready, k \notin DOMAIN nodes,
               nodes' = With(nodes, k, NewNodeEvent(st))
        PROVE  Goal
    <2>1. n \in DOMAIN nodes' /\ nodes'[n] = nodes[n]
      BY <1>1 DEF With
    <2> QED
      BY <2>1
  <1>2. ASSUME nodes' = nodes PROVE Goal
    BY <1>2
  <1>3. ASSUME NEW k \in Nodes, Take(k) PROVE Goal
    BY <1>1, <1>2, <1>3, TakeStep
  <1>4. ASSUME NEW k \in Nodes, RecordListed(k) PROVE Goal
    BY <1>1, <1>2, <1>4, RecordStep
  <1>5. CASE MarkDeleted
    BY <1>0, <1>2, <1>5 DEF MarkDeleted, Record
  <1>6. CASE AppendCondition
    <2>1. event.status \in Ready
      BY <1>6 DEF WatcherInv, InHandOK, AppendCondition
    <2> QED
      BY <1>0, <1>6, <2>1 DEF AppendCondition, Record
  <1>7. CASE SetReady
    BY <1>0, <1>7 DEF SetReady, Record
  <1>8. ASSUME NEW k \in Nodes, Change(k) PROVE Goal
    <2>1. nodes' = nodes
      BY <1>8 DEF Change
    <2> QED
      BY <1>2, <2>1
  <1>9. CASE List \/ OpenStream \/ ThreadFails \/ UNCHANGED vars
    <2>1. nodes' = nodes
      BY <1>9 DEF List, OpenStream, ThreadFails, vars
    <2> QED
      BY <1>2, <2>1
  <1>10. CASE StopWatcher \/ Save
    BY <1>2, <1>10, MainFrame
  <1> QED
    <2> HIDE DEF Goal
    <2> QED
      BY <1>3, <1>4, <1>5, <1>6, <1>7, <1>8, <1>9, <1>10 DEF Next, RecordNodes, Parse

(* Hence what the main thread has read stays a part of it.                 *)
LEMMA HoldsOn ==
    ASSUME WatcherInv, [Next]_vars, NEW n, NEW c, NEW d, Holds(n, c, d)
    PROVE  /\ n \in DOMAIN nodes /\ n \in DOMAIN nodes' /\ c \in Seq(Ready)
           /\ IsPrefix(c, nodes'[n].conditions)
           /\ d => nodes'[n].deleted
           /\ ToSet(nodes[n].conditions) \subseteq ToSet(nodes'[n].conditions)
  <1>1. /\ n \in DOMAIN nodes /\ c \in Seq(Ready) /\ IsPrefix(c, nodes[n].conditions)
        /\ d => nodes[n].deleted
    BY DEF Holds
  <1>2. nodes[n].conditions \in Seq(Ready)
    BY <1>1 DEF WatcherInv, RecordsOK, Record
  <1>3. /\ n \in DOMAIN nodes'
        /\ \/ nodes'[n].conditions = nodes[n].conditions
           \/ \E x \in Ready : nodes'[n].conditions = Append(nodes[n].conditions, x)
        /\ nodes[n].deleted => nodes'[n].deleted
    BY <1>1, OnlyGrows
  <1>4. CASE nodes'[n].conditions = nodes[n].conditions
    BY <1>1, <1>3, <1>4
  <1>5. ASSUME NEW x \in Ready, nodes'[n].conditions = Append(nodes[n].conditions, x)
        PROVE  /\ IsPrefix(c, nodes'[n].conditions)
               /\ ToSet(nodes[n].conditions) \subseteq ToSet(nodes'[n].conditions)
    <2>1. IsPrefix(c, Append(nodes[n].conditions, x))
      BY <1>1, <1>2, PrefixFacts
    <2>2. ToSet(Append(nodes[n].conditions, x)) = ToSet(nodes[n].conditions) \cup {x}
      BY <1>2, AppendFacts
    <2> QED
      BY <1>5, <2>1, <2>2
  <1> QED
    BY <1>1, <1>3, <1>4, <1>5

(* Every step keeps what the main thread has read.                         *)
LEMMA ReportStep ==
    ASSUME WatcherInv, ReportInv, [Next]_vars
    PROVE  ReportInv'
  <1>1. ASSUME NEW n, NEW c, NEW d, Holds(n, c, d)
        PROVE  /\ Holds(n, c, d)'
               /\ ToSet(nodes[n].conditions) \subseteq ToSet(nodes'[n].conditions)
    BY <1>1, HoldsOn DEF Holds
  <1>2. DOMAIN nodes \subseteq DOMAIN nodes'
    BY OnlyGrows
  <1>3. CASE UNCHANGED mainVars
    <2>1. UNCHANGED <<mpc, todo, visit, report>>
      BY <1>3 DEF mainVars
    <2>2. todo' \subseteq DOMAIN nodes'
      BY <1>2, <2>1 DEF ReportInv
    <2>3. mpc' = "visit" => Holds(visit.name, visit.conditions, visit.deleted)'
      BY <1>1, <2>1 DEF ReportInv, Holds
    <2>4. ASSUME NEW n \in DOMAIN report'
          PROVE  /\ Holds(n, report[n].conditions, report[n].deleted)'
                 /\ report'[n].ready \in ToSet(nodes'[n].conditions)
      BY <1>1, <2>1 DEF ReportInv, Holds
    <2> QED
      BY <2>2, <2>3, <2>4 DEF ReportInv
  <1>4. CASE StopWatcher \/ BeginWrite \/ EndWrite
    BY <1>4 DEF StopWatcher, BeginWrite, EndWrite, ReportInv, Holds
  <1>5. ASSUME NEW n \in Nodes, VisitNode(n) PROVE ReportInv'
    <2>1. /\ UNCHANGED <<nodes, todo, report>>
          /\ n \in todo
          /\ visit' = [name |-> n, conditions |-> nodes[n].conditions, deleted |-> nodes[n].deleted]
      BY <1>5 DEF VisitNode
    <2>2. n \in DOMAIN nodes /\ nodes[n].conditions \in Seq(Ready)
      BY <2>1 DEF ReportInv, WatcherInv, RecordsOK, Record
    <2>3. IsPrefix(nodes[n].conditions, nodes[n].conditions)
      BY <2>2, PrefixFacts DEF Ready
    <2>4. Holds(visit.name, visit.conditions, visit.deleted)'
      BY <2>1, <2>2, <2>3 DEF Holds
    <2> QED
      BY <2>1, <2>4 DEF ReportInv, Holds
  <1>6. CASE FinishNode
    <2> DEFINE v == visit.name
    <2>1. /\ UNCHANGED <<nodes, visit>>
          /\ mpc = "visit" /\ mpc' = "write" /\ todo' \subseteq todo
          /\ report' = With(report, v,
                 [conditions |-> visit.conditions, ready |-> nodes[v].ready,
                  deleted |-> visit.deleted])
      BY <1>6 DEF FinishNode
    <2>2. /\ Holds(v, visit.conditions, visit.deleted)
          /\ nodes[v].ready \in ToSet(nodes[v].conditions)
      BY <2>1 DEF ReportInv, Holds, WatcherInv, RecordsOK
    <2>3. ASSUME NEW n \in DOMAIN report'
          PROVE  /\ Holds(n, report[n].conditions, report[n].deleted)'
                 /\ report'[n].ready \in ToSet(nodes'[n].conditions)
      <3>1. CASE n = v
        <4>1. report'[n] = [conditions |-> visit.conditions, ready |-> nodes[v].ready,
                            deleted |-> visit.deleted]
          BY <2>1, <3>1 DEF With
        <4> QED
          BY <2>1, <2>2, <3>1, <4>1 DEF Holds
      <3>2. CASE n # v
        <4>1. n \in DOMAIN report /\ report'[n] = report[n]
          BY <2>1, <2>3, <3>2 DEF With
        <4> QED
          BY <2>1, <4>1 DEF ReportInv, Holds
      <3> QED
        BY <3>1, <3>2
    <2> QED
      BY <2>1, <2>3 DEF ReportInv
  <1>7. CASE UNCHANGED vars
    BY <1>3, <1>7 DEF vars
  <1>8. ASSUME NEW n \in Nodes, Change(n) \/ Take(n) PROVE UNCHANGED mainVars
    BY <1>8 DEF Change, Take
  <1>9. CASE RecordNodes \/ Parse \/ ThreadFails
    <2>1. UNCHANGED mainVars
      BY <1>9 DEF RecordNodes, Parse, ThreadFails, List, RecordListed, OpenStream,
           MarkDeleted, AppendCondition, SetReady
    <2> QED
      BY <1>3, <2>1
  <1> QED
    BY <1>3, <1>4, <1>5, <1>6, <1>7, <1>8, <1>9 DEF Next, Save

(***************************************************************************)
(* What complete_workflow writes while the thread goes on is a part of     *)
(* what the dictionary holds, from each record's start: a report that the  *)
(* walk over the dictionary gets through is never one the dictionary could *)
(* not have had.                                                           *)
(***************************************************************************)
THEOREM ReportIsHistoryHolds == Spec => []ReportIsHistory
  <1>1. Init => ReportInv
    <2> SUFFICES ASSUME Init PROVE ReportInv
      OBVIOUS
    <2>1. DOMAIN report = {} /\ todo = {} /\ mpc # "visit"
      BY DEF Init, Empty
    <2> QED
      BY <2>1 DEF ReportInv
  <1>2. WatcherInv /\ ReportInv /\ [Next]_vars => ReportInv'
    BY ReportStep
  <1>3. ReportInv => ReportIsHistory
    BY DEF ReportInv, Holds, ReportIsHistory
  <1> QED
    BY <1>1, <1>2, <1>3, WatcherAlways, PTL DEF Spec
=============================================================================
