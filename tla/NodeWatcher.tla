---------------------------- MODULE NodeWatcher ----------------------------
(***************************************************************************)
(* The node watcher (tracker/kubernetes/event.py): a daemon thread records *)
(* the nodes of the cluster and their readiness in a dictionary, which the *)
(* main thread writes out in complete_workflow without waiting for it to   *)
(* stop.  Each write to the dictionary is a step of the thread; the        *)
(* indented json.dumps of write_json runs in Python, so the threads may    *)
(* switch between any two keys it visits.                                  *)
(***************************************************************************)
EXTENDS Naturals, FiniteSets, SequencesExt

CONSTANTS
    Nodes,        \* names of nodes
    MaxChanges    \* bound on the changes of the cluster

ASSUME NodesAssumption == IsFiniteSet(Nodes)
ASSUME MaxChangesAssumption == MaxChanges \in Nat

VARIABLES
    node,      \* [n]: "gone", or its Ready condition: "bare" (none yet), "True", "False"
    stream,    \* [n]: the events of the node the watch has yet to deliver
    changes,   \* how often the cluster has changed
    wpc,       \* where watch_nodes is
    listed,    \* [n]: what list_node showed, "gone" once it has been recorded
    event,     \* the event in hand
    nodes,     \* self.nodes: conditions, is_ready and whether "deleted" is there
    mpc,       \* where the main thread is
    todo,      \* the nodes write_json has yet to visit
    visit,     \* the node it is visiting, with what it has read of it
    report     \* what it has serialised

clusterVars == <<node, stream, changes>>
mainVars == <<mpc, todo, visit, report>>
vars == <<clusterVars, wpc, listed, event, nodes, mainVars>>

Empty == [n \in {} |-> 0]
With(d, n, r) == [k \in DOMAIN d \cup {n} |-> IF k = n THEN r ELSE d[k]]

Init ==
    /\ node \in [Nodes -> {"gone", "bare", "True", "False"}]
    /\ stream = [n \in Nodes |-> << >>]
    /\ changes = 0
    /\ wpc = "list"
    /\ listed = [n \in Nodes |-> "gone"]
    /\ event = [name |-> "none", status |-> "bare", stamped |-> FALSE]
    /\ nodes = Empty
    /\ mpc = "running"
    /\ todo = {}
    /\ visit = [name |-> "none", conditions |-> << >>, deleted |-> FALSE]
    /\ report = Empty

-----------------------------------------------------------------------------
(* The cluster: nodes come, go, and change readiness.                      *)

Tell(n, st, stamped) ==
    stream' = IF wpc \in {"list", "record", "dead"} THEN stream
              ELSE [stream EXCEPT ![n] = Append(@, [status |-> st, stamped |-> stamped])]

Change(n) ==
    /\ changes < MaxChanges
    /\ changes' = changes + 1
    /\ \/ \E st \in {"bare", "True", "False"} \ {node[n]} :
             /\ st = "bare" => node[n] = "gone"
             /\ node' = [node EXCEPT ![n] = st]
             /\ Tell(n, st, FALSE)
       \/ /\ node[n] # "gone"
          /\ node' = [node EXCEPT ![n] = "gone"]
          /\ \E stamped \in BOOLEAN : Tell(n, node[n], stamped)
    /\ UNCHANGED <<wpc, listed, event, nodes, mainVars>>

-----------------------------------------------------------------------------
(* watch_nodes, in a daemon thread that ends with the process.             *)

Alive == mpc \notin {"exited", "died"}
StopSet == mpc # "running"

\* The loop is done with an event; only then is stop_event looked at.
NextEvent == IF StopSet THEN "stopped" ELSE "stream"

NewNodeEvent(st) == [conditions |-> <<st>>, ready |-> st, deleted |-> FALSE]

List ==
    /\ Alive /\ wpc = "list"
    /\ listed' = node
    /\ wpc' = "record"
    /\ UNCHANGED <<clusterVars, event, nodes, mainVars>>

\* A listed node without a Ready condition raises, and nothing catches it.
RecordListed(n) ==
    /\ Alive /\ wpc = "record"
    /\ listed[n] # "gone"
    /\ IF listed[n] = "bare"
       THEN wpc' = "dead" /\ UNCHANGED <<nodes, listed>>
       ELSE /\ nodes' = With(nodes, n, NewNodeEvent(listed[n]))
            /\ listed' = [listed EXCEPT ![n] = "gone"]
            /\ UNCHANGED wpc
    /\ UNCHANGED <<clusterVars, event, mainVars>>

\* Mutant: the watch tells only of what changes once it is open.
NoReplay == stream

\* The watch lists the nodes once more, as events.
Replay ==
    [n \in Nodes |-> IF node[n] = "gone" THEN << >>
                     ELSE <<[status |-> node[n], stamped |-> FALSE]>>]

OpenStream ==
    /\ Alive /\ wpc = "record"
    /\ \A n \in Nodes : listed[n] = "gone"
    /\ stream' = Replay
    /\ wpc' = "stream"
    /\ UNCHANGED <<node, changes, listed, event, nodes, mainVars>>

\* An error of the listing or of the watch itself ends the thread.
ThreadFails ==
    /\ Alive /\ wpc \in {"list", "stream"}
    /\ wpc' = "dead"
    /\ UNCHANGED <<clusterVars, listed, event, nodes, mainVars>>

\* Mutant: the record of a known node is started afresh.
InsertedAlways(n, st) == IF st = "bare" THEN nodes ELSE With(nodes, n, NewNodeEvent(st))

\* self.nodes after a node event, a new name's record being new.
Inserted(n, st) ==
    IF n \in DOMAIN nodes \/ st = "bare" THEN nodes ELSE With(nodes, n, NewNodeEvent(st))

\* parse_node_event begins; for a new node with no Ready condition it raises,
\* which the loop catches.
Take(n) ==
    /\ Alive /\ wpc = "stream"
    /\ stream[n] # << >>
    /\ event' = [name |-> n, status |-> Head(stream[n]).status,
                 stamped |-> Head(stream[n]).stamped]
    /\ stream' = [stream EXCEPT ![n] = Tail(@)]
    /\ nodes' = Inserted(n, event'.status)
    /\ wpc' = IF n \in DOMAIN nodes' THEN "mark" ELSE NextEvent
    /\ UNCHANGED <<node, changes, listed, mainVars>>

\* Mutant: every event adds a condition.
Differs(st, ready) == TRUE

Changed(st, ready) == st # ready

\* The deletion, then the comparison, which raises with no Ready condition.
MarkDeleted ==
    /\ Alive /\ wpc = "mark"
    /\ nodes' = IF event.stamped THEN [nodes EXCEPT ![event.name].deleted = TRUE] ELSE nodes
    /\ wpc' = IF event.status # "bare" /\ Changed(event.status, nodes[event.name].ready)
              THEN "append" ELSE NextEvent
    /\ UNCHANGED <<clusterVars, listed, event, mainVars>>

AppendCondition ==
    /\ Alive /\ wpc = "append"
    /\ nodes' = [nodes EXCEPT ![event.name].conditions = Append(@, event.status)]
    /\ wpc' = "set"
    /\ UNCHANGED <<clusterVars, listed, event, mainVars>>

SetReady ==
    /\ Alive /\ wpc = "set"
    /\ nodes' = [nodes EXCEPT ![event.name].ready = event.status]
    /\ wpc' = NextEvent
    /\ UNCHANGED <<clusterVars, listed, event, mainVars>>

-----------------------------------------------------------------------------
(* complete_workflow: stop, then save.                                     *)

\* The stop is set, and print's json.dumps is one call into C.
StopWatcher ==
    /\ mpc = "running"
    /\ mpc' = "print"
    /\ UNCHANGED <<clusterVars, wpc, listed, event, nodes, todo, visit, report>>

BeginWrite ==
    /\ mpc = "print"
    /\ mpc' = "write"
    /\ todo' = DOMAIN nodes
    /\ UNCHANGED <<clusterVars, wpc, listed, event, nodes, visit, report>>

\* Has a dictionary that is being walked got another key?
Grown == IF mpc = "write" THEN DOMAIN nodes # todo \cup DOMAIN report
         ELSE nodes[visit.name].deleted # visit.deleted

\* The walk over the conditions follows appends until it finds no more and an
\* entry never changes, so it amounts to one reading of the list, at its end.
VisitNode(n) ==
    /\ mpc = "write" /\ ~ Grown
    /\ n \in todo
    /\ visit' = [name |-> n, conditions |-> nodes[n].conditions, deleted |-> nodes[n].deleted]
    /\ mpc' = "visit"
    /\ UNCHANGED <<clusterVars, wpc, listed, event, nodes, todo, report>>

\* is_ready comes after the conditions, and what the thread does in between shows.
FinishNode ==
    /\ mpc = "visit" /\ ~ Grown
    /\ report' = With(report, visit.name,
                      [conditions |-> visit.conditions, ready |-> nodes[visit.name].ready,
                       deleted |-> visit.deleted])
    /\ todo' = todo \ {visit.name}
    /\ mpc' = "write"
    /\ UNCHANGED <<clusterVars, wpc, listed, event, nodes, visit>>

\* The walk ends, or raises, and with it complete_workflow and the process.
EndWrite ==
    /\ \/ mpc = "write" /\ ~ Grown /\ todo = {} /\ mpc' = "exited"
       \/ mpc \in {"write", "visit"} /\ Grown /\ mpc' = "died"
    /\ UNCHANGED <<clusterVars, wpc, listed, event, nodes, todo, visit, report>>

RecordNodes == List \/ (\E n \in Nodes : RecordListed(n)) \/ OpenStream
Parse == MarkDeleted \/ AppendCondition \/ SetReady
Save == BeginWrite \/ (\E n \in Nodes : VisitNode(n)) \/ FinishNode \/ EndWrite

Next ==
    \/ \E n \in Nodes : Change(n) \/ Take(n)
    \/ RecordNodes \/ Parse \/ ThreadFails
    \/ StopWatcher \/ Save

Spec == Init /\ [][Next]_vars

(***************************************************************************)
(* Both threads are scheduled, and the watch delivers every node's events. *)
(* Nothing makes the workflow complete, or the cluster change.             *)
(***************************************************************************)
FairSpec ==
    /\ Spec
    /\ WF_vars(RecordNodes \/ Parse)
    /\ \A n \in Nodes : WF_vars(Take(n))
    /\ WF_vars(Save)

-----------------------------------------------------------------------------
(* Properties.                                                             *)

(***************************************************************************)
(* "Only save conditions on changes": a node's conditions alternate,       *)
(* although every node is told of twice at the start, first by the listing *)
(* and then by the watch, and may come back after it was deleted.          *)
(***************************************************************************)
Alternates ==
    \A n \in DOMAIN nodes : LET c == nodes[n].conditions IN
        \A i \in 1 .. Len(c) - 1 : c[i] # c[i + 1]

(***************************************************************************)
(* What complete_workflow writes while the thread goes on is what the      *)
(* dictionary held: conditions it had, in their order and from the first,  *)
(* with is_ready one of theirs or the one that comes next.                 *)
(***************************************************************************)
ReportIsHistory ==
    \A n \in DOMAIN report :
        /\ IsPrefix(report[n].conditions, nodes[n].conditions)
        /\ report[n].ready \in ToSet(nodes[n].conditions)
        /\ report[n].deleted => nodes[n].deleted

Current ==
    \A n \in Nodes : node[n] \in {"True", "False"} =>
        n \in DOMAIN nodes /\ nodes[n].ready = node[n]

(***************************************************************************)
(* As long as the thread lives it catches up with the nodes that are       *)
(* there: an event that cannot be parsed, or comes between the listing and *)
(* the watch, is never the reason that a node's readiness stays wrong.     *)
(***************************************************************************)
Follows == []<>(Current \/ wpc \in {"dead", "stopped"} \/ ~ Alive)
=============================================================================
