------------------------------ MODULE Workflow ------------------------------
(***************************************************************************)
(* What a workflow promises its user, with no cluster, no manager and no   *)
(* events: job sequences are begun while more completions are needed, each *)
(* runs its steps one after the other, a step that fails ends its          *)
(* sequence, and neither a failure nor a completion is ever taken back.    *)
(***************************************************************************)
EXTENDS Naturals, FiniteSets

CONSTANTS
    JobIds,              \* the sequences there may be
    NumSteps,            \* the steps of each
    CompletionsNeeded    \* how many are to complete

VARIABLES
    phase,    \* [id]: "new", "active", "completed" or "failed"
    done      \* [id]: the steps that have succeeded

vars == <<phase, done>>

Init ==
    /\ phase = [id \in JobIds |-> "new"]
    /\ done = [id \in JobIds |-> {}]

Wanted == {id \in JobIds : phase[id] \in {"active", "completed"}}

\* A sequence is begun only where those under way would not be enough.
Begin(id) ==
    /\ phase[id] = "new"
    /\ Cardinality(Wanted) < CompletionsNeeded
    /\ phase' = [phase EXCEPT ![id] = "active"]
    /\ UNCHANGED done

\* The next step of a sequence succeeds; the last one completes it.
Advance(id) ==
    LET s == Cardinality(done[id]) + 1 IN
    /\ phase[id] = "active"
    /\ s <= NumSteps
    /\ done' = [done EXCEPT ![id] = @ \cup {s}]
    /\ phase' = [phase EXCEPT ![id] = IF s = NumSteps THEN "completed" ELSE @]

\* A step fails and its sequence with it.
Fail(id) ==
    /\ phase[id] = "active"
    /\ phase' = [phase EXCEPT ![id] = "failed"]
    /\ UNCHANGED done

Next == \E id \in JobIds : Begin(id) \/ Advance(id) \/ Fail(id)

Spec == Init /\ [][Next]_vars
=============================================================================
