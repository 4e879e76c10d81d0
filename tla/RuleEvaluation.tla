--------------------------- MODULE RuleEvaluation ---------------------------
(***************************************************************************)
(* One step's workflow rules over a run of the manager: they are loaded,   *)
(* which evaluates each once, and then evaluated again after every event   *)
(* of a Job of the step, on whatever value their metric has by then.       *)
(***************************************************************************)
EXTENDS EventRules

CONSTANTS
    Rules,            \* the rules of one step
    Numbers,          \* the values a metric may have
    StartNodes,       \* nnodes of the step in the workflow's config
    MaxEvaluations    \* bound: how often the rules are evaluated

ASSUME StepRulesAssumption == \A r \in Rules : r \in RuleType({1}) /\ IsValid(r)
ASSUME RunAssumption ==
    Numbers \subseteq Int /\ StartNodes \in Nat \ {0} /\ MaxEvaluations \in Nat

VARIABLES
    left,       \* [rule]: repetitions left
    nnodes,     \* nnodes of the step
    alive,      \* is the manager's process still there?
    looks,      \* the number of evaluations so far
    acted       \* history, [rule]: how often the rule's action was taken

vars == <<left, nnodes, alive, looks, acted>>

Init ==
    /\ left = [r \in Rules |-> LoadedLeft(r)]
    /\ nnodes = StartNodes
    /\ alive = TRUE
    /\ looks = 0
    /\ acted = [r \in Rules |-> 0]

\* trigger_workflow_action, given whether minCompletions are reached.
Act(r, enough) ==
    /\ nnodes' = IF enough /\ ~ GrowRaises(r) THEN Resized(r, nnodes) ELSE nnodes
    /\ alive' = ~ (enough /\ (GrowRaises(r) \/ r.action = "finish-workflow"))
    /\ acted' = IF enough /\ ~ GrowRaises(r) THEN [acted EXCEPT ![r] = @ + 1] ELSE acted

\* check_workflow_metrics for one rule.
Evaluate(r, value, enough) ==
    /\ alive
    /\ looks < MaxEvaluations
    /\ looks' = looks + 1
    /\ r.minCompletions = 0 => enough
    /\ left' = [left EXCEPT ![r] = LeftAfter(r, @, value)]
    /\ IF Triggers(r, left[r], value)
       THEN Act(r, enough)
       ELSE UNCHANGED <<nnodes, alive, acted>>

\* The workflow goes on without further events of the step.
Rest == (~ alive \/ looks = MaxEvaluations) /\ UNCHANGED vars

Next ==
    \/ \E r \in Rules, value \in {{}} \cup {{n} : n \in Numbers}, enough \in BOOLEAN :
          Evaluate(r, value, enough)
    \/ Rest

Spec == Init /\ [][Next]_vars

-----------------------------------------------------------------------------
(***************************************************************************)
(* "It should never go below zero, in practice" (finished), and the        *)
(* repetitions are a limit: the actions taken and the repetitions left     *)
(* never add up to more than the rule was given, trial included.           *)
(***************************************************************************)
RepetitionsBound ==
    \A r \in Rules : r.limited = TRUE => left[r] >= 0 /\ acted[r] + left[r] <= r.repetitions

(***************************************************************************)
(* However grow and shrink rules of one step are mixed, its size never     *)
(* reaches zero; below its start it was shrunk by a rule whose minSize it  *)
(* still meets, above it grown by a rule whose maxSize it is still under.  *)
(***************************************************************************)
SizeStaysInRange ==
    /\ nnodes >= 1
    /\ nnodes < StartNodes =>
          \E r \in Rules : r.action = "shrink" /\ acted[r] > 0 /\ nnodes >= r.size
    /\ nnodes > StartNodes =>
          \E r \in Rules : r.action = "grow" /\ acted[r] > 0 /\ nnodes < r.size

=============================================================================
