------------------------- MODULE WorkflowRefinement -------------------------
(***************************************************************************)
(* The manager with its cluster implements Workflow.  The phase of a       *)
(* sequence is read off one listing the way get_current_state reads it;    *)
(* nothing of the manager's own memory enters the mapping, so losing that  *)
(* memory must not show.                                                   *)
(***************************************************************************)
EXTENDS WorkflowManager

\* The phase of a sequence with the given status of each step's Job.
Phase(job) ==
    IF \E s \in Steps : InFailed(job[s]) THEN "failed"
    ELSE IF InSuccess(job[NumSteps]) THEN "completed"
    ELSE IF \E s \in Steps : Unfinished(job[s]) \/ InSuccess(job[s]) THEN "active"
    ELSE "new"

Promise == INSTANCE Workflow WITH phase <- [id \in JobIds |-> Phase(cluster[id])]

(***************************************************************************)
(* The workflow a user sees through listings of the cluster: at most as    *)
(* many sequences as needed, steps in order one at a time, failures and    *)
(* completions for good, across restarts of the manager too.               *)
(***************************************************************************)
ImplementsWorkflow == Promise!Spec
=============================================================================
