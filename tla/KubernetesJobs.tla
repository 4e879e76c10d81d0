--------------------------- MODULE KubernetesJobs ---------------------------
(***************************************************************************)
(* What the manager reads of the Kubernetes Jobs of a workflow: the        *)
(* predicates of tracker/kubernetes/job.py on one Job's status, the        *)
(* buckets of tracker/kubernetes/state.py, the sets get_current_state      *)
(* derives from one listing, and the arithmetic of new_jobs.               *)
(***************************************************************************)
EXTENDS Integers, FiniteSets, JobStateMachine

CONSTANTS
    JobIds,              \* the identifiers generate_id can draw
    CompletionsNeeded,   \* workflow.completed
    MaxSize              \* cluster.max_size

ASSUME JobIdsAssumption == IsFiniteSet(JobIds)
ASSUME SizesAssumption == CompletionsNeeded \in Nat \ {0} /\ MaxSize \in Nat

(***************************************************************************)
(* A Job's status, by the fields the code reads: active > 0 is "running"   *)
(* or "retrying", failed > 0 is "retrying", "failed" or "recovered", and   *)
(* the Job controller sets completion_time on success only, "succeeded"    *)
(* or "recovered" (a success after some pods failed).  "none" is no Job,   *)
(* "requested" a JobSet or MiniCluster whose Job its own controller has    *)
(* yet to create.                                                          *)
(***************************************************************************)
Status ==
    {"none", "requested", "queued", "running", "retrying", "failed", "succeeded", "recovered"}

\* A listing shows a Job, and the watch speaks of it.
IsListed(st) == st \notin {"none", "requested"}

IsActive(st) == st \in {"running", "retrying"}
IsCompleted(st) == st \in {"succeeded", "recovered"}
HasFailedPods(st) == st \in {"retrying", "failed", "recovered"}
IsFailed(st) == IsCompleted(st) /\ HasFailedPods(st)
\* Mutant: a Job that is not active and shows no failed pod is taken to have succeeded.
IsSucceededWhenIdle(st) == ~ IsActive(st) /\ ~ HasFailedPods(st)
IsSucceeded(st) == IsCompleted(st) /\ ~ HasFailedPods(st)

\* The buckets of list_jobs_by_status, in the order it tries them.
InSuccess(st) == IsCompleted(st)
InFailed(st) == ~ IsCompleted(st) /\ HasFailedPods(st)
InQueued(st) == st = "queued"
InRunning(st) == st = "running"
Unfinished(st) == InQueued(st) \/ InRunning(st)

-----------------------------------------------------------------------------
(* get_current_state on the listing c \in [JobIds -> [Steps -> Status]].   *)

FailedSequences(c) == {id \in JobIds : \E s \in Steps : InFailed(c[id][s])}

\* Mutant: a success of any step counts as a completion.
CompletedAnyStep(c) ==
    {id \in JobIds \ FailedSequences(c) : \E s \in Steps : InSuccess(c[id][s])}

Completions(c) == {id \in JobIds \ FailedSequences(c) : InSuccess(c[id][NumSteps])}

\* Mutant: a failed sequence is still counted as active.
ActiveEvenFailed(c) ==
    {id \in JobIds \ Completions(c) :
        \E s \in Steps : Unfinished(c[id][s]) \/ (s # NumSteps /\ InSuccess(c[id][s]))}

\* Mutant: a sequence between two steps is not counted as active.
ActiveUnfinishedOnly(c) ==
    {id \in JobIds \ (FailedSequences(c) \cup Completions(c)) :
        \E s \in Steps : Unfinished(c[id][s])}

ActiveSequences(c) ==
    {id \in JobIds \ (FailedSequences(c) \cup Completions(c)) :
        \E s \in Steps : Unfinished(c[id][s]) \/ (s # NumSteps /\ InSuccess(c[id][s]))}

-----------------------------------------------------------------------------
Least(a, b) == IF a <= b THEN a ELSE b
Positive(a) == IF a > 0 THEN a ELSE 0

\* Mutant: the active sequences are not subtracted from the need.
SubmitCountNoActive(c, nnodes) ==
    LET needed == CompletionsNeeded - Cardinality(Completions(c))
        allowed == Least(MaxSize \div nnodes, needed)
    IN  Positive(Least(needed, allowed))

\* submit_n of new_jobs, when each sequence takes the first step's nnodes.
SubmitCount(c, nnodes) ==
    LET needed == CompletionsNeeded - Cardinality(Completions(c))
        allowed == Least(MaxSize \div nnodes, needed)
    IN  Positive(Least(needed, Positive(allowed - Cardinality(ActiveSequences(c)))))
=============================================================================
