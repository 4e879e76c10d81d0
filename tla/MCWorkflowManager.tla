------------------------- MODULE MCWorkflowManager -------------------------
(* Values for the constants of WorkflowManager that a cfg cannot write.    *)
EXTENDS WorkflowRefinement, TLC

OneNode == [s \in Steps |-> 1]
AllJobs == [s \in Steps |-> "job"]
JobThenJobSet == [s \in Steps |-> IF s = 1 THEN "job" ELSE "jobset"]
NoRules == {}
Rule(action, step, metric, when, size, min) ==
    [action |-> action, metric |-> metric, step |-> step, when |-> when, than |-> 5,
     limited |-> TRUE, repetitions |-> 2, backoff |-> 0 - 1, minCompletions |-> min,
     size |-> size]
AllRules ==
    {Rule("repeat", 1, "mean.first", ">", 0, 0), Rule("repeat", NumSteps, "mean.last", ">=", 0, 1),
     Rule("grow", 1, "max.first", "<", 3, 0), Rule("shrink", 1, "max.first", ">=", 1, 0),
     Rule("grow", NumSteps, "mean.last", ">", 0 - 1, 0),
     [Rule("finish-workflow", NumSteps, "count.last", ">=", 0, 0)
        EXCEPT !.limited = FALSE, !.than = 2]}
IdSymmetry == Permutations(JobIds)
=============================================================================
