-------------------------- MODULE MCRuleEvaluation --------------------------
(* Sets of rules for the runs of RuleEvaluation.                           *)
EXTENDS RuleEvaluation

StepRule(action, when, than, size) ==
    [action |-> action, metric |-> "mean.lammps.duration", step |-> 1, when |-> when,
     than |-> than, limited |-> TRUE, repetitions |-> 3, backoff |-> 0 - 1,
     minCompletions |-> 0, size |-> size]

\* Grow and shrink on overlapping conditions, some never satisfied by the trial.
MixedRules ==
    {StepRule("grow", ">=", 30, 4), StepRule("grow", "<", 40, 5),
     [StepRule("shrink", "<=", 30, 0) EXCEPT !.limited = FALSE],
     [StepRule("shrink", ">", 20, 2) EXCEPT !.minCompletions = 1],
     [StepRule("grow", "number", 20, 0 - 1) EXCEPT !.repetitions = 1],
     [StepRule("grow", ">", 45, 0 - 1) EXCEPT !.repetitions = 2],
     [StepRule("finish-workflow", ">", 45, 0) EXCEPT !.minCompletions = 1],
     [StepRule("shrink", "undefined", 0, 0) EXCEPT !.backoff = 3]}
=============================================================================
