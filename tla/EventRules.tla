----------------------------- MODULE EventRules -----------------------------
(***************************************************************************)
(* The rules of a workflow's events (config/types.py): when a rule may     *)
(* trigger, what an evaluation does to its repetitions, what the trial     *)
(* evaluation of its validation leaves, and how grow and shrink resize a   *)
(* step.  The value of a metric is a set: empty before anything has been   *)
(* recorded (None), and then the singleton of the number.                  *)
(***************************************************************************)
EXTENDS Integers

Comparisons == {"<", "<=", ">", ">="}

(***************************************************************************)
(* when: a comparison with the number "than", that number itself, no       *)
(* condition at all, the word "undefined", or any text the regular         *)
(* expression does not match ("==" among them).  repetitions count only    *)
(* where limited; backoff and size are negative where the config has null, *)
(* so a minSize below zero, which is no size, is not a rule here.          *)
(***************************************************************************)
RuleType(steps) ==
    [action : {"repeat", "grow", "shrink", "finish-workflow"}, metric : STRING, step : steps,
     when : Comparisons \cup {"number", "absent", "undefined", "malformed"}, than : Int,
     limited : BOOLEAN, repetitions : Nat, backoff : Int, minCompletions : Nat, size : Int]

\* Mutant: the repetitions left are not looked at.
MayTriggerAlways(r, left) == r.backoff < 0

\* Action.should_trigger: finished, or any backoff at all, stops the rule.
MayTrigger(r, left) == r.backoff < 0 /\ (r.limited = TRUE => left > 0)

\* The condition of "when" on a number.
Holds(r, n) ==
    CASE r.when = "<" -> n < r.than
      [] r.when = "<=" -> n <= r.than
      [] r.when = ">" -> n > r.than
      [] r.when = ">=" -> n >= r.than
      [] r.when = "number" -> n = r.than
      [] OTHER -> FALSE

\* Does Rule.should_trigger come to a call of perform?
Performs(r, left, value) ==
    /\ MayTrigger(r, left)
    /\ \/ r.when = "absent"
       \/ r.when = "undefined" /\ value = {}
       \/ \E n \in value : Holds(r, n)

\* Rule.should_trigger: perform returns None, so only a comparison gives True.
Triggers(r, left, value) == r.when \in Comparisons /\ Performs(r, left, value)

\* Action.perform; perform_backoff is not reached, a rule with a backoff never gets here.
LeftAfter(r, left, value) ==
    IF r.limited = TRUE /\ Performs(r, left, value) THEN left - 1 ELSE left

\* check_when evaluates the rule with the value 10, unless "when" is a natural number.
Trial == {10}
LoadedLeft(r) ==
    IF r.when = "number" /\ r.than >= 0 THEN r.repetitions
    ELSE LeftAfter(r, r.repetitions, Trial)

\* check_when raises where the trial reaches the regular expression with no match.
IsValid(r) == r.when \in {"undefined", "malformed"} => ~ MayTrigger(r, r.repetitions)

\* trigger_grow compares with a maxSize of None.
GrowRaises(r) == r.action = "grow" /\ r.size < 0

\* Mutant: shrink stops one node below its least size.
ResizedTooSmall(r, n) ==
    CASE r.action = "grow" /\ n + 1 < r.size -> n + 1
      [] r.action = "shrink" /\ n >= (IF r.size > 0 THEN r.size ELSE 1) -> n - 1
      [] OTHER -> n

\* trigger_grow and trigger_shrink on n nodes; a minSize of None or 0 is 1.
Resized(r, n) ==
    CASE r.action = "grow" /\ n + 1 < r.size -> n + 1
      [] r.action = "shrink" /\ n > (IF r.size > 0 THEN r.size ELSE 1) -> n - 1
      [] OTHER -> n
=============================================================================
