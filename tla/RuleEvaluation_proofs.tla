----------------------- MODULE RuleEvaluation_proofs -----------------------
(***************************************************************************)
(* The repetitions of a rule are a limit and the size of a step stays in   *)
(* range, for every set of valid rules, every metric and any number of     *)
(* evaluations.                                                            *)
(***************************************************************************)
EXTENDS RuleEvaluation, TLAPS

Types ==
    /\ left \in [Rules -> Nat]
    /\ nnodes \in Nat \ {0}
    /\ acted \in [Rules -> Nat]

\* What the assumption on the rules says of the fields the proofs use.
LEMMA RuleFields ==
    ASSUME NEW r \in Rules
    PROVE  /\ r.limited \in BOOLEAN
           /\ r.repetitions \in Nat
           /\ r.size \in Int
           /\ r.action \in {"repeat", "grow", "shrink", "finish-workflow"}
  BY StepRulesAssumption DEF RuleType

(***************************************************************************)
(* perform takes one repetition at most, and only where should_trigger has *)
(* found one; a rule that triggers with limited repetitions takes one.     *)
(***************************************************************************)
LEMMA LeftAfterBound ==
    ASSUME NEW r \in Rules, NEW n \in Nat, NEW value
    PROVE  /\ LeftAfter(r, n, value) \in Nat
           /\ LeftAfter(r, n, value) <= n
           /\ r.limited = TRUE /\ Triggers(r, n, value) => LeftAfter(r, n, value) = n - 1 /\ n > 0
<1>1. r.limited = TRUE /\ Performs(r, n, value) => n > 0
  BY DEF Performs, MayTrigger
<1>2. Triggers(r, n, value) => Performs(r, n, value)
  BY DEF Triggers
<1>3. QED
  BY <1>1, <1>2 DEF LeftAfter

\* One grow or shrink keeps a positive size positive, within the rule's own limit.
LEMMA ResizedBound ==
    ASSUME NEW r \in Rules, NEW n \in Nat, n >= 1
    PROVE  /\ Resized(r, n) \in Nat
           /\ Resized(r, n) >= 1
           /\ \/ Resized(r, n) = n
              \/ Resized(r, n) = n + 1 /\ r.action = "grow" /\ n + 1 < r.size
              \/ Resized(r, n) = n - 1 /\ r.action = "shrink" /\ n - 1 >= r.size
  BY RuleFields DEF Resized

\* An evaluation takes the action of its rule once, if the rule triggers, or none.
LEMMA ActedOnce ==
    ASSUME NEW r \in Rules, NEW value, NEW enough \in BOOLEAN, Evaluate(r, value, enough)
    PROVE  \/ /\ acted' = [acted EXCEPT ![r] = @ + 1]
              /\ Triggers(r, left[r], value)
              /\ nnodes' = Resized(r, nnodes)
           \/ acted' = acted /\ nnodes' = nnodes
<1>1. CASE Triggers(r, left[r], value)
  BY <1>1 DEF Evaluate, Act
<1>2. CASE ~ Triggers(r, left[r], value)
  BY <1>2 DEF Evaluate
<1>3. QED
  BY <1>1, <1>2

(***************************************************************************)
(* The repetitions left stay natural numbers and nnodes stays a size:      *)
(* should_trigger looks before perform counts down.                        *)
(***************************************************************************)
LEMMA TypesHold == Spec => []Types
<1>1. Init => Types
  <2> SUFFICES ASSUME Init
               PROVE  Types
    OBVIOUS
  <2>1. \A r \in Rules : LoadedLeft(r) \in Nat
    BY RuleFields, LeftAfterBound DEF LoadedLeft
  <2>2. QED
    BY <2>1, RunAssumption DEF Init, Types
<1>2. Types /\ [Next]_vars => Types'
  <2> SUFFICES ASSUME Types, [Next]_vars
               PROVE  Types'
    OBVIOUS
  <2>1. ASSUME NEW r \in Rules, NEW value, NEW enough \in BOOLEAN, Evaluate(r, value, enough)
        PROVE  Types'
    <3>1. left' \in [Rules -> Nat]
      <4>1. LeftAfter(r, left[r], value) \in Nat
        BY LeftAfterBound DEF Types
      <4>2. QED
        BY <2>1, <4>1 DEF Evaluate, Types
    <3>2. nnodes' \in Nat \ {0}
      <4>1. nnodes' = nnodes \/ nnodes' = Resized(r, nnodes)
        BY <2>1 DEF Evaluate, Act
      <4>2. QED
        BY <4>1, ResizedBound DEF Types
    <3>3. acted' \in [Rules -> Nat]
      <4>1. acted' = acted \/ acted' = [acted EXCEPT ![r] = @ + 1]
        BY <2>1, ActedOnce
      <4>2. QED
        BY <4>1 DEF Types
    <3>4. QED
      BY <3>1, <3>2, <3>3 DEF Types
  <2>2. CASE UNCHANGED vars
    BY <2>2 DEF vars, Types
  <2>3. QED
    BY <2>1, <2>2 DEF Next, Rest
<1>3. QED
  BY <1>1, <1>2, PTL DEF Spec

\* The repetitions of a rule are a limit on its actions, however often it is evaluated.
THEOREM RepetitionsBounded == Spec => []RepetitionsBound
<1>1. Init => RepetitionsBound
  <2> SUFFICES ASSUME Init, NEW r \in Rules, r.limited = TRUE
               PROVE  left[r] >= 0 /\ acted[r] + left[r] <= r.repetitions
    BY DEF RepetitionsBound
  <2>0. /\ r.repetitions \in Nat
        /\ LeftAfter(r, r.repetitions, Trial) \in Nat
        /\ LeftAfter(r, r.repetitions, Trial) <= r.repetitions
    BY RuleFields, LeftAfterBound
  <2>1. LoadedLeft(r) \in Nat /\ LoadedLeft(r) <= r.repetitions
    BY <2>0 DEF LoadedLeft
  <2>2. left[r] = LoadedLeft(r) /\ acted[r] = 0
    BY DEF Init
  <2>3. QED
    BY <2>0, <2>1, <2>2
<1>2. Types /\ RepetitionsBound /\ [Next]_vars => RepetitionsBound'
  <2> SUFFICES ASSUME Types, RepetitionsBound, [Next]_vars
               PROVE  RepetitionsBound'
    OBVIOUS
  <2>1. ASSUME NEW e \in Rules, NEW value, NEW enough \in BOOLEAN, Evaluate(e, value, enough)
        PROVE  RepetitionsBound'
    <3> SUFFICES ASSUME NEW r \in Rules, r.limited = TRUE
                 PROVE  left'[r] >= 0 /\ acted'[r] + left'[r] <= r.repetitions
      BY DEF RepetitionsBound
    <3>1. /\ left[r] \in Nat /\ acted[r] \in Nat /\ r.repetitions \in Nat
          /\ acted[r] + left[r] <= r.repetitions
      BY RuleFields DEF Types, RepetitionsBound
    <3>2. CASE r # e
      <4>1. left'[r] = left[r] /\ acted'[r] = acted[r]
        BY <2>1, <3>2, ActedOnce DEF Evaluate, Types
      <4>2. QED
        BY <3>1, <4>1
    <3>3. CASE r = e
      <4>1. left'[r] = LeftAfter(r, left[r], value)
        BY <2>1, <3>3 DEF Evaluate, Types
      <4>2. \/ acted'[r] = acted[r]
            \/ acted'[r] = acted[r] + 1 /\ Triggers(r, left[r], value)
        BY <2>1, <3>3, ActedOnce DEF Types
      <4>3. /\ LeftAfter(r, left[r], value) \in Nat
            /\ LeftAfter(r, left[r], value) <= left[r]
            /\ Triggers(r, left[r], value) => LeftAfter(r, left[r], value) = left[r] - 1
        BY <3>1, LeftAfterBound
      <4>4. CASE acted'[r] = acted[r]
        BY <3>1, <4>1, <4>3, <4>4
      <4>5. CASE acted'[r] = acted[r] + 1 /\ Triggers(r, left[r], value)
        BY <3>1, <4>1, <4>3, <4>5
      <4>6. QED
        BY <4>2, <4>4, <4>5
    <3>4. QED
      BY <3>2, <3>3
  <2>2. CASE UNCHANGED vars
    BY <2>2 DEF vars, RepetitionsBound
  <2>3. QED
    BY <2>1, <2>2 DEF Next, Rest
<1>3. QED
  BY <1>1, <1>2, TypesHold, PTL DEF Spec

(***************************************************************************)
(* However grow and shrink rules are mixed, the size of the step stays at  *)
(* least one and within the limit of a rule that has moved it.             *)
(***************************************************************************)
THEOREM SizeInRange == Spec => []SizeStaysInRange
<1>1. Init => SizeStaysInRange
  BY RunAssumption DEF Init, SizeStaysInRange
<1>2. Types /\ SizeStaysInRange /\ [Next]_vars => SizeStaysInRange'
  <2> SUFFICES ASSUME Types, SizeStaysInRange, [Next]_vars
               PROVE  SizeStaysInRange'
    OBVIOUS
  <2>0. nnodes \in Nat /\ nnodes >= 1 /\ StartNodes \in Nat
    BY RunAssumption DEF Types, SizeStaysInRange
  <2>1. ASSUME NEW e \in Rules, NEW value, NEW enough \in BOOLEAN, Evaluate(e, value, enough)
        PROVE  SizeStaysInRange'
    <3>1. \A r \in Rules : acted[r] > 0 => acted'[r] > 0
      BY <2>1, ActedOnce DEF Types
    <3>2. CASE nnodes' = nnodes
      BY <3>1, <3>2 DEF SizeStaysInRange
    <3>3. CASE nnodes' # nnodes
      <4>1. nnodes' = Resized(e, nnodes) /\ acted'[e] > 0
        BY <2>1, <3>3, ActedOnce DEF Types
      <4>2. CASE nnodes' = nnodes + 1 /\ e.action = "grow" /\ nnodes + 1 < e.size
        <5>1. \A r \in Rules : r.size \in Int
          BY RuleFields
        <5>2. QED
          BY <2>0, <3>1, <4>1, <4>2, <5>1 DEF SizeStaysInRange
      <4>3. CASE nnodes' = nnodes - 1 /\ e.action = "shrink" /\ nnodes - 1 >= e.size
        <5>1. \A r \in Rules : r.size \in Int
          BY RuleFields
        <5>2. nnodes' >= 1
          BY <2>0, <4>1, ResizedBound
        <5>3. QED
          BY <2>0, <3>1, <4>1, <4>3, <5>1, <5>2 DEF SizeStaysInRange
      <4>4. QED
        BY <2>0, <3>3, <4>1, <4>2, <4>3, ResizedBound
    <3>4. QED
      BY <3>2, <3>3
  <2>2. CASE UNCHANGED vars
    BY <2>2 DEF vars, SizeStaysInRange
  <2>3. QED
    BY <2>1, <2>2 DEF Next, Rest
<1>3. QED
  BY <1>1, <1>2, TypesHold, PTL DEF Spec
=============================================================================
