SPECIFICATION Spec
CONSTANTS
    Rules <- MixedRules
    Numbers = {10, 20, 30, 50}
    StartNodes = 3
    MaxEvaluations = 6
INVARIANTS
    RepetitionsBound SizeStaysInRange
