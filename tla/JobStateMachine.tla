-------------------------- MODULE JobStateMachine --------------------------
(***************************************************************************)
(* The state machine of one job sequence (machine/machine.py): a chain     *)
(* start -> step 1 -> ... -> step n -> complete, driven by the single      *)
(* event "change".  The machine object is a value here: the manager holds  *)
(* one per tracked sequence and every method is an operator on it.         *)
(***************************************************************************)
EXTENDS Naturals

CONSTANTS
    NumSteps,     \* the length of the workflow's list of jobs
    NamesMatch    \* does python-statemachine's State equal, and print as, its id?

ASSUME NumStepsAssumption == NumSteps \in Nat \ {0}
ASSUME NamesMatchAssumption == NamesMatch \in BOOLEAN

Steps == 1 .. NumSteps
Start == 0
Complete == NumSteps + 1

(***************************************************************************)
(* current is current_state.id; success and repeat are the steps whose     *)
(* <step>_success and <step>_repeat flags are True.  The start_ and        *)
(* complete_ flags are written too but nothing reads them, and the         *)
(* <step>_failure flag is only written on a machine that fail_job drops    *)
(* before it returns.                                                      *)
(***************************************************************************)
Machine == [current : Start .. Complete, success : SUBSET Steps, repeat : SUBSET Steps]

NewMachine == [current |-> Start, success |-> {}, repeat |-> {}]

IsRepeating(m) == m.current \in m.repeat

Repeat(m, step) == [m EXCEPT !.repeat = @ \cup {step}]

MarkSucceeded(m) ==
    IF IsRepeating(m) THEN m ELSE [m EXCEPT !.success = @ \cup ({m.current} \cap Steps)]

(***************************************************************************)
(* mark_running walks the State objects and compares each with a step      *)
(* NAME, then marks flags called after str(State).  With a library whose   *)
(* State never equals a string and prints as a capitalised title, no flag  *)
(* that anything reads is set; NamesMatch is the library that would make   *)
(* the loop do what its docstring says.                                    *)
(***************************************************************************)
MarkRunning(m, step) ==
    IF NamesMatch THEN [m EXCEPT !.success = @ \cup 1 .. (step - 1)] ELSE m

\* The transitions of "change" are tried in order: the self loop comes first.
CanChange(m) ==
    \/ m.current = Start
    \/ m.current \in Steps /\ (IsRepeating(m) \/ m.current \in m.success)

\* Mutant: the self loop of a step flagged for repetition is missing.
ChangeForward(m) == [m EXCEPT !.current = @ + 1]

Change(m) == [m EXCEPT !.current = IF IsRepeating(m) THEN @ ELSE @ + 1]

\* on_change, run on entering a step: submit unless the step is flagged done.
Submits(m) == m.current \in Steps \ m.success

UnmarkRepeatable(m) == [m EXCEPT !.repeat = @ \ {m.current}]
=============================================================================
