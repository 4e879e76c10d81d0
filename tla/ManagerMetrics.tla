--------------------------- MODULE ManagerMetrics ---------------------------
(***************************************************************************)
(* The workflow manager with its metrics.  WorkflowManager lets a rule     *)
(* read any value; here update_metrics counts each completion it is told   *)
(* of, records its duration, and reads and parses the Job's log through    *)
(* the tracker of the step its machine stands at, and the rules read what  *)
(* has been recorded.                                                      *)
(***************************************************************************)
EXTENDS WorkflowManager

CONSTANTS
    Series,       \* Series[k]: what metric k is of: "success", "failure", "duration", "custom"
    Statistics,   \* the numbers a statistic may come to
    Parsers       \* the steps with an events script, which parses their logs

ASSUME SeriesAssumption == Series \in [Metrics -> {"success", "failure", "duration", "custom"}]
ASSUME StatisticsAssumption == Statistics \subseteq Numbers
ASSUME ParsersAssumption == Parsers \subseteq Steps

VARIABLES
    metrics,   \* [step][series]: how many data its models have
    ended      \* [step]: how many of its Jobs have succeeded, a history

metricVars == <<metrics, ended>>

NoMetrics == [s \in Steps |-> [success |-> 0, failure |-> 0, duration |-> 0, custom |-> 0]]

MetricsInit ==
    /\ Init
    /\ metrics = NoMetrics
    /\ ended = [s \in Steps |-> 0]

-----------------------------------------------------------------------------
\* increment_counter and add_model_entry: one more datum in a series of step s.
Recorded(m, s, series) == [m EXCEPT ![s][series] = @ + 1]

Duration(s, st) == IF IsCompleted(st) THEN Recorded(metrics, s, "duration") ELSE metrics

\* Mutant: whatever has not failed is counted as a success.
CountedElse(s, st) ==
    IF IsFailed(st) THEN Recorded(Duration(s, st), s, "failure")
    ELSE Recorded(Duration(s, st), s, "success")

\* The counters, after the event of a Job of step s with status st.
Counted(s, st) ==
    IF IsFailed(st) THEN Recorded(Duration(s, st), s, "failure")
    ELSE IF IsSucceeded(st) THEN Recorded(Duration(s, st), s, "success")
    ELSE Duration(s, st)

\* get_metric_events: the log parsed by the script of step t, recorded under t.
ParsedLog(t, m) == IF t \in Parsers THEN Recorded(m, t, "custom") ELSE m

(***************************************************************************)
(* post_completion and load_custom_metrics: the tracker of step t, where   *)
(* the machine stands, saves the log.  "complete" for a step, pods that    *)
(* are gone and a log that cannot be read or parsed leave nothing, and     *)
(* there is no second try.                                                 *)
(***************************************************************************)
SaveLog(t, st, counted) ==
    \/ metrics' = counted
    \/ IsCompleted(st) /\ metrics' = ParsedLog(t, counted)

\* Mutant: the log is saved after the machine has changed.
UpdateMetricsLate(id, s) ==
    LET st == Head(stream[id][s]) IN SaveLog(sm'[id].current, st, Counted(s, st))

UpdateMetrics(id, s) ==
    LET st == Head(stream[id][s]) IN SaveLog(sm[id].current, st, Counted(s, st))

\* model[step][key].get(): a counter's value is its count, a statistic's is any.
Reads(k, s, value) ==
    LET n == metrics'[s][Series[k]] IN
    IF n = 0 THEN value = {}
    ELSE IF Series[k] \in {"success", "failure"} THEN value = {n}
    ELSE \E x \in Statistics : value = {x}

HandleWithMetrics(id, s) ==
    /\ HandleEvent(id, s)
    /\ UpdateMetrics(id, s)
    /\ \A r \in Rules : r.step = s => Reads(r.metric, s, event'.value[r.metric])
    /\ UNCHANGED ended

JobEnds(id, s) ==
    /\ JobProgress(id, s)
    /\ ended' = IF IsSucceeded(cluster'[id][s]) THEN [ended EXCEPT ![s] = @ + 1] ELSE ended
    /\ UNCHANGED metrics

\* Metrics are lost with the process.
Elsewhere ==
    /\ Step \/ Crash \/ UncaughtError
    /\ metrics' = IF pc' \in {"down", "died"} THEN NoMetrics ELSE metrics
    /\ UNCHANGED ended

MetricsNext ==
    \/ Elsewhere
    \/ \E id \in JobIds, s \in Steps : HandleWithMetrics(id, s) \/ JobEnds(id, s)
    \/ /\ SleepInfinity \/ \E id \in JobIds, s \in Steps : IgnoreEvent(id, s) \/ Touch(id, s)
       /\ UNCHANGED metricVars

MetricsSpec == MetricsInit /\ [][MetricsNext]_<<vars, metricVars>>

-----------------------------------------------------------------------------
(* Properties.                                                             *)

\* The events of a success of step s that the watch has yet to deliver.
Awaiting(s) ==
    UNION {{id} \X {i \in DOMAIN stream[id][s] : IsSucceeded(stream[id][s][i])} : id \in JobIds}

(***************************************************************************)
(* What the rules count is true: while the manager watches, each Job that  *)
(* succeeded has been counted exactly once for its step or its event is    *)
(* still to come, repeated steps and Jobs that end before the watch opens  *)
(* included.                                                               *)
(***************************************************************************)
CountsExact ==
    watching => \A s \in Steps : metrics[s].success + Cardinality(Awaiting(s)) = ended[s]

(***************************************************************************)
(* A log is parsed by the script of its own Job's step: no step has more   *)
(* custom metrics than completed Jobs, although post_completion picks the  *)
(* tracker by the machine's state and not by the Job.                      *)
(***************************************************************************)
LogsOfOwnStep == \A s \in Steps : metrics[s].custom <= metrics[s].duration
=============================================================================
