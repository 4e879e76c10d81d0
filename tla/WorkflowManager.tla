-------------------------- MODULE WorkflowManager --------------------------
(***************************************************************************)
(* The workflow manager (manager/manager.py) driving job sequences through *)
(* a Kubernetes cluster: the Jobs and the ConfigMaps it creates, the watch *)
(* stream that tells it of their changes, its program counter, one state   *)
(* machine per tracked sequence, and the faults it meets.  A handler is    *)
(* split only where it makes a separate call to the API server, because    *)
(* the cluster may move between two calls.                                 *)
(***************************************************************************)
EXTENDS KubernetesJobs, EventRules, Sequences

CONSTANTS
    Kind,            \* Kind[s]: is step s a "job", a "jobset" or a "minicluster"?
    Nodes,           \* Nodes[s]: nnodes of step s in the workflow's config
    AlwaysSucceed,   \* the steps labelled always-succeed
    RetryFailure,    \* retry_failure: does the Job controller replace failed pods?
    Rules,           \* the workflow's events (config/types.py)
    Numbers,         \* the values a metric may have
    FreshIds,        \* does every random draw give an id never drawn before?
    MaxCrashes, MaxTouches, MaxFailures, MaxErrors   \* bounds on the environment

ASSUME KindAssumption == Kind \in [Steps -> {"job", "jobset", "minicluster"}]
ASSUME NodesAssumption == Nodes \in [Steps -> Nat \ {0}]
ASSUME FlagsAssumption ==
    AlwaysSucceed \subseteq Steps /\ RetryFailure \in BOOLEAN /\ FreshIds \in BOOLEAN
ASSUME RulesAssumption == \A r \in Rules : r \in RuleType(Steps) /\ IsValid(r)
ASSUME NumbersAssumption == Numbers \subseteq Int
ASSUME BoundsAssumption ==
    /\ MaxCrashes \in Nat
    /\ MaxTouches \in Nat
    /\ MaxFailures \in Nat
    /\ MaxErrors \in Nat

VARIABLES
    (* the cluster, external to the manager *)
    cluster,    \* [id][step]: status of the Job, "none" when there is none
    script,     \* [id]: the step whose script the ConfigMap of id holds, 0 when none
    stream,     \* [id][step]: the statuses the watch has yet to deliver, oldest first
    (* the manager process *)
    pc,         \* where the manager is
    watching,   \* is the watch on Jobs open?
    tracked,    \* the keys of self.trackers
    sm,         \* [id]: the state machine of a tracked sequence
    resume,     \* init_state: the finished Jobs, <<id, step>>, still to be looked at
    event,      \* the event in hand: its step, the is_repeating snapshot, the metrics' values
    due,        \* check_workflow_metrics: the rules still to be evaluated
    batch,      \* new_jobs: the sequences still to be submitted
    left,       \* [rule]: repetitions left
    nnodes,     \* [step]: nnodes after grow and shrink
    (* history and bounds *)
    done,       \* [id]: the steps whose Job has succeeded at some time
    used,       \* the ids ever drawn
    faults      \* how often each fault has happened

clusterVars == <<cluster, script, stream, done>>
machineVars == <<tracked, sm>>
loopVars == <<resume, event, due, batch>>
configVars == <<left, nnodes>>
vars == <<clusterVars, pc, watching, machineVars, loopVars, configVars, used, faults>>

NoStream == [id \in JobIds |-> [s \in Steps |-> << >>]]
LoadedRules == [r \in Rules |-> LoadedLeft(r)]

\* A metric has no value until something is recorded for it.
Metrics == {r.metric : r \in Rules}
Values == {{}} \cup {{n} : n \in Numbers}
NoEvent == [step |-> 1, repeating |-> FALSE, value |-> [k \in Metrics |-> {}]]

Init ==
    /\ cluster = [id \in JobIds |-> [s \in Steps |-> "none"]]
    /\ script = [id \in JobIds |-> 0]
    /\ stream = NoStream
    /\ pc = "down"
    /\ watching = FALSE
    /\ tracked = {}
    /\ sm = [id \in JobIds |-> NewMachine]
    /\ resume = {}
    /\ event = NoEvent
    /\ due = {}
    /\ batch = 0
    /\ left = LoadedRules
    /\ nnodes = Nodes
    /\ done = [id \in JobIds |-> {}]
    /\ used = {}
    /\ faults = [crash |-> 0, touch |-> 0, failure |-> 0, error |-> 0]

-----------------------------------------------------------------------------
(* The cluster.                                                            *)

Fault(kind) == faults' = [faults EXCEPT ![kind] = @ + 1]

\* The Job of (id, s) takes status st; an open watch, which holds q, is told.
SetStatus(id, s, st, q) ==
    /\ cluster' = [cluster EXCEPT ![id][s] = st]
    /\ stream' = IF watching /\ IsListed(st) THEN [q EXCEPT ![id][s] = Append(@, st)] ELSE q
    /\ done' = IF st = "succeeded" THEN [done EXCEPT ![id] = @ \cup {s}] ELSE done

\* Deleting a Job says nothing: stream_events skips DELETED.
DeleteJob(id, s, q) ==
    /\ cluster' = [cluster EXCEPT ![id][s] = "none"]
    /\ stream' = q
    /\ UNCHANGED done

\* What the Job controller may do next with a Job; failed pods are replaced
\* only under a backoff limit (retry_failure).
Successors(st) ==
    CASE st = "requested" -> {"queued"}
      [] st = "queued" -> {"running"}
      [] st = "running" -> {"succeeded", "failed"} \cup (IF RetryFailure THEN {"retrying"} ELSE {})
      [] st = "failed" -> IF RetryFailure THEN {"retrying"} ELSE {}
      [] st = "retrying" -> {"recovered", "failed"}
      [] OTHER -> {}

JobProgress(id, s) ==
    /\ \E st \in Successors(cluster[id][s]) :
          /\ SetStatus(id, s, st, stream)
          /\ IF HasFailedPods(st) /\ ~ IsCompleted(st)
             THEN faults.failure < MaxFailures /\ Fault("failure")
             ELSE UNCHANGED faults
    /\ UNCHANGED <<script, pc, watching, machineVars, loopVars, configVars, used>>

\* Any other write to a Job (a label, an annotation, a finalizer) delivers
\* its unchanged status once more.
Touch(id, s) ==
    /\ watching
    /\ IsListed(cluster[id][s])
    /\ faults.touch < MaxTouches
    /\ Fault("touch")
    /\ SetStatus(id, s, cluster[id][s], stream)
    /\ UNCHANGED <<script, pc, watching, machineVars, loopVars, configVars, used>>

-----------------------------------------------------------------------------
(* submit_job of a tracker and submit of its Kubernetes adapter.  The      *)
(* ConfigMap is written first, over any earlier one of the same sequence.  *)

\* Mutant: a ConfigMap that exists is left as it is.
KeepScript(id, s) == IF script[id] = 0 THEN [script EXCEPT ![id] = s] ELSE script

WriteScript(id, s) == [script EXCEPT ![id] = s]

\* A batch Job is there at once; for the others another controller creates it.
FirstStatus(s) == IF Kind[s] = "job" THEN "queued" ELSE "requested"

SubmitOK(id, s, repeat, q) ==
    /\ \/ cluster[id][s] = "none" /\ ~ (repeat /\ Kind[s] # "minicluster")
       \/ repeat /\ Kind[s] = "jobset" /\ cluster[id][s] # "none"
    /\ script' = WriteScript(id, s)
    /\ SetStatus(id, s, FirstStatus(s), q)
    /\ UNCHANGED faults

\* Mutant: a Job that exists already is cleaned up as after any other error.
SubmitConflictCleans(id, s, repeat, q) ==
    /\ cluster[id][s] # "none"
    /\ script' = [script EXCEPT ![id] = 0]
    /\ DeleteJob(id, s, q)
    /\ UNCHANGED faults

(***************************************************************************)
(* The name is taken.  A replaced JobSet is deleted in the background, so  *)
(* the create that follows may find it and the Job goes all the same.      *)
(***************************************************************************)
SubmitConflict(id, s, repeat, q) ==
    /\ cluster[id][s] # "none"
    /\ ~ (repeat /\ Kind[s] = "job")
    /\ script' = WriteScript(id, s)
    /\ IF repeat /\ Kind[s] = "jobset"
       THEN DeleteJob(id, s, q)
       ELSE stream' = q /\ UNCHANGED <<cluster, done>>
    /\ UNCHANGED faults

(***************************************************************************)
(* Any other answer: cleanup deletes the ConfigMap and the batch Job of    *)
(* that name (a JobSet's Job has another).  Replacing a plain Job always   *)
(* ends here, delete_namespaced_job gets its arguments the wrong way       *)
(* round; so does replacing a JobSet that does not exist.  One that does   *)
(* is gone if its deletion was answered and only the create failed.        *)
(***************************************************************************)
SubmitError(id, s, repeat, q) ==
    /\ IF \/ repeat /\ Kind[s] = "job"
          \/ repeat /\ Kind[s] = "jobset" /\ cluster[id][s] = "none"
       THEN UNCHANGED faults
       ELSE faults.error < MaxErrors /\ Fault("error")
    /\ script' = [script EXCEPT ![id] = 0]
    /\ \/ Kind[s] = "jobset" /\ stream' = q /\ UNCHANGED <<cluster, done>>
       \/ (Kind[s] = "jobset" => repeat) /\ DeleteJob(id, s, q)

SubmitJob(id, s, repeat, q) ==
    \/ SubmitOK(id, s, repeat, q)
    \/ SubmitConflict(id, s, repeat, q)
    \/ SubmitError(id, s, repeat, q)

\* change() on machine m of sequence id: the transition and what on_change does.
\* Where no transition is open change() raises; a machine never gets there.
EnterNext(id, m, q) ==
    LET entered == Change(m) IN
    /\ CanChange(m)
    /\ IF Submits(entered)
       THEN /\ SubmitJob(id, entered.current, IsRepeating(entered), q)
            /\ sm' = [sm EXCEPT ![id] = UnmarkRepeatable(entered)]
       ELSE /\ sm' = [sm EXCEPT ![id] = entered]
            /\ stream' = q
            /\ UNCHANGED <<cluster, script, done, faults>>

-----------------------------------------------------------------------------
(* start: init_state, check_complete, new_jobs, watch.                     *)

\* init_state: the listing, and a machine for every queued or running Job.
InitState ==
    LET live(id) == {s \in Steps : Unfinished(cluster[id][s])} IN
    /\ pc = "down"
    /\ tracked' = {id \in JobIds : live(id) # {}}
    /\ sm' = [id \in JobIds |->
                 [NewMachine EXCEPT !.success =
                     UNION {MarkRunning(NewMachine, s).success : s \in live(id)}]]
    /\ resume' = {p \in (JobIds \ tracked') \X Steps :
                     p[2] # NumSteps /\ InSuccess(cluster[p[1]][p[2]])}
    /\ pc' = "resume"
    /\ UNCHANGED <<clusterVars, watching, event, due, batch, configVars, used, faults>>

\* init_state: a sequence with a finished step is moved to step 1 and tracked;
\* its other finished Jobs are then passed over.
ResumeSequence(id, s) ==
    /\ pc = "resume"
    /\ <<id, s>> \in resume
    /\ EnterNext(id, MarkRunning(NewMachine, s), stream)
    /\ tracked' = tracked \cup {id}
    /\ resume' = {p \in resume : p[1] # id}
    /\ UNCHANGED <<pc, watching, event, due, batch, configVars, used>>

\* The ConfigMap cannot be written, after an older one may have been deleted.
ConfigMapFails(id) == script' = script \/ script' = [script EXCEPT ![id] = 0]

\* init_state logs the exception and goes on to the next finished Job.
ResumeFails(id, s) ==
    /\ pc = "resume"
    /\ <<id, s>> \in resume
    /\ faults.error < MaxErrors
    /\ Fault("error")
    /\ ConfigMapFails(id)
    /\ resume' = resume \ {<<id, s>>}
    /\ UNCHANGED <<cluster, stream, done, pc, watching, machineVars, event, due, batch,
                   configVars, used>>

ResumeDone ==
    /\ pc = "resume"
    /\ resume = {}
    /\ pc' = "check"
    /\ UNCHANGED <<clusterVars, watching, machineVars, loopVars, configVars, used, faults>>

\* complete_workflow: the watch is dropped with the process.
Exit(how) ==
    /\ pc' = how
    /\ watching' = FALSE
    /\ stream' = NoStream
    /\ due' = {}
    /\ UNCHANGED <<cluster, script, done, machineVars, resume, event, batch, nnodes, used, faults>>

\* check_complete, alone in start and, in the watch loop, followed by the rules.
CheckComplete ==
    /\ pc = "check"
    /\ \/ /\ Cardinality(Completions(cluster)) >= CompletionsNeeded
          /\ Exit("exited")
          /\ UNCHANGED left
       \/ /\ Cardinality(Completions(cluster)) < CompletionsNeeded
          /\ pc' = IF watching THEN "rules" ELSE "new"
          /\ due' = {r \in Rules : watching /\ r.step = event.step /\ r.action # "repeat"}
          /\ UNCHANGED <<clusterVars, watching, machineVars, resume, event, batch,
                         configVars, used, faults>>

\* The listing of new_jobs.
NewJobs ==
    /\ pc = "new"
    /\ batch' = SubmitCount(cluster, nnodes[1])
    /\ pc' = "submit"
    /\ UNCHANGED <<clusterVars, watching, machineVars, resume, event, due, configVars, used, faults>>

\* One turn of the loop of new_jobs: generate_id, a new machine, change().
SubmitSequence(id) ==
    /\ pc = "submit"
    /\ batch > 0
    /\ id \notin tracked
    /\ FreshIds => id \notin used
    /\ EnterNext(id, NewMachine, stream)
    /\ tracked' = tracked \cup {id}
    /\ used' = used \cup {id}
    /\ batch' = batch - 1
    /\ UNCHANGED <<pc, watching, resume, event, due, configVars>>

\* Back to the stream; the first time the watch opens and replays every Job.
Watch ==
    /\ pc = "submit"
    /\ batch = 0
    /\ pc' = "watch"
    /\ watching' = TRUE
    /\ stream' = IF watching THEN stream
                 ELSE [id \in JobIds |-> [s \in Steps |->
                          IF IsListed(cluster[id][s]) THEN <<cluster[id][s]>> ELSE << >>]]
    /\ UNCHANGED <<cluster, script, done, machineVars, loopVars, configVars, used, faults>>

-----------------------------------------------------------------------------
(* The watch loop: one event, then check_complete, the workflow rules and  *)
(* new_jobs.                                                               *)

Deliver(id, s) == [stream EXCEPT ![id][s] = Tail(@)]

\* Not a sequence of this manager, or a Job that is still running.
Ignored(id, st) == id \notin tracked \/ (IsActive(st) /\ ~ IsCompleted(st))

IgnoreEvent(id, s) ==
    /\ pc = "watch"
    /\ stream[id][s] # << >>
    /\ Ignored(id, Head(stream[id][s]))
    /\ stream' = Deliver(id, s)
    /\ UNCHANGED <<cluster, script, done, pc, watching, machineVars, loopVars, configVars,
                   used, faults>>

(***************************************************************************)
(* check_state_machine_metrics: the repeat rules of the event's step.  The *)
(* values update_metrics has left are any; a rule spends a repetition even *)
(* when its minCompletions then stops it.                                  *)
(***************************************************************************)
RepeatRules(s) == {r \in Rules : r.action = "repeat" /\ r.step = s}

\* iter_triggers looks up the metrics of the event's step only.
Readings(s) ==
    {value \in [Metrics -> Values] : \A r \in Rules : r.step # s => value[r.metric] = {}}

Spent(evaluated, value) ==
    [r \in Rules |-> IF r \in evaluated THEN LeftAfter(r, left[r], value[r.metric]) ELSE left[r]]

Enough(r) == Cardinality(Completions(cluster)) >= r.minCompletions

\* Mutant: the step is marked but the machine is not told to change.
SucceedJobMarksOnly(id, m, st, q) ==
    /\ sm' = [sm EXCEPT ![id] = MarkSucceeded(m)]
    /\ stream' = q
    /\ UNCHANGED <<cluster, script, done, faults>>

\* succeed_job; the machine changes state only if the Job itself succeeded.
SucceedJob(id, m, st, q) ==
    IF IsSucceeded(st) /\ m.current # Complete
    THEN EnterNext(id, MarkSucceeded(m), q)
    ELSE /\ sm' = [sm EXCEPT ![id] = MarkSucceeded(m)]
         /\ stream' = q
         /\ UNCHANGED <<cluster, script, done, faults>>

\* fail_job: cleanup of a step's tracker is BaseTracker's, which does nothing.
FailJob(id, q) ==
    /\ tracked' = tracked \ {id}
    /\ sm' = [sm EXCEPT ![id] = NewMachine]
    /\ stream' = q
    /\ UNCHANGED <<cluster, script, done, faults>>

HandleEvent(id, s) ==
    LET st == Head(stream[id][s])
        q == Deliver(id, s)
    IN
    /\ pc = "watch"
    /\ stream[id][s] # << >>
    /\ ~ Ignored(id, st)
    /\ \E value \in Readings(s) :
          LET fires(r) == Triggers(r, left[r], value[r.metric]) /\ Enough(r)
              m == IF \E r \in RepeatRules(s) : fires(r) THEN Repeat(sm[id], s) ELSE sm[id]
          IN
          /\ left' = Spent(RepeatRules(s), value)
          /\ event' = [step |-> s, repeating |-> IsRepeating(m), value |-> value]
          /\ CASE IsSucceeded(st) \/ (IsFailed(st) /\ s \in AlwaysSucceed) ->
                     SucceedJob(id, m, st, q) /\ UNCHANGED tracked
               [] IsFailed(st) /\ s \notin AlwaysSucceed ->
                     FailJob(id, q)
               [] OTHER ->
                     /\ sm' = [sm EXCEPT ![id] = m]
                     /\ stream' = q
                     /\ UNCHANGED <<cluster, script, done, faults, tracked>>
    /\ pc' = "check"
    /\ UNCHANGED <<watching, resume, due, batch, nnodes, used>>

\* The process ends and everything but the cluster is lost with it.
ProcessLost ==
    /\ watching' = FALSE
    /\ stream' = NoStream
    /\ tracked' = {}
    /\ sm' = [id \in JobIds |-> NewMachine]
    /\ resume' = {}
    /\ event' = NoEvent
    /\ due' = {}
    /\ batch' = 0
    /\ left' = LoadedRules
    /\ nnodes' = Nodes
    /\ UNCHANGED <<cluster, done, used>>

\* check_workflow_metrics: one rule is evaluated and, if it triggers, acted on;
\* a grow without a maxSize ends the process.
EvaluateRule(r) ==
    LET value == event.value
        acts == Triggers(r, left[r], value[r.metric]) /\ Enough(r)
    IN
    /\ pc = "rules"
    /\ r \in due
    /\ \/ /\ ~ acts \/ (r.action \in {"grow", "shrink"} /\ ~ GrowRaises(r))
          /\ due' = due \ {r}
          /\ left' = Spent({r}, value)
          /\ nnodes' = IF acts THEN [nnodes EXCEPT ![r.step] = Resized(r, @)] ELSE nnodes
          /\ UNCHANGED <<clusterVars, pc, watching, machineVars, resume, event, batch,
                         used, faults>>
       \/ /\ acts /\ r.action = "finish-workflow"
          /\ left' = Spent({r}, value)
          /\ Exit("finished")
       \/ /\ acts /\ GrowRaises(r)
          /\ pc' = "died"
          /\ ProcessLost
          /\ UNCHANGED <<script, faults>>

\* A repeating step keeps its slot: no new sequences.
RulesDone ==
    /\ pc = "rules"
    /\ due = {}
    /\ pc' = IF event.repeating THEN "watch" ELSE "new"
    /\ event' = NoEvent
    /\ UNCHANGED <<clusterVars, watching, machineVars, resume, due, batch, configVars, used,
                   faults>>

-----------------------------------------------------------------------------
(* Faults of the manager's process, and the specification.                 *)

\* The pod goes, at any point, and its Deployment starts a new one.
Crash ==
    /\ pc # "down"
    /\ faults.crash < MaxCrashes
    /\ Fault("crash")
    /\ pc' = "down"
    /\ ProcessLost
    /\ UNCHANGED script

\* A listing, the watch or the ConfigMap of a submission answers with an error
\* that nothing catches: the process ends and its pod does not.
UncaughtError ==
    /\ pc \in {"down", "check", "rules", "new", "submit", "watch"}
    /\ faults.error < MaxErrors
    /\ Fault("error")
    /\ pc' = "died"
    /\ ProcessLost
    /\ \/ UNCHANGED script
       \/ pc \in {"submit", "watch"} /\ \E id \in JobIds : ConfigMapFails(id)

\* entrypoint.sh: when the manager has ended the container sleeps forever.
SleepInfinity ==
    /\ pc \in {"exited", "finished", "died"}
    /\ UNCHANGED vars

Step ==
    \/ InitState
    \/ \E id \in JobIds, s \in Steps : ResumeSequence(id, s) \/ ResumeFails(id, s)
    \/ \E id \in JobIds : SubmitSequence(id)
    \/ ResumeDone
    \/ CheckComplete
    \/ \E r \in Rules : EvaluateRule(r)
    \/ RulesDone
    \/ NewJobs
    \/ Watch

Receive(id, s) == IgnoreEvent(id, s) \/ HandleEvent(id, s)

Next ==
    \/ Step
    \/ \E id \in JobIds, s \in Steps : Receive(id, s) \/ JobProgress(id, s) \/ Touch(id, s)
    \/ Crash
    \/ UncaughtError
    \/ SleepInfinity

Spec == Init /\ [][Next]_vars

(***************************************************************************)
(* The manager is one running process; the watch is one ordered stream, so *)
(* no Job's events wait forever; Kubernetes eventually runs and ends Jobs. *)
(***************************************************************************)
Fairness ==
    /\ WF_vars(Step)
    /\ \A id \in JobIds, s \in Steps : WF_vars(Receive(id, s)) /\ WF_vars(JobProgress(id, s))

FairSpec == Spec /\ Fairness

-----------------------------------------------------------------------------
(* Properties.                                                             *)

\* Every variable holds a value of its type; the watch speaks only of Jobs that exist.
TypeOK ==
    /\ cluster \in [JobIds -> [Steps -> Status]]
    /\ script \in [JobIds -> 0 .. NumSteps]
    /\ stream \in [JobIds -> [Steps -> Seq({st \in Status : IsListed(st)})]]
    /\ pc \in {"down", "resume", "check", "rules", "new", "submit", "watch", "exited", "finished",
              "died"}
    /\ watching \in BOOLEAN
    /\ tracked \subseteq JobIds
    /\ sm \in [JobIds -> Machine]
    /\ resume \subseteq JobIds \X Steps
    /\ event \in [step : Steps, repeating : BOOLEAN, value : [Metrics -> Values]]
    /\ due \subseteq Rules
    /\ batch \in Nat
    /\ left \in [Rules -> Nat]
    /\ nnodes \in [Steps -> Nat \ {0}]
    /\ done \in [JobIds -> SUBSET Steps]
    /\ used \subseteq JobIds
    /\ faults \in [crash : Nat, touch : Nat, failure : Nat, error : Nat]

InOrder(id) ==
    \A s \in Steps : s > 1 /\ cluster[id][s] # "none" => s - 1 \in done[id]

(***************************************************************************)
(* A step's Job exists only if the Job of the step before it has           *)
(* succeeded: events applied to the wrong machine state, replays after a   *)
(* restart and resubmissions never run a step ahead of its turn.           *)
(***************************************************************************)
StepOrder == \A id \in JobIds : InOrder(id)

Occupies(st) == st \in {"requested", "queued", "running", "retrying"}

(***************************************************************************)
(* "submit jobs up to" max_size: the Jobs that hold or wait for nodes,     *)
(* with the sequences new_jobs is about to submit, fit the cluster,        *)
(* although new_jobs counted them in a listing that is stale by then.      *)
(***************************************************************************)
WithinMaxSize ==
    Cardinality({p \in JobIds \X Steps : Occupies(cluster[p[1]][p[2]])}) + batch <= MaxSize

(***************************************************************************)
(* new_jobs never starts more sequences than completions are needed: the   *)
(* completed, the active and those about to be submitted cover the need    *)
(* exactly once.                                                           *)
(***************************************************************************)
NoSurplus ==
    Cardinality(Completions(cluster)) + Cardinality(ActiveSequences(cluster)) + batch
        <= CompletionsNeeded

Awaited(id) ==
    \E s \in Steps :
        \/ Occupies(cluster[id][s])
        \/ \E i \in DOMAIN stream[id][s] : IsCompleted(stream[id][s][i])

(***************************************************************************)
(* A sequence that counts as active, and so holds a slot, is moving: the   *)
(* manager tracks it, and one of its Jobs is unfinished or the completion  *)
(* of one is still to be delivered by the watch.                           *)
(***************************************************************************)
NoStall ==
    pc = "watch" => \A id \in ActiveSequences(cluster) : id \in tracked /\ Awaited(id)

(***************************************************************************)
(* The steps of a sequence share one ConfigMap, which pods mount when they *)
(* start.  As long as a Job may still start pods, active ones included,    *)
(* for a pending pod is active, it holds the script of that Job's step.    *)
(***************************************************************************)
ScriptMatches ==
    \A id \in JobIds, s \in Steps : Occupies(cluster[id][s]) => script[id] = s

\* The sequences each of whose steps has run to its end.
Finished ==
    {id \in JobIds : \A s \in Steps : s \in done[id] \/ IsCompleted(cluster[id][s])}

\* The manager ends by check_complete only when enough sequences ran all their steps.
ExitSound == pc = "exited" => Cardinality(Finished) >= CompletionsNeeded

\* A finished Job is never deleted or replaced, so a completion stays one.
FinishedStays ==
    [][\A id \in JobIds, s \in Steps :
           IsCompleted(cluster[id][s]) => cluster'[id][s] = cluster[id][s]]_cluster

(***************************************************************************)
(* A step flagged for repetition runs again before the sequence moves on:  *)
(* whichever event arrives, a flagged machine never leaves its step.       *)
(***************************************************************************)
RepeatHolds ==
    [][\A id \in tracked \cap tracked' :
           IsRepeating(sm[id]) => sm'[id].current = sm[id].current]_<<tracked, sm>>

\* The workflow ends: failures are made up for by new sequences until enough are done.
Termination == <>(pc = "exited")

-----------------------------------------------------------------------------
(***************************************************************************)
(* Why StepOrder holds.  Nothing compares an event's step with the step a  *)
(* machine stands at, and after a restart the two differ; what keeps a     *)
(* machine from running ahead is that it moves at most once per completion *)
(* and gets no completion twice.  Credit(id) is the set of completions     *)
(* that may still move the machine of id; StepInv bounds it.               *)
(***************************************************************************)
HasSuccess(q) == \E i \in DOMAIN q : q[i] = "succeeded"
SuccessIsLast(q) == \A i \in DOMAIN q : q[i] = "succeeded" => i = Len(q)

Undelivered(id) == {s \in Steps : HasSuccess(stream[id][s])}

Credit(id) ==
    {s \in done[id] : \/ s \in Undelivered(id)
                      \/ cluster[id][s] \notin {"none", "succeeded"}
                      \/ s > sm[id].current /\ cluster[id][s] = "none"}

\* Succeeded steps form a prefix of the sequence, and done is their history.
DoneIsPrefix(id) ==
    \A s \in Steps :
        /\ s \in done[id] => \A t \in Steps : t < s => t \in done[id]
        /\ cluster[id][s] = "succeeded" => s \in done[id]

\* A completion in the stream is the last word on its Job.
CompletionIsLast(id) ==
    \A s \in Steps :
        /\ SuccessIsLast(stream[id][s])
        /\ s \in Undelivered(id) =>
               /\ s \in done[id]
               /\ cluster[id][s] \in {"none", "succeeded"}
               /\ id \in tracked /\ cluster[id][s] = "none" => s <= sm[id].current

\* Before the watch opens nothing is delivered and no machine is past the first step.
QuietStart(id) ==
    /\ ~ watching => \A s \in Steps : stream[id][s] = << >>
    /\ ~ watching /\ pc \notin {"exited", "finished"} /\ id \in tracked => sm[id].current <= 1

\* An id that was never drawn has left no trace.
FreshIsBlank(id) ==
    id \notin used =>
        /\ done[id] = {}
        /\ \A s \in Steps : cluster[id][s] = "none" /\ stream[id][s] = << >>

\* A machine and the completions that may still move it stay within the steps done.
CreditBound(id) ==
    id \in tracked => sm[id].current + Cardinality(Credit(id)) <= Cardinality(done[id]) + 1

SequenceInv(id) ==
    /\ InOrder(id)
    /\ DoneIsPrefix(id)
    /\ CompletionIsLast(id)
    /\ QuietStart(id)
    /\ FreshIsBlank(id)
    /\ CreditBound(id)
    /\ sm[id].repeat = {}

(***************************************************************************)
(* The inductive invariant: without redelivered events, repeat rules and   *)
(* colliding ids it survives every crash, failure and submission error.    *)
(***************************************************************************)
StepInv ==
    /\ \A id \in JobIds : SequenceInv(id)
    /\ pc \in {"down", "resume", "exited", "finished"} => ~ watching
    /\ pc = "down" => tracked = {}
    /\ \A p \in resume : p[1] \in used
=============================================================================
