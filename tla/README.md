# A TLA+ verification project for the state-machine-operator

The state-machine-operator runs *workflows* on Kubernetes. A workflow is a
sequence of steps, each a Job, and a number of *completions* that are needed: how
many sequences must run through all their steps. A Go operator brings up a manager
for each `StateMachine` resource; the manager, a Python process, keeps one state
machine per sequence and drives the sequences by the events of their Jobs.

## 1. Inventory

Paths are relative to the repository; `PY` is `python/state_machine_operator`.

| Component | State | Operations | Modelled by |
|---|---|---|---|
| workflow manager, `PY/manager/manager.py` | `trackers` (machine per jobid), metrics, rules, the process itself | `start`, `init_state`, `check_complete`, `new_jobs`, `watch`, `succeed_job`, `fail_job`, rules | `WorkflowManager` |
| job state machine, `PY/machine/machine.py` | current state, `<step>_success`, `<step>_repeat` flags | `change`, `mark_*`, `repeat`, `on_change` | `JobStateMachine` |
| Kubernetes tracker, `PY/tracker/kubernetes/tracker.py`, `PY/tracker/tracker.py` | Jobs, JobSets, MiniClusters and ConfigMaps in the cluster | `submit_job`, `submit`, `cleanup`, `create_configmap` | `WorkflowManager` |
| listings and events, `PY/tracker/kubernetes/{job,state,event}.py` | none of its own | Job predicates, `list_jobs_by_status`, `stream_events` | `KubernetesJobs`, `WorkflowManager` |
| event rules, `PY/config/types.py` | repetitions left, backoff | `should_trigger`, `perform`, `check_when` | `EventRules`, `RuleEvaluation` |
| configuration, `PY/config/config.py`, `PY/schema.py` | the list of jobs, limits | loading | constants and their assumptions |
| metrics, `PY/manager/metrics.py` | counters and streaming statistics per step | `update_metrics`, `add_model_entry`, `increment_counter`, `load_custom_metrics` | `ManagerMetrics`; the statistics themselves as any number |
| operator, `internal/controller`, `cmd/main.go` | cache, work queue; the objects it creates | `Reconcile` | `Reconciler` |
| manager templates, `internal/controller/manager` | - | entrypoint, Deployment | the part that decides control: `CannotCreate`, `SleepInfinity` |
| API types, `api/v1alpha1` | - | `Validate`, defaults | `Validate`, `Registry` |
| Flux tracker, `PY/tracker/flux` | Flux jobs, the journal | `submit`, job predicates, `list_jobs_by_status`, `stream_events` | `FluxWorkflow` |
| node watcher, `PY/tracker/kubernetes/event.py` | a dictionary of nodes, a thread, a stop flag | `watch_nodes`, `parse_node_event`, `stop`, `save` | `NodeWatcher` |
| heartbeat, `PY/tracker/heartbeat.py` | a timer thread | - | not modelled: nothing constructs it |
| registry client, analysis, CLI, templates | - | I/O | not modelled |

How they interact. The operator creates the manager's Deployment and what it needs,
and never talks to the manager. The manager calls the API server to list and create
Jobs, and reads one watch stream. Jobs are run by Kubernetes' own controllers.
Manager and cluster share no transaction: between two API calls the cluster moves.

What is hard here:

- **Events that say nothing of where the machine is.** An event carries a Job's step
  and status, and moves whatever machine the sequence has. After a restart, or when
  an event comes twice, the two do not agree.
- **Restart from a listing.** Everything but the cluster is lost; machines are
  rebuilt from the Jobs that exist.
- **Counting from a listing.** `new_jobs` counts once, and submits over several calls.
- **Failure in the middle of a submission**: ConfigMap written, Job not created, cleanup
  by name.
- **Rules** that change what a step does between two events, and count repetitions.
- **A cache that lags**, in the operator, and requests that are merged or never made.
- **Flux looks a job up when its event is handled**, not when the event was written; a
  job that is being cleaned up is in no list the manager counts; and a step submitted
  twice is two jobs, since Flux jobs have no unique names.
- **A thread that is told to stop and not waited for**: the main thread walks the
  dictionary the node watcher still writes to.
- **Metrics taken in one place and used in another**: counters by the event's step, logs
  by the machine's, rules read right after.

The properties each component owes are listed with the runs in section 4, and every
hazard, with the properties aimed at it, in `PROJECT.json`.

## 2. Modules

- `JobStateMachine`: one sequence's machine as a value, one operator per method.
- `KubernetesJobs`: what the manager reads of Jobs, extends `JobStateMachine`. A Job's
  status is one of eight values, by the fields the code reads (active, failed,
  succeeded, completion time). The buckets of a listing, the sets
  `get_current_state` derives, and `new_jobs`' arithmetic are operators.
- `EventRules`: the rules as operators.
- `WorkflowManager`: composes these with the cluster and the watch. The variables
  `cluster`, `script`, `stream` are the cluster's, `pc` ... `nnodes` the manager's,
  `done`, `used`, `faults` history and bounds. A handler is one action, split only
  where it makes another API call that may see a different cluster: `InitState` (a
  listing), `ResumeSequence` (a submission for each finished Job), `CheckComplete`,
  `NewJobs` (a listing), `SubmitSequence` (a submission each), `Watch`,
  `HandleEvent`, `EvaluateRule`, `RulesDone`.
- `Workflow`: the abstract specification, what a user is promised. Sequences begin while
  more completions are needed, run their steps one after the other, and fail or complete
  for good. `WorkflowRefinement` maps the manager and its cluster to it. The phase of a
  sequence is read off one listing, the way `get_current_state` reads it, and nothing of
  the manager's memory enters the mapping: losing that memory must not show.
- `ManagerMetrics`: the manager composed with its metrics. `HandleWithMetrics` is
  `WorkflowManager`'s `HandleEvent` together with `UpdateMetrics`, and restricts the value
  a rule reads to one that has been recorded; it adds no action of its own.
- `FluxWorkflow`: the manager over Flux, with Flux's jobs, journal and listing. It shares
  `JobStateMachine` and the sets and arithmetic of `KubernetesJobs` with the other.
- `NodeWatcher`: the watcher thread (`wpc`) and the main thread that saves (`mpc`). Each
  write to the dictionary is a step, and so is each node the writer visits.
- `RuleEvaluation`: one step's rules over many evaluations, over `EventRules`, where
  sizes and counts can go further than in the whole manager.
- `Reconciler`: the operator. `pc` is the object the reconcile looks up next; a lookup
  finds it in the cache, or creates it, or fails.
- `MCWorkflowManager`, `MCManagerMetrics`, `MCRuleEvaluation`: constants for TLC.
- `WorkflowManager_proofs`, `StepOrder_proofs` (which extends it), `WorkflowRefinement_proofs`
  (which extends both), `ManagerMetrics_proofs` (which extends all three), and
  `RuleEvaluation_proofs`, `Reconciler_proofs`, `NodeWatcher_proofs`, `FluxWorkflow_proofs`:
  theorems.

Choices worth knowing:

- *The stream* is a queue for each Job, not one for all. The real watch is one ordered
  stream, so the model has more behaviours: what holds in it holds in the code.
- *Opening the watch* replays every Job that exists, as the first list of
  `Watch.stream` does.
- *Metrics.* In `WorkflowManager` a rule reads any of the values `Numbers`, or none. In
  `ManagerMetrics` it reads nothing before a first datum, exactly the count of a counter,
  and any of `Statistics` for a statistic (a mean, a minimum), whose arithmetic is the
  river library's. A log that cannot be read leaves no datum.
- *Flux events* are counted for each job and not ordered between jobs; the journal is one
  stream, so the model again has more behaviours than the code. The listing is one step
  and does not lag behind the jobs. Workflows over Flux have no rules here, one node per
  step and no dash in a step's name.
- *Threads* switch between any two bytecodes, so `NodeWatcher` interleaves single writes
  with the writer's visits: `write_json` indents, and indented `json.dumps` runs in
  Python. The `json.dumps` that only prints is one call into C, and is one step. The
  thread's start and its five seconds of sleep show in nothing and are left out.
- *`mark_running`* compares `State` objects with names and sets flags called after
  `str(State)`. With python-statemachine's `State` neither matches a step's name, so
  it sets nothing that is read; `NamesMatch = FALSE` in every run. The proofs hold
  for both values, but for `MovingHolds`, which takes it as its premise.
- *JobSets and MiniClusters* are first `"requested"`: their Job appears when their own
  controller creates it. The rest is like a Job.
- *A rule's `when`* keeps the cases the code tells apart, the text that no regular
  expression matches included; rules that validation rejects are excluded by an
  assumption, because loading such a workflow raises.
- *External code*: Kubernetes' controllers and API server (`SetStatus`, `JobProgress`,
  `Touch`), controller-runtime (`Sync`, `Resync`, `Restart`), the garbage collector,
  users. They are modelled from how the code uses them.
- *Creating RBAC as it is written*: the lookups and creations are those of the source
  in its order; the contents of the objects are not modelled.

## 3. Fairness and bounds

`FairSpec` of the manager: the process keeps running (`Step`), each Job's events are
eventually read (one stream, read in order), and Kubernetes eventually moves a Job on.
Nothing forces a success: a Job may fail as long as the bound allows. Crashes,
failures, errors and redeliveries are never forced. `FluxWorkflow` has the same fairness:
the manager's process runs and reads its journal, and Flux runs and ends jobs.

`FairSpec` of the node watcher: both threads are scheduled and the watch delivers each
node's events. Nothing makes the workflow complete or the cluster change.

`FairSpec` of the operator: the worker and the watches run, garbage is collected, and
the cache is resynced again and again, because `main.go` leaves the manager's
`SyncPeriod` at its default (ten hours). `Converges` needs the last one: a
ClusterRole and its binding are not watched, so the reconcile that creates one of them stops
short of the Role with nothing queued.

Bounds. `MaxCrashes`, `MaxTouches`, `MaxFailures`, `MaxErrors`, `MaxDeletes`,
`MaxRestarts` cap the environment, `MaxFaults` Flux's failures and cancellations and the
restarts together, `MaxChanges` the changes of nodes, `MaxEvaluations` the evaluations
of rules. Two or three sequences and two or three steps are enough for what can go
wrong: an event can
be one or two steps away from its machine, a sequence can be finished while another
starts, and a failed one replaced. One or two faults of a kind in any order with the
others cover a fault in the recovery from another. The `Flux` run has one sequence of three
steps, because its properties speak of one sequence at a time and what interferes there is
the second job of a step; three sequences are in `FluxCleanup`, whose property counts
them. Three changes of two nodes let a node go, come back and change in between, or change
while the other one is being written. The theorems have no bounds.

## 4. Runs

Passing:

| Run | Asks |
|---|---|
| `Core` | The manager with failing Jobs and no faults of its own. `NoStall`: a sequence that holds a slot can still move. `ScriptMatches`: the ConfigMap all steps share holds the script of the Job that is unfinished, whose pods may still be pending. `ExitSound`, `Termination`, no deadlock. |
| `Restart` | Crashes at any point, after which ids of sequences no longer tracked may be drawn again: `StepOrder`, `WithinMaxSize`, `NoSurplus`, `FinishedStays`, and `ImplementsWorkflow`, the refinement of `Workflow`. |
| `RestartErrors` | Crashes and failed submissions, whose cleanup deletes Jobs, with a backoff limit and an always-succeed step: `StepInv`, the inductive invariant of the proof of `StepOrder`, and `ExitSound`. |
| `Duplicates` | An event delivered again, a crash, and ids drawn again: `generate_id` asks `trackers` only, so the id of a sequence that failed before the restart may be drawn, and its submission conflicts. `NoSurplus` and `FinishedStays` (`StepOrder` does not survive, see below). |
| `Rules` | Rules of every action in the manager with its metrics, a Job followed by a JobSet, a submission that fails: `TypeOK`, `StepOrder`, `NoSurplus`, `RepeatHolds`; `CountsExact`: each success is counted once or still to be told of, repeated steps included; `LogsOfOwnStep`: no log is parsed as another step's. |
| `RuleLimits` | Eight rules on one step: `RepetitionsBound`, `SizeStaysInRange`. |
| `Operator` | `TypeOK`, `MadeInOrder`, its inductive invariant `OrderInv`, and `Converges`, with an external registry; the theorems cover the other kind too. |
| `Nodes` | The watcher thread against the save: `Alternates`, `ReportIsHistory` and `Follows`. |
| `Flux` | Late and replayed events, a failed or canceled job, a restart: `AheadBound`, a machine makes at most two moves for each completed job; `Moving`, a tracked sequence always has something left that moves it; `Termination` without faults. |

`NoSurplus` is asked of `Restart` and not of `RestartErrors`, where it does not hold: a
restart resumes a sequence of which a later step has failed, its machine submits that
step again, the submission fails, and the cleanup deletes the failed Job. With it goes
what marked the sequence as failed, and it counts as active beside its replacement.

Violations. Each run checks what a comment or a message says, and TLC finds how the
code departs from it; the quoted lines are under "findings" in `PROJECT.json`.

| Run | Property | What happens |
|---|---|---|
| `DuplicateEvent` | `StepOrder` | A second event of one completion moves the machine twice. |
| `RestartStalls` | `Termination` | The Job of step 1 is unfinished at the restart. `init_state` leaves its machine at start; its completion moves the machine to step 1, whose submission conflicts, and nothing submits step 2. With more steps any sequence with an unfinished Job ends one move short; only one in its last step completes. |
| `FluxCleanup` | `NoSurplus` | A job in CLEANUP counts for nothing, and one sequence too many is started. |

## 5. Proofs

**Types of the manager** (`WorkflowManager_proofs!TypeCorrect`). For all constants
that meet the named assumptions. The parts that are not routine: repetitions stay
natural although several places count them down (`LeftAfterNat`, which needs that
`should_trigger` looks before `perform` counts), sizes stay positive, and what is
appended to the stream is listed.

**Order of the steps** (`StepOrder_proofs!StepOrderHolds`). Premises, as a named
assumption: events are not redelivered (`MaxTouches = 0`), ids are fresh, and no rule
repeats a step. Any number of sequences, steps, crashes, failed Jobs and failed
submissions is allowed. `StepOrder` itself is not inductive: nothing in the code
compares an event's step with its machine's. What keeps a machine from running ahead
is an account. `Credit(id)` is the set of completions that may still move the machine
of `id`: those in the stream, those whose Job runs a second time, and those whose Job
is gone and whose step is ahead of the machine. `CreditBound` says the machine's step
and the credit stay within one of the steps done. A delivered completion moves one
unit from credit to the machine; a success adds one to both sides; a restart puts the
machine back, and the replay of the watch hands out at most what is done. The rest
of `StepInv` says that `done` is a prefix, a completion is the last word in a Job's
queue, no machine is past step 1 before the watch opens, and ids never drawn are blank.
Without the premises the theorem is false: `DuplicateEvent` is the counterexample for
the first. `StepOrder_proofs!StepInvHolds` states the inductive invariant itself.

**A sound end** (`StepOrder_proofs!ExitSoundHolds`). From the same premises and `StepInv`:
the Job of the last step exists only after the step before it is done, `done` is a prefix,
so whatever `get_current_state` counts as a completion has really been through all its
steps (`CompletionFinished`), and no step takes that back. Without `StepInv` a listing that
shows a success of the last step says nothing of the others.

**Repeated steps hold** (`WorkflowManager_proofs!RepeatAlwaysHolds`). The action property
`RepeatHolds` with no premise at all. It needs one invariant, `StartsUntracked`: what
`init_state` has still to look at has no machine, so no machine is replaced there.

**The promise to the user** (`WorkflowRefinement_proofs`). Four theorems about what the cluster
shows, on premises that differ by what each needs:

| Theorem | Premise | Allows |
|---|---|---|
| `FinishedAlwaysStays` (`FinishedStays`) | `KeepPremise`: no rule repeats a step; no submission fails, or the manager is not restarted and either ids are fresh or Jobs are not retried | redelivery, rules, retries |
| `NoSurplusHolds` | `DemandPremise`: the above, no backoff limit, a plain Job as first step | redelivery, ids drawn again |
| `WithinMaxSizeHolds` | both, with the `Premise` of `StepOrderHolds` | crashes or failed submissions, failing Jobs |
| `Refinement` (`ImplementsWorkflow`) | the same | the same |

Sections 4 and 6 say what happens without them. `KeepInv` carries the first: with no
restart no Job is ahead of its sequence's machine (`MachinesLead`), so the cleanup after a
failed submission, which deletes by name, finds nothing. `NoSurplus` is not inductive,
because the watch and the resumption could create Jobs for a sequence nobody counted:
`DemandInv` adds that events and finished Jobs to resume are of listed Jobs, and that a
requested JobSet belongs to a sequence that is already known. `WithinMaxSize` counts Jobs
where `new_jobs` counts sequences: `OneAtATime`, from `StepInv`, is the injection from the
Jobs that occupy nodes into the active sequences. The refinement takes each action by what
it does to one sequence's phase: a stutter, or the one step of `Workflow` it maps to, with
`NoSurplus` the guard of beginning a sequence and `FinishedStays` the reason that no phase
goes back.

**Machines and Jobs in step** (`!ScriptMatchesHolds`, `!NoStallHolds`). Without restarts, failed
submissions, redelivery and repeated steps (`PacePremise`), `PaceInv` says that a tracked
machine stands at a step whose Job was created (`Abreast`), that the completion of that Job
is on its way once it has succeeded, and that the shared ConfigMap serves a Job until it
has ended. That the *only* completion on its way is the machine's own (`OwnStep`) comes
from the account in `StepInv`. `NoStall` also needs that Jobs are not retried.
`RestartStalls` shows why no restart is a premise.

**The manager with its metrics** (`ManagerMetrics_proofs`). `MetricsImplement`: every step
of `MetricsSpec` is a step of `WorkflowManager` or leaves its variables alone
(`MetricsStep`), so metrics restrict what rules read and add nothing.
`MetricsTypeCorrect` and `MetricsStepOrder` follow from the theorems above, for any
series, statistics and parsers. `CountsExactHolds` and `LogsOfOwnStepHolds` assume no
restart, no redelivery and no retried Job (`MetricsPremise`), and allow every kind of rule,
failed submissions and ids drawn again. `StepInv` is of no use for them: it excludes
repeated steps, which complete more often than once. `OwnInv` takes its place: a sequence
is tracked from its first Job on or has nothing in the cluster, and the only completion
on its way is that of the step its machine stands at. So the script by which a log is
parsed, taken from the machine, is that of the event's step. `CountInv` keeps the books:
what has been counted and what is on its way (`Pending`) make up what has succeeded, and
while the watch is closed all of it is still in the cluster. `RepeatedStepOrder` uses `OwnInv`
once more: with these premises steps stay in order where rules do repeat them.

**Limits of the rules** (`RuleEvaluation_proofs!RepetitionsBounded`, `!SizeInRange`). Both
invariants are inductive with the types. The first rests on `LeftAfterBound` (whatever
triggers has also been counted down, and was positive), the second on `ResizedBound`.

**Order of the operator** (`Reconciler_proofs!MadeInOrderHolds`). `OrderInv` says that
what exists or is cached was created, that what the reconcile has passed (`Behind(pc)`)
was created, and that the ConfigMap, made only past all the rest, stands between: a
reconcile that creates the Deployment has found the ConfigMap. It holds whatever
fails, is deleted or restarts (`!OrderInvHolds`, with either kind of registry).
`Reconciler_proofs!TypeCorrect` gives the types.

**The node watcher** (`NodeWatcher_proofs!AlternatesHolds`, `!ReportIsHistoryHolds`). For any
number of nodes and changes, with no premise. `Alternates` alone is not inductive, as
`parse_node_event` compares with `is_ready` and not with the last condition: `WatcherInv`
says that the two agree, but for the moment between the append and the assignment, and
that the comparison still holds when the append is made. It also says that the listing
is recorded before anything else and once for each node, because it would start a record
afresh. Hence the dictionary only grows (`OnlyGrows`), and what the main thread has read of it
at any time remains a beginning of it (`ReportInv`).

**Flux** (`FluxWorkflow_proofs!AheadBoundHolds`, `!MovingHolds`). For any number of sequences,
steps and faults. `AheadBound` is an account again: `Spent` are the events of completed jobs
that have been handled, two at most for each (`PendingBound`: a job that goes on to complete
has at most its start to tell before), and a machine moves only by spending one. What the
journal holds of a job is part of its type (`Told`): a start and an end for one that
completed, one event at least for any that has ended, up to three for one canceled while
it ran. While the journal
is closed, before the manager has exited, no machine is past step 1, so that a replay,
which makes all events unspent, costs nothing. `Moving` needs to speak of the time when the
journal is closed too (`OnItsWay`): then any job will do, since the replay tells of every
job that has ended. A machine that moves submits the step it enters because no step
ahead of it is flagged as done (`FlagsBehind`), which is where `NamesMatch = FALSE`, the
library as it is, is used.

The inductive invariants were model-checked on small instances before they were proved:
`StepInv` and `OrderInv` by runs kept here, the others on configurations like those of
the runs whose properties they carry.

Only model-checked: liveness (`Termination`, `Converges`, `Follows`), which the prover does
not reach; the cases outside the premises above in which a run still finds a property
true, which are `NoSurplus` with rules that repeat a step (`Rules`) and `StepOrder`,
`WithinMaxSize` and `ImplementsWorkflow` with ids drawn again (`Restart`). The refinement is of `Workflow`'s safety: TLC does not take fairness
through the mapping and the prover does not reach it.

## 6. Departures kept in the model, and what is not modelled

The modules follow the code also where it departs from what its comments say. Beside
the three runs above, these steps are in the model as the code takes them:

- `fail_job` says it deletes the sequence's objects; the `cleanup` it calls does nothing
  (`PY/tracker/tracker.py:141`): `FailJob`.
- `init_state` makes machines for sequences of which a later step has failed
  (`PY/manager/manager.py:227`): `InitState`, `ResumeSequence`.
- A failed always-succeed step is marked, but its machine does not move
  (`PY/manager/manager.py:436`): `SucceedJob`.
- Repeating a plain Job passes the arguments of the delete the wrong way round
  (`PY/tracker/kubernetes/tracker.py:424`), and the cleanup after the error leaves the
  step without a Job: `SubmitError`. If an earlier step has succeeded the sequence still
  counts as active and nothing moves it, so `NoStall` is asked without rules: TLC finds it
  violated for one sequence of two plain Jobs whose second a rule repeats.
- Replacing a JobSet is a delete and a create (`PY/tracker/kubernetes/tracker.py:383`): the
  create may find the old one still there, or fail otherwise, and the step is left without
  a Job: `SubmitConflict`, `SubmitError`.
- After a restart a machine that is behind submits an earlier step again. That conflicts, but
  `create_configmap` has replaced the script of the Job that is waiting by then
  (`PY/tracker/kubernetes/tracker.py:62`): `WriteScript`. `ScriptMatches` is asked without
  restarts.
- A log is parsed by the script of the step the machine stands at
  (`PY/machine/machine.py:150`), another step's after a restart or a redelivery:
  `UpdateMetrics`. `LogsOfOwnStep` is asked without both.
- A JobSet or MiniCluster whose Job is not there yet is not counted by `new_jobs`, and a
  retrying Job is listed as failed (`PY/tracker/kubernetes/state.py:78`): `IsListed`,
  `InFailed`. For these `NoSurplus` and `WithinMaxSize` do not hold, so the runs that
  check them start sequences with plain Jobs and without a backoff limit.
- The entrypoint announces a complete workflow however the manager ended
  (`internal/controller/manager/templates/entrypoint.sh:45`), and a dead manager is
  not restarted: `SleepInfinity`.
- Rules: validation spends a repetition (`PY/config/types.py:86`), any backoff disables
  the rule (`:143`), a rule that is not a comparison spends repetitions and never acts
  (`:28`), grow stops one below `maxSize` (`PY/manager/manager.py:533`): `EventRules`.
- `createRBAC` creates one object for each reconcile and lets the rest go on, so the
  Deployment may exist before the Role (`internal/controller/rbac.go:49`); the
  entrypoint's template fails for events with `minCompletions`
  (`internal/controller/manager/templates/entrypoint.sh:15`): `Created`, `CannotCreate`.
  Such a StateMachine is logged as ready with Role or RoleBinding still missing
  (`internal/controller/controller.go:149`).
- A Job that recovers by its own retry ends with failed pods: the event says failed and
  `fail_job` drops the sequence, the listing says success and counts it as under way
  (`PY/tracker/kubernetes/job.py:60`): `IsFailed`, `InSuccess`.
- An event that is delivered again is counted again by the metrics; `CountsExact` is
  asked without redelivery.
- Flux: `is_failed` and `is_succeeded` name `is_completed` without calling it
  (`PY/tracker/flux/job.py:79`), so an event handled late moves a machine for the start
  and once more for the end: `FluxFailed`, `AheadBound`. After a restart step 1
  is submitted as a second job: `ResumeSequence`. A restart during CLEANUP leaves the
  sequence without a machine, and it later counts as active: `InitState`. A canceled or
  timed out job is in no list, and its sequence holds a slot once an earlier step is
  completed (`PY/tracker/flux/state.py:144`): `Listing`.
- Node watcher: a node or a "deleted" that is added while `write_json` walks the dictionary
  raises, and `complete_workflow` with it: `EndWrite`. The comment "should only be accessed by
  one thread each" (`PY/tracker/kubernetes/event.py:47`) does not hold for `save`. A listed
  node with no Ready condition ends the thread (`:128`): `RecordListed`.

Not modelled:

- The registry client, `analysis` and the command line: requests, files and plots, with no
  state that outlives a call.
- The heartbeat, which nothing constructs.
- The river library's statistics, the contents of Kubernetes objects, timestamps and logs.
- A rule with a negative `minSize`, which `min_size or 1` would take as it is
  (`PY/manager/manager.py:550`), and a job without `nnodes`, for which grow and shrink raise
  a KeyError (`:531`, `:549`); the operator always writes it.
- In Flux, journal events other than those of `SkipEvents`, start, exception and clean; step names with a dash, which a job carries with an underscore that
  `last_step` does not have (`PY/tracker/flux/tracker.py:43`); a job that vanishes between
  the list and its lookup (`PY/tracker/flux/state.py:49`); rules and steps of several nodes.
- Two managers at once: the Deployment has one replica, and its old pod is taken to be gone
  when the new one starts.

## 7. Plan

Done, in this order: `JobStateMachine`, `KubernetesJobs`, `WorkflowManager`, `EventRules`,
`RuleEvaluation`, `Reconciler`; then `Workflow` and its refinement, `FluxWorkflow`,
`NodeWatcher`, `ManagerMetrics`; proofs of types, order of steps, rules and operator; then
the refinement and the other safety properties of the manager, its metrics, the node
watcher and Flux, so that a theorem now states each safety property of a passing run.

Next, in this order:

1. Weaker premises: `NoSurplus` with rules that repeat steps; `WithinMaxSize` with
   redelivered events; `Moving` for the library `mark_running` was written for.
2. The operator composed with the manager: a manager started before its permissions exist.
