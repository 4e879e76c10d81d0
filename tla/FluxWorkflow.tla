---------------------------- MODULE FluxWorkflow ----------------------------
(***************************************************************************)
(* The workflow manager with Flux as its scheduler (tracker/flux).  The    *)
(* manager is the same, what it stands on is not: Flux jobs have no unique *)
(* name, so a step submitted again is a second job; the journal tells of a *)
(* job more than once; and a job's state is looked up when its event is    *)
(* handled, not when the event was written.  Workflows here have no rules, *)
(* every step takes one node, and no step's name has a dash (FluxJob       *)
(* writes an underscore for it into the job, which last_step does not).    *)
(***************************************************************************)
EXTENDS KubernetesJobs, Sequences

CONSTANT MaxFaults   \* bound on the jobs that fail or are canceled and on restarts, together

ASSUME MaxFaultsAssumption == MaxFaults \in Nat

VARIABLES
    jobs,       \* [id][step]: the Flux jobs of a step, oldest first: its status, the events
                \* in the journal that are not skipped, and how many of them are pending
    pc,         \* where the manager is
    watching,   \* is the journal open?
    tracked,    \* the keys of self.trackers
    sm,         \* [id]: the state machine of a tracked sequence
    resume,     \* init_state: the finished jobs, <<id, step>>, still to be looked at
    batch,      \* new_jobs: the sequences still to be submitted
    used,       \* the ids ever drawn
    faults      \* how many faults there have been

machineVars == <<tracked, sm>>
vars == <<jobs, pc, watching, machineVars, resume, batch, used, faults>>

Init ==
    /\ jobs = [id \in JobIds |-> [s \in Steps |-> << >>]]
    /\ pc = "down"
    /\ watching = FALSE
    /\ tracked = {}
    /\ sm = [id \in JobIds |-> NewMachine]
    /\ resume = {}
    /\ batch = 0
    /\ used = {}
    /\ faults = 0

-----------------------------------------------------------------------------
(* Flux jobs: their state, and what FluxJob and list_jobs_by_status make   *)
(* of it.  "CLEANUP" and "KILLED" are Flux's CLEANUP, before a result and  *)
(* after an exception; "CANCELED" is CANCELED or TIMEOUT.                  *)

FluxStatus == {"SCHED", "RUN", "CLEANUP", "KILLED", "COMPLETED", "FAILED", "CANCELED"}

FluxActive(st) == st \notin {"COMPLETED", "FAILED", "CANCELED"}
FluxCompleted(st) == st \in {"COMPLETED", "FAILED"}
\* is_completed is named there and not called: only the return code counts.
FluxFailed(st) == st # "COMPLETED"
FluxSucceeded(st) == st = "COMPLETED"

Copies(id, s) == DOMAIN jobs[id][s]
Has(id, s, states) == \E n \in Copies(id, s) : jobs[id][s][n].status \in states

\* One listing, by what get_current_state makes of the copies of a step; a job
\* in CLEANUP, canceled or timed out is in none of the buckets it reads.
Listing ==
    [id \in JobIds |-> [s \in Steps |->
        IF Has(id, s, {"FAILED"}) THEN "failed"
        ELSE IF Has(id, s, {"COMPLETED"}) THEN "succeeded"
        ELSE IF Has(id, s, {"SCHED", "RUN"}) THEN "queued"
        ELSE "none"]]

\* Mutant: the end of the user's command is passed on as well as the end of the job.
SkipEventsNotFinish ==
    {"submit", "validate", "depend", "priority", "annotations", "alloc", "release", "free"}

\* Mutant: the last event of a job is skipped, as are the other ends.
SkipEventsAndClean ==
    {"submit", "validate", "depend", "priority", "annotations", "alloc", "release", "free",
     "finish", "clean"}

SkipEvents ==
    {"submit", "validate", "depend", "priority", "annotations", "alloc", "release", "free",
     "finish"}

\* The job moves on and the journal says so.
Journal(id, s, n, name, st) ==
    jobs' = [jobs EXCEPT ![id][s][n] =
                [status |-> st,
                 events |-> @.events + IF name \in SkipEvents THEN 0 ELSE 1,
                 pending |-> @.pending + IF watching /\ name \notin SkipEvents THEN 1 ELSE 0]]

Fault == faults < MaxFaults /\ faults' = faults + 1
MachineUnchanged == UNCHANGED <<pc, watching, machineVars, resume, batch, used>>

JobRuns(id, s, n) ==
    /\ \/ jobs[id][s][n].status = "SCHED" /\ Journal(id, s, n, "start", "RUN")
       \/ jobs[id][s][n].status = "RUN" /\ Journal(id, s, n, "finish", "CLEANUP")
       \/ jobs[id][s][n].status = "CLEANUP" /\ Journal(id, s, n, "clean", "COMPLETED")
       \/ jobs[id][s][n].status = "KILLED" /\ Journal(id, s, n, "clean", "CANCELED")
    /\ UNCHANGED faults
    /\ MachineUnchanged

JobFails(id, s, n) ==
    /\ jobs[id][s][n].status = "CLEANUP"
    /\ Fault
    /\ Journal(id, s, n, "clean", "FAILED")
    /\ MachineUnchanged

\* A user cancels the job, or it reaches its walltime.
JobException(id, s, n) ==
    /\ jobs[id][s][n].status \in {"SCHED", "RUN"}
    /\ Fault
    /\ Journal(id, s, n, "exception", "KILLED")
    /\ MachineUnchanged

\* The journal is replayed from its beginning to every new consumer.
Replayed(job) == [job EXCEPT !.pending = job.events]

-----------------------------------------------------------------------------
(* The manager: init_state, check_complete, new_jobs, watch.               *)

\* submit: there is no name to conflict with, repeat makes no difference, and
\* an exception of flux.job.submit ends the process.
Submitted(id, s, j) == [j EXCEPT ![id][s] = Append(@, [status |-> "SCHED", events |-> 0, pending |-> 0])]

\* change() and on_change, on the jobs j.
EnterNext(id, m, j) ==
    LET entered == Change(m) IN
    /\ CanChange(m)
    /\ sm' = [sm EXCEPT ![id] = entered]
    /\ jobs' = IF Submits(entered) THEN Submitted(id, entered.current, j) ELSE j

InitState ==
    LET live(id) == {s \in Steps : Has(id, s, {"SCHED", "RUN"})} IN
    /\ pc = "down"
    /\ tracked' = {id \in JobIds : live(id) # {}}
    /\ sm' = [id \in JobIds |->
                 [NewMachine EXCEPT !.success =
                     UNION {MarkRunning(NewMachine, s).success : s \in live(id)}]]
    /\ resume' = {p \in (JobIds \ tracked') \X Steps :
                     p[2] # NumSteps /\ Has(p[1], p[2], {"COMPLETED"})}
    /\ pc' = "resume"
    /\ UNCHANGED <<jobs, watching, batch, used, faults>>

ResumeSequence(id, s) ==
    /\ pc = "resume"
    /\ <<id, s>> \in resume
    /\ EnterNext(id, MarkRunning(NewMachine, s), jobs)
    /\ tracked' = tracked \cup {id}
    /\ resume' = {p \in resume : p[1] # id}
    /\ UNCHANGED <<pc, watching, batch, used, faults>>

ResumeDone ==
    /\ pc = "resume"
    /\ resume = {}
    /\ pc' = "check"
    /\ UNCHANGED <<jobs, watching, machineVars, resume, batch, used, faults>>

CheckComplete ==
    /\ pc = "check"
    /\ pc' = IF Cardinality(Completions(Listing)) >= CompletionsNeeded THEN "exited" ELSE "new"
    /\ watching' = (watching /\ pc' # "exited")
    /\ UNCHANGED <<jobs, machineVars, resume, batch, used, faults>>

NewJobs ==
    /\ pc = "new"
    /\ batch' = SubmitCount(Listing, 1)
    /\ pc' = "submit"
    /\ UNCHANGED <<jobs, watching, machineVars, resume, used, faults>>

SubmitSequence(id) ==
    /\ pc = "submit"
    /\ batch > 0
    /\ id \notin tracked \cup used
    /\ EnterNext(id, NewMachine, jobs)
    /\ tracked' = tracked \cup {id}
    /\ used' = used \cup {id}
    /\ batch' = batch - 1
    /\ UNCHANGED <<pc, watching, resume, faults>>

\* Back to the journal; a new consumer is first told all of it.
Watch ==
    /\ pc = "submit"
    /\ batch = 0
    /\ pc' = "watch"
    /\ watching' = TRUE
    /\ jobs' = IF watching THEN jobs
               ELSE [id \in JobIds |-> [s \in Steps |->
                        [n \in Copies(id, s) |-> Replayed(jobs[id][s][n])]]]
    /\ UNCHANGED <<machineVars, resume, batch, used, faults>>

Delivered(id, s, n) == [jobs EXCEPT ![id][s][n].pending = @ - 1]

IgnoreEvent(id, s, n) ==
    LET st == jobs[id][s][n].status IN
    /\ pc = "watch"
    /\ jobs[id][s][n].pending > 0
    /\ id \notin tracked \/ (FluxActive(st) /\ ~ FluxCompleted(st))
    /\ jobs' = Delivered(id, s, n)
    /\ UNCHANGED <<pc, watching, machineVars, resume, batch, used, faults>>

\* succeed_job and fail_job; always_succeed is False for a Flux job.
HandleEvent(id, s, n) ==
    LET st == jobs[id][s][n].status
        j == Delivered(id, s, n)
    IN
    /\ pc = "watch"
    /\ jobs[id][s][n].pending > 0
    /\ id \in tracked /\ ~ (FluxActive(st) /\ ~ FluxCompleted(st))
    /\ \/ /\ FluxSucceeded(st) /\ sm[id].current # Complete
          /\ EnterNext(id, MarkSucceeded(sm[id]), j)
          /\ UNCHANGED tracked
       \/ /\ FluxSucceeded(st) /\ sm[id].current = Complete
          /\ jobs' = j
          /\ UNCHANGED <<sm, tracked>>
       \/ /\ ~ FluxSucceeded(st) /\ FluxFailed(st)
          /\ jobs' = j
          /\ tracked' = tracked \ {id}
          /\ sm' = [sm EXCEPT ![id] = NewMachine]
    /\ pc' = "check"
    /\ UNCHANGED <<watching, resume, batch, used, faults>>

\* The process ends at any point and is started again; Flux keeps its jobs.
Restart ==
    /\ pc # "down"
    /\ Fault
    /\ pc' = "down"
    /\ watching' = FALSE
    /\ tracked' = {}
    /\ sm' = [id \in JobIds |-> NewMachine]
    /\ resume' = {}
    /\ batch' = 0
    /\ UNCHANGED <<jobs, used>>

Step ==
    \/ InitState
    \/ \E id \in JobIds, s \in Steps : ResumeSequence(id, s)
    \/ ResumeDone
    \/ CheckComplete
    \/ NewJobs
    \/ \E id \in JobIds : SubmitSequence(id)
    \/ Watch

Receive(id, s) == \E n \in Copies(id, s) : IgnoreEvent(id, s, n) \/ HandleEvent(id, s, n)
Progress(id, s) == \E n \in Copies(id, s) : JobRuns(id, s, n) \/ JobFails(id, s, n)

Next ==
    \/ Step
    \/ \E id \in JobIds, s \in Steps :
          \/ Receive(id, s)
          \/ Progress(id, s)
          \/ \E n \in Copies(id, s) : JobException(id, s, n)
    \/ Restart

(***************************************************************************)
(* The manager is one running process that reads one journal, and Flux     *)
(* runs and ends its jobs.                                                 *)
(***************************************************************************)
Fairness ==
    /\ WF_vars(Step)
    /\ \A id \in JobIds, s \in Steps : WF_vars(Receive(id, s)) /\ WF_vars(Progress(id, s))

Spec == Init /\ [][Next]_vars
FairSpec == Spec /\ Fairness

-----------------------------------------------------------------------------
(* Properties.                                                             *)

CompletedJobs(id) ==
    UNION {{<<s, n>> : n \in {k \in Copies(id, s) : jobs[id][s][k].status = "COMPLETED"}} :
              s \in Steps}

(***************************************************************************)
(* A start event that is handled late already finds its job completed and  *)
(* moves the machine, and the clean event moves it again.  That is all: no *)
(* machine is ever further than two moves per completed job of its         *)
(* sequence, however late events are, and across a restart that replays    *)
(* the journal and runs steps a second time.                               *)
(***************************************************************************)
AheadBound ==
    \A id \in tracked : sm[id].current <= 1 + 2 * Cardinality(CompletedJobs(id))

(***************************************************************************)
(* No completion is lost: a sequence the manager tracks is through its     *)
(* steps, or has a job that has not ended or an event still to be handled. *)
(***************************************************************************)
Moving ==
    pc = "watch" =>
        \A id \in tracked :
            \/ sm[id].current = Complete
            \/ \E s \in Steps : \E n \in Copies(id, s) :
                  FluxActive(jobs[id][s][n].status) \/ jobs[id][s][n].pending > 0

(***************************************************************************)
(* Where no job is canceled or fails and the manager is not restarted, the *)
(* workflow ends, although its machines move on events of the wrong step.  *)
(***************************************************************************)
Termination ==
    <>(pc = "exited" \/ faults > 0)

UnderWay ==
    {id \in JobIds : /\ \A s \in Steps : ~ Has(id, s, {"FAILED"})
                     /\ \E s \in Steps : jobs[id][s] # << >>}

(***************************************************************************)
(* get_current_state: "any active or pending job in a sequence counts 1".  *)
(* The sequences under way and about to be submitted are no more than are  *)
(* needed; a job that Flux is cleaning up counts for nothing.              *)
(***************************************************************************)
NoSurplus == Cardinality(UnderWay) + batch <= CompletionsNeeded
=============================================================================
