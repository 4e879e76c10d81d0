---------------------- MODULE WorkflowRefinement_proofs ----------------------
(***************************************************************************)
(* What the cluster holds of a workflow.  Where the manager's submissions  *)
(* delete no Job, finished Jobs stay, no surplus sequence is started, the  *)
(* Jobs fit the cluster, and the manager implements Workflow.  Where       *)
(* nothing goes wrong but Jobs, machines and Jobs keep pace: a Job finds   *)
(* its own script, and no sequence stalls.                                 *)
(***************************************************************************)
EXTENDS WorkflowRefinement, StepOrder_proofs

(***************************************************************************)
(* Jobs are kept: no rule replaces one, and the cleanup after a failed     *)
(* submission finds none, because there are no failed submissions or       *)
(* because no restart and no second draw of an id leads the manager to     *)
(* submit a step again.                                                    *)
(***************************************************************************)
Unrestarted == MaxCrashes = 0 /\ (FreshIds \/ ~ RetryFailure)

KeepPremise ==
    /\ \A r \in Rules : r.action # "repeat"
    /\ MaxErrors = 0 \/ Unrestarted

-----------------------------------------------------------------------------
(* The steps, by what they do to the Jobs and the machines.                *)

NoRepeats == \A id \in JobIds : sm[id].repeat = {}

(* Bookkeeping, or the end by complete_workflow.                           *)
Quiet ==
    /\ UNCHANGED <<cluster, done, tracked, sm, used, batch>>
    /\ resume' \subseteq resume
    /\ MaxErrors = 0 => UNCHANGED script
    /\ pc' \in {"down", "resume"} => pc' = pc
    /\ pc' = "died" <=> pc = "died"
    /\ \/ UNCHANGED <<stream, watching>> /\ (pc' \in Ended => pc \in Ended)
       \/ pc' \in Ended /\ ~ watching' /\ stream' = NoStream

(* The process ends.                                                       *)
Lost ==
    /\ ProcessLost
    /\ pc' = "died" \/ (pc' = "down" /\ MaxCrashes # 0)
    /\ MaxErrors = 0 => UNCHANGED script

(* Every step of the process itself is one of these.                       *)
LEMMA ProcessShape ==
    ASSUME TypeOK, Step \/ Crash \/ UncaughtError \/ UNCHANGED vars
    PROVE  \/ InitState \/ NewJobs \/ Watch
           \/ \E id \in JobIds, s \in Steps : ResumeSequence(id, s)
           \/ \E id \in JobIds : SubmitSequence(id)
           \/ Lost
           \/ Quiet
  <1>0. faults.error \in Nat /\ faults.crash \in Nat
    BY DEF TypeOK
  <1>1. ASSUME NEW id \in JobIds, NEW s \in Steps, ResumeFails(id, s) PROVE Quiet
    BY <1>0, <1>1 DEF ResumeFails, Quiet, machineVars, Ended
  <1>2. CASE ResumeDone
    BY <1>2 DEF ResumeDone, Quiet, clusterVars, machineVars, loopVars, Ended
  <1>3. CASE CheckComplete
    BY <1>3 DEF CheckComplete, Exit, Quiet, clusterVars, machineVars, Ended
  <1>4. ASSUME NEW r \in Rules, EvaluateRule(r) PROVE Quiet \/ Lost
    BY <1>4 DEF EvaluateRule, Exit, Quiet, Lost, clusterVars, machineVars, Ended
  <1>5. CASE RulesDone
    BY <1>5 DEF RulesDone, Quiet, clusterVars, machineVars, Ended
  <1>6. CASE Crash \/ UncaughtError
    BY <1>0, <1>6 DEF Crash, UncaughtError, Lost
  <1>7. CASE UNCHANGED vars
    BY <1>7 DEF vars, Quiet, clusterVars, machineVars, loopVars
  <1> QED
    BY <1>1, <1>2, <1>3, <1>4, <1>5, <1>6, <1>7 DEF Step

(* And every step is one of those, or deals with one Job.                  *)
LEMMA StepShape ==
    ASSUME TypeOK, [Next]_vars
    PROVE  \/ InitState \/ NewJobs \/ Watch
           \/ \E id \in JobIds, s \in Steps : ResumeSequence(id, s)
           \/ \E id \in JobIds : SubmitSequence(id)
           \/ \E id \in JobIds, s \in Steps :
                 Receive(id, s) \/ JobProgress(id, s) \/ Touch(id, s)
           \/ Lost
           \/ Quiet
  BY ProcessShape DEF Next, SleepInfinity

(* One event handled, when no rule repeats a step: the machine moves on,   *)
(* its sequence is dropped, or the event changes nothing but the flags of  *)
(* its step.                                                               *)
LEMMA HandleEffect ==
    ASSUME TypeOK, \A r \in Rules : r.action # "repeat", NoRepeats,
           NEW id \in JobIds, NEW s \in Steps, HandleEvent(id, s), NEW st,
           st = Head(stream[id][s])
    PROVE  /\ id \in tracked /\ pc = "watch" /\ pc' = "check" /\ stream[id][s] # << >>
           /\ UNCHANGED <<watching, resume, batch, used>>
           /\ \/ /\ st = "succeeded" /\ sm[id].current # Complete
                 /\ EnterNext(id, MarkSucceeded(sm[id]), Deliver(id, s))
                 /\ tracked' = tracked
              \/ /\ st = "recovered"
                 /\ FailJob(id, Deliver(id, s))
              \/ /\ st = "succeeded" => sm[id].current = Complete
                 /\ sm' = [sm EXCEPT ![id] = sm[id]] \/ sm' = [sm EXCEPT ![id] = MarkSucceeded(sm[id])]
                 /\ stream' = Deliver(id, s)
                 /\ UNCHANGED <<cluster, script, done, faults, tracked>>
           /\ MarkSucceeded(sm[id]) \in Machine
           /\ MarkSucceeded(sm[id]).current = sm[id].current
           /\ MarkSucceeded(sm[id]).repeat = {}
           /\ MarkSucceeded(sm[id]).success = sm[id].success \cup ({sm[id].current} \cap Steps)
  <1>1. RepeatRules(s) = {}
    BY DEF RepeatRules
  <1>2. /\ id \in tracked /\ pc = "watch" /\ pc' = "check" /\ stream[id][s] # << >>
        /\ UNCHANGED <<watching, resume, batch, used>>
        /\ \/ /\ IsSucceeded(st) \/ IsFailed(st)
              /\ SucceedJob(id, sm[id], st, Deliver(id, s)) /\ UNCHANGED tracked
           \/ /\ IsFailed(st)
              /\ FailJob(id, Deliver(id, s))
           \/ /\ ~ IsSucceeded(st)
              /\ sm' = [sm EXCEPT ![id] = sm[id]]
              /\ stream' = Deliver(id, s)
              /\ UNCHANGED <<cluster, script, done, faults, tracked>>
    BY <1>1 DEF HandleEvent, Ignored
  <1>3. /\ IsSucceeded(st) <=> st = "succeeded"
        /\ IsFailed(st) <=> st = "recovered"
    BY DEF IsSucceeded, IsFailed, IsCompleted, HasFailedPods
  <1>4. sm[id] \in Machine /\ sm[id].repeat = {}
    BY DEF TypeOK, NoRepeats
  <1>5. /\ MarkSucceeded(sm[id]) \in Machine
        /\ MarkSucceeded(sm[id]).current = sm[id].current
        /\ MarkSucceeded(sm[id]).repeat = {}
        /\ MarkSucceeded(sm[id]).success = sm[id].success \cup ({sm[id].current} \cap Steps)
    BY <1>4, MachineTypes DEF MarkSucceeded, IsRepeating, Machine
  <1>6. CASE SucceedJob(id, sm[id], st, Deliver(id, s)) /\ UNCHANGED tracked
    BY <1>2, <1>3, <1>5, <1>6 DEF SucceedJob
  <1> QED
    BY <1>2, <1>3, <1>5, <1>6

(* No machine gets a repeat flag where no rule repeats a step.             *)
LEMMA RepeatsStep ==
    ASSUME TypeOK, \A r \in Rules : r.action # "repeat", NoRepeats, [Next]_vars
    PROVE  NoRepeats'
  <1>0. sm \in [JobIds -> Machine] /\ NewMachine.repeat = {} /\ stream \in Streams
    BY TypeOKParts DEF TypeOK, NewMachine, ClusterOK
  <1>1. ASSUME NEW id \in JobIds, NEW m \in Machine, m.repeat = {}, NEW q \in Streams,
               EnterNext(id, m, q)
        PROVE  NoRepeats'
    BY <1>1, EnterEffect DEF NoRepeats
  <1>2. CASE InitState
    BY <1>2 DEF InitState, NoRepeats, NewMachine
  <1>3. ASSUME NEW id \in JobIds, NEW s \in Steps, ResumeSequence(id, s) PROVE NoRepeats'
    <2>1. /\ MarkRunning(NewMachine, s) \in Machine
          /\ MarkRunning(NewMachine, s).repeat = {}
      BY MachineTypes, <1>0 DEF MarkRunning, NewMachine
    <2> QED
      BY <1>0, <1>1, <1>3, <2>1 DEF ResumeSequence
  <1>4. ASSUME NEW id \in JobIds, SubmitSequence(id) PROVE NoRepeats'
    <2>1. NewMachine \in Machine
      BY NumStepsAssumption DEF NewMachine, Machine, Start, Complete
    <2> QED
      BY <1>0, <1>1, <1>4, <2>1 DEF SubmitSequence
  <1>5. ASSUME NEW id \in JobIds, NEW s \in Steps, HandleEvent(id, s) PROVE NoRepeats'
    <2>1. stream[id][s] # << >>
      BY <1>5 DEF HandleEvent
    <2>2. Deliver(id, s) \in Streams
      BY <1>0, <2>1, DeliverType
    <2>3. /\ MarkSucceeded(sm[id]) \in Machine
          /\ MarkSucceeded(sm[id]).repeat = {}
          /\ \/ EnterNext(id, MarkSucceeded(sm[id]), Deliver(id, s))
             \/ FailJob(id, Deliver(id, s))
             \/ sm' = [sm EXCEPT ![id] = sm[id]]
             \/ sm' = [sm EXCEPT ![id] = MarkSucceeded(sm[id])]
      BY <1>5, HandleEffect
    <2> QED
      BY <1>0, <1>1, <2>2, <2>3 DEF FailJob, NoRepeats
  <1>6. ASSUME UNCHANGED sm PROVE NoRepeats'
    BY <1>6 DEF NoRepeats
  <1>7. ASSUME NEW id \in JobIds, NEW s \in Steps,
               Receive(id, s) \/ JobProgress(id, s) \/ Touch(id, s)
        PROVE  NoRepeats'
    BY <1>5, <1>6, <1>7 DEF Receive, IgnoreEvent, JobProgress, Touch, machineVars
  <1>8. CASE NewJobs \/ Watch \/ Quiet
    BY <1>6, <1>8 DEF NewJobs, Watch, Quiet, machineVars
  <1>9. CASE Lost
    BY <1>0, <1>9 DEF Lost, ProcessLost, NoRepeats
  <1> QED
    BY <1>2, <1>3, <1>4, <1>7, <1>8, <1>9, StepShape

-----------------------------------------------------------------------------
(* Jobs are kept.                                                          *)

(* The Job of step e of sequence id is created; q is the stream before.    *)
Created(id, e, q) ==
    /\ e \in Steps /\ cluster[id][e] = "none"
    /\ cluster' = [cluster EXCEPT ![id][e] = FirstStatus(e)]
    /\ stream' = IF watching /\ Kind[e] = "job"
                 THEN [q EXCEPT ![id][e] = Append(@, "queued")] ELSE q

Kept(id, e, q) ==
    /\ done' = done
    /\ Created(id, e, q) \/ (cluster' = cluster /\ stream' = q)

(* change() on a machine without a repeat flag, where a failed submission  *)
(* finds no Job to delete, and what it does when none fails.               *)
LEMMA KeepSubmit ==
    ASSUME TypeOK, NEW id \in JobIds, NEW m \in Machine, m.repeat = {}, NEW q \in Streams,
           EnterNext(id, m, q), NEW e, e = m.current + 1,
           MaxErrors = 0 \/ (e \in Steps => cluster[id][e] = "none")
    PROVE  /\ Kept(id, e, q)
           /\ MaxErrors = 0 /\ e \in Steps \ m.success /\ cluster[id][e] = "none" =>
                 Created(id, e, q) /\ script' = [script EXCEPT ![id] = e]
           /\ e \notin Steps => script' = script
           /\ \E f \in 0 .. NumSteps : script' = [script EXCEPT ![id] = f] \/ script' = script
           /\ sm'[id].success = m.success
  <1> DEFINE n == Change(m)
  <1>1. n.current = e /\ n.repeat = {} /\ n.success = m.success
    BY DEF Change, IsRepeating, Machine
  <1>2. UnmarkRepeatable(n).success = m.success
    BY <1>1 DEF UnmarkRepeatable, Change, Machine
  <1>3. /\ cluster \in [JobIds -> [Steps -> Status]] /\ sm \in [JobIds -> Machine]
        /\ faults.error \in Nat /\ 0 \in 0 .. NumSteps
    BY NumStepsAssumption DEF TypeOK
  <1>4. CASE ~ Submits(n)
    <2>1. /\ sm' = [sm EXCEPT ![id] = n]
          /\ stream' = q
          /\ UNCHANGED <<cluster, script, done, faults>>
      BY <1>4 DEF EnterNext
    <2>2. e \notin Steps \ m.success
      BY <1>1, <1>4 DEF Submits
    <2> HIDE DEF n
    <2> QED
      BY <1>1, <1>3, <2>1, <2>2 DEF Kept
  <1>5. CASE Submits(n)
    <2>1. /\ SubmitJob(id, n.current, IsRepeating(n), q)
          /\ sm' = [sm EXCEPT ![id] = UnmarkRepeatable(n)]
      BY <1>5 DEF EnterNext
    <2>2. e \in Steps /\ IsRepeating(n) = FALSE
      BY <1>1, <1>5 DEF Submits, IsRepeating
    <2>0. e \in 0 .. NumSteps
      BY <2>2, NumStepsAssumption DEF Steps
    <2> HIDE DEF n
    <2>3. SubmitJob(id, e, FALSE, q) /\ sm'[id].success = m.success
      BY <1>1, <1>2, <1>3, <2>1, <2>2
    <2>4. CASE SubmitOK(id, e, FALSE, q)
      <3>1. /\ cluster[id][e] = "none" /\ SetStatus(id, e, FirstStatus(e), q)
            /\ script' = [script EXCEPT ![id] = e]
        BY <2>4 DEF SubmitOK, WriteScript
      <3>2. FirstStatus(e) \in {"queued", "requested"}
            /\ (IsListed(FirstStatus(e)) <=> Kind[e] = "job")
            /\ (Kind[e] = "job" => FirstStatus(e) = "queued")
        BY DEF FirstStatus, IsListed
      <3>3. done' = done /\ Created(id, e, q)
        BY <2>2, <3>1, <3>2 DEF SetStatus, Created
      <3> QED
        BY <2>0, <2>2, <2>3, <3>1, <3>3 DEF Kept
    <2>5. CASE SubmitConflict(id, e, FALSE, q)
      BY <2>0, <2>2, <2>3, <2>5 DEF SubmitConflict, WriteScript, Kept
    <2>6. CASE SubmitError(id, e, FALSE, q)
      <3>1. MaxErrors # 0
        BY <1>3, <2>6 DEF SubmitError
      <3>2. cluster[id][e] = "none"
        BY <2>2, <3>1
      <3>3. [cluster EXCEPT ![id][e] = "none"] = cluster
        BY <1>3, <2>2, <3>2
      <3>4. stream' = q /\ cluster' = cluster /\ done' = done
        BY <2>6, <3>3 DEF SubmitError, DeleteJob
      <3> QED
        BY <1>3, <2>2, <2>3, <2>6, <3>1, <3>4 DEF Kept, SubmitError
    <2> QED
      BY <2>3, <2>4, <2>5, <2>6 DEF SubmitJob
  <1> QED
    BY <1>4, <1>5

Retried == {"retrying", "recovered"}

NoRetries ==
    \A id \in JobIds, s \in Steps :
        /\ cluster[id][s] \notin Retried
        /\ stream[id][s] \in Seq(Listed \ Retried)

Blank(id) == \A s \in Steps : cluster[id][s] = "none"

\* Without restarts no Job is ahead of the machine of its sequence, and an id
\* that new_jobs may draw has no Jobs.
MachinesLead ==
    /\ pc \in {"down", "resume"} => used = {} /\ resume = {}
    /\ pc # "died" => \A id \in JobIds :
          /\ id \in tracked =>
                /\ id \in used
                /\ \A s \in Steps : s > sm[id].current => cluster[id][s] = "none"
          /\ id \notin tracked /\ (FreshIds => id \notin used) => Blank(id)

KeepInv ==
    /\ NoRepeats
    /\ ~ RetryFailure => NoRetries
    /\ Unrestarted => MachinesLead

(* The machine of id, and no other, enters state e, and its Job is created *)
(* or the Jobs stay as they are.                                           *)
Moves(id, e, q) ==
    /\ Kept(id, e, q)
    /\ sm'[id].current = e
    /\ \A j \in JobIds \ {id} : sm'[j] = sm[j]

(* The three steps that move a machine delete no Job.  First, a sequence   *)
(* that a restarted manager resumes.                                       *)
LEMMA ResumeMoves ==
    ASSUME TypeOK, KeepPremise, KeepInv, NEW id \in JobIds, NEW s \in Steps,
           ResumeSequence(id, s)
    PROVE  Moves(id, 1, stream) /\ ~ Unrestarted
  <1>1. NewMachine \in Machine /\ NewMachine.current = 0 /\ NewMachine.repeat = {}
    BY NumStepsAssumption DEF NewMachine, Machine, Start, Complete
  <1>2. /\ MarkRunning(NewMachine, s) \in Machine
        /\ MarkRunning(NewMachine, s).current = 0
        /\ MarkRunning(NewMachine, s).repeat = {}
    BY <1>1, MachineTypes DEF MarkRunning, NewMachine, Start
  <1>3. stream \in Streams /\ EnterNext(id, MarkRunning(NewMachine, s), stream)
    BY TypeOKParts DEF ClusterOK, ResumeSequence
  <1>4. ~ Unrestarted /\ MaxErrors = 0
    BY DEF ResumeSequence, KeepInv, MachinesLead, KeepPremise
  <1>5. MarkRunning(NewMachine, s).current + 1 = 1
    BY <1>2
  <1>6. Kept(id, 1, stream)
    BY <1>2, <1>3, <1>4, <1>5, KeepSubmit
  <1> QED
    BY <1>2, <1>3, <1>4, <1>5, <1>6, EnterEffect DEF Moves

(* The first step of a new sequence.                                       *)
LEMMA SubmitMoves ==
    ASSUME TypeOK, KeepPremise, KeepInv, NEW id \in JobIds, SubmitSequence(id)
    PROVE  Moves(id, 1, stream)
  <1>1. /\ NewMachine \in Machine /\ NewMachine.current = 0 /\ NewMachine.repeat = {}
        /\ NewMachine.current + 1 = 1
    BY NumStepsAssumption DEF NewMachine, Machine, Start, Complete
  <1>2. stream \in Streams /\ EnterNext(id, NewMachine, stream)
    BY TypeOKParts DEF ClusterOK, SubmitSequence
  <1>3. MaxErrors = 0 \/ (1 \in Steps => cluster[id][1] = "none")
    BY DEF SubmitSequence, KeepInv, MachinesLead, Blank, KeepPremise
  <1>4. Kept(id, 1, stream)
    BY <1>1, <1>2, <1>3, KeepSubmit
  <1> QED
    BY <1>1, <1>2, <1>4, EnterEffect DEF Moves

(* The next step of a sequence whose step succeeded.                       *)
LEMMA HandleMoves ==
    ASSUME TypeOK, KeepPremise, KeepInv, NEW id \in JobIds, NEW s \in Steps,
           HandleEvent(id, s), EnterNext(id, MarkSucceeded(sm[id]), Deliver(id, s))
    PROVE  Moves(id, sm[id].current + 1, Deliver(id, s))
  <1>1. /\ id \in tracked /\ pc = "watch" /\ stream[id][s] # << >>
        /\ MarkSucceeded(sm[id]) \in Machine
        /\ MarkSucceeded(sm[id]).current = sm[id].current
        /\ MarkSucceeded(sm[id]).repeat = {}
    BY HandleEffect DEF KeepPremise, KeepInv
  <1>2. Deliver(id, s) \in Streams /\ sm[id].current \in Nat
    BY <1>1, DeliverType, Counts
  <1>3. MaxErrors = 0 \/ (sm[id].current + 1 \in Steps => cluster[id][sm[id].current + 1] = "none")
    BY <1>1, <1>2 DEF KeepInv, MachinesLead, KeepPremise
  <1>4. Kept(id, sm[id].current + 1, Deliver(id, s))
    BY <1>1, <1>2, <1>3, KeepSubmit
  <1> QED
    BY <1>1, <1>2, <1>4, EnterEffect DEF Moves

(* What a submission leaves of the Jobs: it creates at most the one.       *)
LEMMA KeptJobs ==
    ASSUME TypeOK, NEW id \in JobIds, NEW e, NEW q, Kept(id, e, q)
    PROVE  /\ done' = done
           /\ \A j \in JobIds, x \in Steps : cluster[j][x] # "none" => cluster'[j][x] = cluster[j][x]
           /\ \A j \in JobIds, x \in Steps :
                 cluster'[j][x] # cluster[j][x] =>
                    j = id /\ x = e /\ cluster'[j][x] \in {"queued", "requested"}
  <1>0. cluster \in [JobIds -> [Steps -> Status]] /\ FirstStatus(e) \in {"queued", "requested"}
    BY DEF TypeOK, FirstStatus
  <1>1. CASE Created(id, e, q)
    BY <1>0, <1>1 DEF Kept, Created
  <1>2. CASE cluster' = cluster
    BY <1>2 DEF Kept
  <1> QED
    BY <1>1, <1>2 DEF Kept

(* A Job that goes on, or is touched, has been created and stays.          *)
LEMMA ProgressJobs ==
    ASSUME TypeOK, NEW id \in JobIds, NEW s \in Steps, JobProgress(id, s) \/ Touch(id, s)
    PROVE  /\ cluster[id][s] # "none"
           /\ \A j \in JobIds, x \in Steps : j # id \/ x # s => cluster'[j][x] = cluster[j][x]
           /\ cluster'[id][s] \in Successors(cluster[id][s]) \cup {cluster[id][s]}
           /\ IsListed(cluster'[id][s])
           /\ UNCHANGED <<script, pc, watching, tracked, sm, resume, batch, used>>
           /\ stream' = IF watching THEN [stream EXCEPT ![id][s] = Append(@, cluster'[id][s])]
                        ELSE stream
           /\ done' = IF cluster'[id][s] = "succeeded"
                      THEN [done EXCEPT ![id] = @ \cup {s}] ELSE done
  <1>1. PICK st : /\ SetStatus(id, s, st, stream)
                  /\ cluster[id][s] # "none"
                  /\ IsListed(st)
                  /\ st \in Successors(cluster[id][s]) \cup {cluster[id][s]}
    BY DEF JobProgress, Touch, Successors, IsListed
  <1>2. /\ cluster'[id][s] = st
        /\ \A j \in JobIds, x \in Steps : j # id \/ x # s => cluster'[j][x] = cluster[j][x]
    BY <1>1 DEF SetStatus, TypeOK
  <1> QED
    BY <1>1, <1>2 DEF SetStatus, JobProgress, Touch, machineVars, loopVars

(* NoRetries is kept where the Job controller replaces no pods.            *)
LEMMA RetriesStep ==
    ASSUME TypeOK, KeepPremise, KeepInv, ~ RetryFailure, [Next]_vars
    PROVE  NoRetries'
  <1>0. /\ NoRetries
        /\ cluster \in [JobIds -> [Steps -> Status]] /\ stream \in Streams
        /\ "queued" \in Listed \ Retried
        /\ << >> \in Seq(Listed \ Retried)
    BY TypeOKParts DEF KeepInv, ClusterOK, Listed, Retried, IsListed, Status
  <1>1. ASSUME NEW id \in JobIds, NEW e, NEW q \in [JobIds -> [Steps -> Seq(Listed \ Retried)]],
               Kept(id, e, q)
        PROVE  NoRetries'
    <2>1. \A j \in JobIds, x \in Steps : cluster'[j][x] \notin Retried
      BY <1>0, <1>1, KeptJobs DEF NoRetries, Retried
    <2>2. ASSUME NEW j \in JobIds, NEW x \in Steps PROVE stream'[j][x] \in Seq(Listed \ Retried)
      <3>1. \/ stream' = q
            \/ e \in Steps /\ stream' = [q EXCEPT ![id][e] = Append(@, "queued")]
        BY <1>1 DEF Kept, Created
      <3>2. e \in Steps => Append(q[id][e], "queued") \in Seq(Listed \ Retried)
        BY <1>0, <1>1
      <3> QED
        BY <1>1, <3>1, <3>2
    <2> QED
      BY <2>1, <2>2 DEF NoRetries
  <1>2. stream \in [JobIds -> [Steps -> Seq(Listed \ Retried)]]
    BY <1>0 DEF NoRetries, Streams
  <1>3. ASSUME NEW id \in JobIds, NEW s \in Steps, stream[id][s] # << >>
        PROVE  /\ Deliver(id, s) \in [JobIds -> [Steps -> Seq(Listed \ Retried)]]
               /\ Head(stream[id][s]) \notin Retried
    <2>1. stream[id][s] \in Seq(Listed \ Retried)
      BY <1>2
    <2>2. Tail(stream[id][s]) \in Seq(Listed \ Retried) /\ Head(stream[id][s]) \in Listed \ Retried
      BY <1>3, <2>1
    <2> QED
      BY <1>2, <2>2 DEF Deliver
  <1>4. ASSUME NEW q \in [JobIds -> [Steps -> Seq(Listed \ Retried)]],
               cluster' = cluster, stream' = q
        PROVE  NoRetries'
    BY <1>0, <1>4 DEF NoRetries
  <1>5. NoStream \in [JobIds -> [Steps -> Seq(Listed \ Retried)]]
    BY <1>0 DEF NoStream
  <1>6. ASSUME NEW id \in JobIds, NEW s \in Steps, JobProgress(id, s) \/ Touch(id, s)
        PROVE  NoRetries'
    <2>1. cluster'[id][s] \in Listed \ Retried
      <3>1. /\ cluster'[id][s] \in Successors(cluster[id][s]) \cup {cluster[id][s]}
            /\ IsListed(cluster'[id][s])
        BY <1>6, ProgressJobs
      <3>2. cluster[id][s] \in Status \ Retried
        BY <1>0 DEF NoRetries
      <3>3. Successors(cluster[id][s]) \subseteq Status \ Retried
        BY <3>2 DEF Successors, Retried, Status
      <3> QED
        BY <3>1, <3>2, <3>3 DEF Listed
    <2>2. Append(stream[id][s], cluster'[id][s]) \in Seq(Listed \ Retried)
      BY <1>2, <2>1
    <2>3. \A j \in JobIds, x \in Steps : stream'[j][x] \in Seq(Listed \ Retried)
      <3>1. \/ stream' = stream
            \/ stream' = [stream EXCEPT ![id][s] = Append(@, cluster'[id][s])]
        BY <1>6, ProgressJobs
      <3> QED
        BY <1>2, <2>2, <3>1
    <2>4. \A j \in JobIds, x \in Steps : cluster'[j][x] \notin Retried
      BY <1>0, <1>6, <2>1, ProgressJobs DEF NoRetries
    <2> QED
      BY <2>3, <2>4 DEF NoRetries
  <1>7. ASSUME NEW id \in JobIds, NEW s \in Steps, Receive(id, s) PROVE NoRetries'
    <2>1. stream[id][s] # << >>
      BY <1>7 DEF Receive, IgnoreEvent, HandleEvent
    <2>2. Deliver(id, s) \in [JobIds -> [Steps -> Seq(Listed \ Retried)]]
      BY <1>3, <2>1
    <2>3. CASE IgnoreEvent(id, s)
      BY <1>4, <2>2, <2>3 DEF IgnoreEvent
    <2>4. CASE HandleEvent(id, s)
      <3>1. \/ EnterNext(id, MarkSucceeded(sm[id]), Deliver(id, s))
            \/ cluster' = cluster /\ stream' = Deliver(id, s)
        BY <2>4, HandleEffect DEF KeepPremise, KeepInv, FailJob
      <3>2. ASSUME EnterNext(id, MarkSucceeded(sm[id]), Deliver(id, s)) PROVE NoRetries'
        BY <1>1, <2>2, <2>4, <3>2, HandleMoves DEF Moves
      <3> QED
        BY <1>4, <2>2, <3>1, <3>2
    <2> QED
      BY <1>7, <2>3, <2>4 DEF Receive
  <1>8. CASE Watch
    <2> DEFINE replay == [id \in JobIds |-> [s \in Steps |->
                             IF IsListed(cluster[id][s]) THEN <<cluster[id][s]>> ELSE << >>]]
    <2>1. cluster' = cluster /\ (stream' = stream \/ stream' = replay)
      BY <1>8 DEF Watch
    <2>2. ASSUME NEW id \in JobIds, NEW s \in Steps, IsListed(cluster[id][s])
          PROVE  <<cluster[id][s]>> \in Seq(Listed \ Retried)
      <3>1. cluster[id][s] \in Listed \ Retried
        BY <1>0, <2>2 DEF NoRetries, Listed
      <3> QED
        BY <3>1
    <2>3. replay \in [JobIds -> [Steps -> Seq(Listed \ Retried)]]
      BY <1>0, <2>2
    <2> HIDE DEF replay
    <2> QED
      BY <1>2, <1>4, <2>1, <2>3
  <1>9. CASE InitState \/ NewJobs \/ Lost \/ Quiet
    BY <1>2, <1>4, <1>5, <1>9 DEF InitState, NewJobs, Lost, ProcessLost, Quiet, clusterVars
  <1>10. ASSUME NEW id \in JobIds, NEW s \in Steps, ResumeSequence(id, s) PROVE NoRetries'
    BY <1>1, <1>2, <1>10, ResumeMoves DEF Moves
  <1>11. ASSUME NEW id \in JobIds, SubmitSequence(id) PROVE NoRetries'
    BY <1>1, <1>2, <1>11, SubmitMoves DEF Moves
  <1> QED
    BY <1>6, <1>7, <1>8, <1>9, <1>10, <1>11, StepShape

(* MachinesLead is kept where the manager is not restarted.                *)
LEMMA LeadStep ==
    ASSUME TypeOK, KeepPremise, KeepInv, Unrestarted, [Next]_vars
    PROVE  MachinesLead'
  <1>0. /\ MachinesLead /\ MaxCrashes = 0 /\ (FreshIds \/ ~ RetryFailure)
        /\ cluster \in [JobIds -> [Steps -> Status]] /\ tracked \subseteq JobIds
        /\ \A j \in JobIds : sm[j].current \in Nat
    BY Counts DEF Unrestarted, KeepInv, TypeOK
  <1>1. CASE InitState
    <2>1. /\ pc = "down" /\ pc' = "resume" /\ used' = used /\ cluster' = cluster
          /\ tracked' = {id \in JobIds : {s \in Steps : Unfinished(cluster[id][s])} # {}}
          /\ resume' = {p \in (JobIds \ tracked') \X Steps :
                           p[2] # NumSteps /\ InSuccess(cluster[p[1]][p[2]])}
      BY <1>1 DEF InitState, clusterVars
    <2>2. used = {} /\ \A id \in JobIds, s \in Steps : cluster[id][s] = "none"
      BY <1>0, <2>1 DEF MachinesLead, Blank
    <2>3. tracked' = {} /\ resume' = {}
      BY <2>1, <2>2 DEF Unfinished, InQueued, InRunning, InSuccess, IsCompleted
    <2> QED
      BY <2>1, <2>2, <2>3 DEF MachinesLead, Blank
  <1>2. ASSUME NEW id \in JobIds, NEW e \in Nat, NEW q, Moves(id, e, q),
               pc \notin {"down", "resume", "died"}, pc' \notin {"down", "resume"},
               id \in used', used \subseteq used', tracked' = tracked \cup {id},
               \A x \in Steps : x > e => cluster[id][x] = "none"
        PROVE  MachinesLead'
    <2>1. \A j \in JobIds, x \in Steps :
             cluster'[j][x] = cluster[j][x] \/ (j = id /\ x = e)
      BY <1>2, KeptJobs DEF Moves
    <2>2. \A x \in Steps : x > sm'[id].current => cluster'[id][x] = "none"
      BY <1>2, <2>1 DEF Moves, Steps
    <2>3. ASSUME NEW j \in JobIds \ {id}
          PROVE  /\ j \in tracked' =>
                       /\ j \in used'
                       /\ \A s \in Steps : s > sm'[j].current => cluster'[j][s] = "none"
                 /\ j \notin tracked' /\ (FreshIds => j \notin used') => Blank(j)'
      BY <1>0, <1>2, <2>1 DEF MachinesLead, Moves, Blank
    <2> QED
      BY <1>2, <2>2, <2>3 DEF MachinesLead
  <1>3. ASSUME NEW id \in JobIds, NEW s \in Steps, ResumeSequence(id, s) PROVE FALSE
    BY <1>3, ResumeMoves
  <1>4. ASSUME NEW id \in JobIds, SubmitSequence(id) PROVE MachinesLead'
    <2>1. /\ id \notin tracked /\ (FreshIds => id \notin used) /\ pc = "submit" /\ pc' = pc
          /\ tracked' = tracked \cup {id} /\ used' = used \cup {id}
      BY <1>4 DEF SubmitSequence
    <2>2. Blank(id)
      BY <1>0, <2>1 DEF MachinesLead
    <2> QED
      BY <1>2, <1>4, <2>1, <2>2, SubmitMoves DEF Blank
  <1>5. ASSUME pc' \in {"down", "resume"} => pc' = pc, pc = "died" => pc' = "died",
               UNCHANGED <<cluster, tracked, used>>,
               \A j \in JobIds : sm'[j].current = sm[j].current, resume' \subseteq resume
        PROVE  MachinesLead'
    BY <1>0, <1>5 DEF MachinesLead, Blank
  <1>6. ASSUME NEW id \in JobIds, NEW s \in Steps, HandleEvent(id, s) PROVE MachinesLead'
    <2>1. /\ id \in tracked /\ pc = "watch" /\ pc' = "check" /\ stream[id][s] # << >>
          /\ UNCHANGED <<resume, used>>
          /\ MarkSucceeded(sm[id]).current = sm[id].current
          /\ \/ /\ EnterNext(id, MarkSucceeded(sm[id]), Deliver(id, s))
                /\ tracked' = tracked
             \/ Head(stream[id][s]) = "recovered" /\ FailJob(id, Deliver(id, s))
             \/ /\ \/ sm' = [sm EXCEPT ![id] = sm[id]]
                   \/ sm' = [sm EXCEPT ![id] = MarkSucceeded(sm[id])]
                /\ UNCHANGED <<cluster, tracked>>
      BY <1>6, HandleEffect DEF KeepPremise, KeepInv
    <2>2. id \in used /\ \A x \in Steps : x > sm[id].current => cluster[id][x] = "none"
      BY <1>0, <2>1 DEF MachinesLead
    <2>3. CASE EnterNext(id, MarkSucceeded(sm[id]), Deliver(id, s)) /\ tracked' = tracked
      <3>1. \A x \in Steps : x > sm[id].current + 1 => x > sm[id].current
        BY <1>0 DEF Steps
      <3>2. Moves(id, sm[id].current + 1, Deliver(id, s)) /\ sm[id].current + 1 \in Nat
        BY <1>0, <1>6, <2>3, HandleMoves
      <3>3. tracked' = tracked \cup {id}
        BY <2>1, <2>3
      <3> QED
        BY <1>2, <2>1, <2>2, <3>1, <3>2, <3>3
    <2>4. CASE Head(stream[id][s]) = "recovered" /\ FailJob(id, Deliver(id, s))
      <3>1. RetryFailure
        <4>1. SUFFICES ASSUME ~ RetryFailure PROVE FALSE
          OBVIOUS
        <4>2. stream[id][s] \in Seq(Listed \ Retried)
          BY <4>1 DEF KeepInv, NoRetries
        <4>3. Head(stream[id][s]) \in Listed \ Retried
          BY <2>1, <4>2
        <4> QED
          BY <2>4, <4>3 DEF Retried
      <3>2. FreshIds /\ id \in used'
        BY <1>0, <2>1, <2>2, <3>1
      <3>3. /\ cluster' = cluster /\ tracked' = tracked \ {id}
            /\ \A j \in JobIds \ {id} : sm'[j] = sm[j]
        BY <2>4 DEF FailJob, TypeOK
      <3> QED
        BY <1>0, <2>1, <3>2, <3>3 DEF MachinesLead, Blank
    <2>5. CASE /\ \/ sm' = [sm EXCEPT ![id] = sm[id]]
                  \/ sm' = [sm EXCEPT ![id] = MarkSucceeded(sm[id])]
               /\ UNCHANGED <<cluster, tracked>>
      <3>1. \A j \in JobIds : sm'[j].current = sm[j].current
        BY <2>1, <2>5 DEF TypeOK
      <3> QED
        BY <1>5, <2>1, <2>5, <3>1
    <2> QED
      BY <2>1, <2>3, <2>4, <2>5
  <1>7. ASSUME NEW id \in JobIds, NEW s \in Steps,
               Receive(id, s) \/ JobProgress(id, s) \/ Touch(id, s)
        PROVE  MachinesLead'
    <2>1. CASE IgnoreEvent(id, s)
      BY <1>5, <2>1 DEF IgnoreEvent, machineVars, loopVars
    <2>2. CASE JobProgress(id, s) \/ Touch(id, s)
      <3>1. /\ UNCHANGED <<pc, tracked, sm, used, resume>>
            /\ \A j \in JobIds, x \in Steps : cluster[j][x] = "none" => cluster'[j][x] = "none"
        BY <2>2, ProgressJobs
      <3> QED
        BY <1>0, <3>1 DEF MachinesLead, Blank
    <2> QED
      BY <1>6, <1>7, <2>1, <2>2 DEF Receive
  <1>8. CASE NewJobs \/ Watch \/ Quiet
    BY <1>5, <1>8 DEF NewJobs, Watch, Quiet, machineVars, loopVars, clusterVars
  <1>9. CASE Lost
    BY <1>0, <1>9 DEF Lost, MachinesLead
  <1> QED
    BY <1>1, <1>3, <1>4, <1>7, <1>8, <1>9, StepShape

(* The invariant behind FinishedStays.                                     *)
LEMMA KeepInvHolds ==
    ASSUME KeepPremise
    PROVE  Spec => []KeepInv
  <1>1. ASSUME Init PROVE KeepInv
    <2>1. << >> \in Seq(Listed \ Retried)
      OBVIOUS
    <2>2. NoRepeats /\ NoRetries
      BY <1>1, <2>1 DEF Init, NoRepeats, NewMachine, NoRetries, NoStream, Retried
    <2>3. MachinesLead
      BY <1>1 DEF Init, MachinesLead, Blank
    <2> QED
      BY <2>2, <2>3 DEF KeepInv
  <1>2. TypeOK /\ KeepInv /\ [Next]_vars => KeepInv'
    BY RepeatsStep, RetriesStep, LeadStep DEF KeepInv, KeepPremise
  <1> QED
    BY <1>1, <1>2, TypeCorrect, PTL DEF Spec

(* What a step does to the Jobs.                                           *)
LEMMA ClusterStep ==
    ASSUME TypeOK, KeepPremise, KeepInv, [Next]_vars
    PROVE  \/ UNCHANGED <<cluster, done>>
           \/ \E id \in JobIds, s \in Steps : JobProgress(id, s) \/ Touch(id, s)
           \/ \E id \in JobIds, s \in Steps :
                 ResumeSequence(id, s) /\ Kept(id, 1, stream)
           \/ \E id \in JobIds : SubmitSequence(id) /\ Kept(id, 1, stream)
           \/ \E id \in JobIds, s \in Steps :
                 HandleEvent(id, s) /\ Kept(id, sm[id].current + 1, Deliver(id, s))
  <1>1. ASSUME NEW id \in JobIds, NEW s \in Steps, Receive(id, s)
        PROVE  \/ UNCHANGED <<cluster, done>>
               \/ HandleEvent(id, s) /\ Kept(id, sm[id].current + 1, Deliver(id, s))
    <2>1. CASE IgnoreEvent(id, s)
      BY <2>1 DEF IgnoreEvent
    <2>2. CASE HandleEvent(id, s)
      <3>1. \/ EnterNext(id, MarkSucceeded(sm[id]), Deliver(id, s))
            \/ UNCHANGED <<cluster, done>>
        BY <2>2, HandleEffect DEF KeepPremise, KeepInv, FailJob
      <3> QED
        BY <2>2, <3>1, HandleMoves DEF Moves
    <2> QED
      BY <1>1, <2>1, <2>2 DEF Receive
  <1>2. CASE InitState \/ NewJobs \/ Watch \/ Lost \/ Quiet
    BY <1>2 DEF InitState, NewJobs, Watch, Lost, ProcessLost, Quiet, clusterVars
  <1> QED
    BY <1>1, <1>2, ResumeMoves, SubmitMoves, StepShape DEF Moves

(***************************************************************************)
(* A finished Job is never deleted or replaced where no rule repeats a     *)
(* step and either no submission fails, or some do and the manager is not  *)
(* restarted: the cleanup after a failed submission, which deletes by      *)
(* name, finds nothing to delete.                                          *)
(***************************************************************************)
THEOREM FinishedAlwaysStays ==
    ASSUME KeepPremise
    PROVE  Spec => FinishedStays
  <1>1. ASSUME TypeOK, KeepInv, [Next]_vars
        PROVE  [\A id \in JobIds, s \in Steps :
                   IsCompleted(cluster[id][s]) => cluster'[id][s] = cluster[id][s]]_cluster
    <2> SUFFICES ASSUME NEW id \in JobIds, NEW s \in Steps, IsCompleted(cluster[id][s])
                 PROVE  cluster'[id][s] = cluster[id][s]
      OBVIOUS
    <2>1. ASSUME NEW j \in JobIds, NEW x \in Steps, JobProgress(j, x) \/ Touch(j, x)
          PROVE  cluster'[id][s] = cluster[id][s]
      BY <1>1, <2>1, ProgressJobs DEF Successors, IsCompleted
    <2>2. ASSUME NEW j \in JobIds, NEW e, NEW q, Kept(j, e, q)
          PROVE  cluster'[id][s] = cluster[id][s]
      BY <1>1, <2>2, KeptJobs DEF IsCompleted
    <2> QED
      BY <1>1, <2>1, <2>2, ClusterStep
  <1> QED
    BY <1>1, TypeCorrect, KeepInvHolds, PTL DEF Spec, FinishedStays

-----------------------------------------------------------------------------
(* The demand.                                                             *)

DemandPremise ==
    /\ KeepPremise
    /\ ~ RetryFailure
    /\ Kind[1] = "job"

Known == {id \in JobIds : \E s \in Steps : IsListed(cluster[id][s])}
Wanted == Completions(cluster) \cup ActiveSequences(cluster)

DemandInv ==
    /\ \A id \in JobIds, s \in Steps :
          /\ stream[id][s] # << >> => IsListed(cluster[id][s])
          /\ cluster[id][s] = "requested" => id \in Known
    /\ \A p \in resume : IsListed(cluster[p[1]][p[2]])
    /\ Cardinality(Wanted) + batch <= CompletionsNeeded
    /\ Cardinality(ActiveSequences(cluster)) + batch <= MaxSize

DoneKept == \A id \in JobIds : \A s \in done[id] : cluster[id][s] = "succeeded"
(* A sequence is wanted when a listing shows a Job of it and none failed.  *)
LEMMA WantedKnown ==
    ASSUME NEW c \in [JobIds -> [Steps -> Status]]
    PROVE  Completions(c) \cup ActiveSequences(c) =
              {id \in JobIds : \E s \in Steps : IsListed(c[id][s])} \ FailedSequences(c)
  <1>0. NumSteps \in Steps
    BY NumStepsAssumption DEF Steps
  <1>1. \A st \in Status : /\ IsListed(st) /\ ~ InFailed(st) <=> Unfinished(st) \/ InSuccess(st)
                           /\ InSuccess(st) => ~ InFailed(st) /\ IsListed(st)
    BY DEF Status, IsListed, InFailed, IsCompleted, HasFailedPods, Unfinished, InQueued,
           InRunning, InSuccess
  <1> QED
    BY <1>0, <1>1 DEF Completions, ActiveSequences, FailedSequences

(* Jobs stay listed, failures and successes stay, and only new_jobs adds   *)
(* a sequence to those a listing shows.                                    *)
LEMMA KnownStep ==
    ASSUME TypeOK, DemandPremise, KeepInv, DemandInv, [Next]_vars
    PROVE  /\ \A j \in JobIds, x \in Steps :
                 /\ IsListed(cluster[j][x]) => IsListed(cluster'[j][x])
                 /\ InFailed(cluster[j][x]) => InFailed(cluster'[j][x])
                 /\ InSuccess(cluster[j][x]) => InSuccess(cluster'[j][x])
                 /\ cluster'[j][x] = "requested" => j \in Known'
           /\ \/ Known' \subseteq Known
              \/ \E id \in JobIds : SubmitSequence(id) /\ Known' \subseteq Known \cup {id}
  <1>0. /\ KeepPremise /\ NoRetries /\ FirstStatus(1) = "queued" /\ 1 \in Steps
        /\ cluster \in [JobIds -> [Steps -> Status]]
    BY NumStepsAssumption DEF DemandPremise, KeepInv, FirstStatus, Steps, TypeOK
  <1>1. CASE UNCHANGED <<cluster, done>>
    BY <1>1 DEF DemandInv, Known
  <1>2. ASSUME NEW id \in JobIds, NEW s \in Steps, JobProgress(id, s) \/ Touch(id, s)
        PROVE  /\ \A j \in JobIds, x \in Steps :
                     /\ IsListed(cluster[j][x]) => IsListed(cluster'[j][x])
                     /\ InFailed(cluster[j][x]) => InFailed(cluster'[j][x])
                     /\ InSuccess(cluster[j][x]) => InSuccess(cluster'[j][x])
                     /\ cluster'[j][x] = "requested" => j \in Known'
               /\ Known' \subseteq Known
    <2>1. /\ cluster'[id][s] \in Successors(cluster[id][s]) \cup {cluster[id][s]}
          /\ cluster[id][s] # "none" /\ IsListed(cluster'[id][s])
          /\ \A j \in JobIds, x \in Steps : j # id \/ x # s => cluster'[j][x] = cluster[j][x]
      BY <1>2, ProgressJobs
    <2>2. cluster[id][s] \in Status \ Retried
      BY <1>0 DEF NoRetries
    <2>3. /\ InFailed(cluster[id][s]) => InFailed(cluster'[id][s])
          /\ InSuccess(cluster[id][s]) => InSuccess(cluster'[id][s])
      BY <2>1, <2>2 DEF InFailed, InSuccess, IsCompleted, HasFailedPods, Successors, Retried,
                        DemandPremise
    <2>4. IsListed(cluster[id][s]) \/ cluster[id][s] = "requested"
      BY <2>1 DEF IsListed
    <2>5. id \in Known
      BY <2>4 DEF DemandInv, Known
    <2>6. Known' \subseteq Known
      BY <2>1, <2>5 DEF Known
    <2>7. \A j \in JobIds, x \in Steps : IsListed(cluster[j][x]) => IsListed(cluster'[j][x])
      BY <2>1
    <2>8. \A j \in JobIds, x \in Steps : cluster'[j][x] = "requested" => j \in Known'
      <3>1. cluster'[id][s] # "requested" /\ Known \subseteq Known'
        BY <2>1, <2>7 DEF IsListed, Known
      <3> QED
        BY <2>1, <3>1 DEF DemandInv
    <2> QED
      BY <2>1, <2>3, <2>6, <2>7, <2>8
  <1>3. ASSUME NEW id \in JobIds, NEW e, NEW q, Kept(id, e, q), id \in Known \/ e = 1
        PROVE  /\ \A j \in JobIds, x \in Steps :
                     /\ IsListed(cluster[j][x]) => IsListed(cluster'[j][x])
                     /\ InFailed(cluster[j][x]) => InFailed(cluster'[j][x])
                     /\ InSuccess(cluster[j][x]) => InSuccess(cluster'[j][x])
                     /\ cluster'[j][x] = "requested" => j \in Known'
               /\ Known' \subseteq Known \cup {id}
    <2>1. \A j \in JobIds, x \in Steps :
             /\ cluster[j][x] # "none" => cluster'[j][x] = cluster[j][x]
             /\ cluster'[j][x] # cluster[j][x] =>
                   j = id /\ x = e /\ cluster'[j][x] \in {"queued", "requested"}
      BY <1>3, KeptJobs
    <2>2. \A j \in JobIds, x \in Steps :
             /\ IsListed(cluster[j][x]) => IsListed(cluster'[j][x])
             /\ InFailed(cluster[j][x]) => InFailed(cluster'[j][x])
             /\ InSuccess(cluster[j][x]) => InSuccess(cluster'[j][x])
      BY <2>1 DEF IsListed, InFailed, InSuccess, IsCompleted, HasFailedPods
    <2>3. Known \subseteq Known' /\ Known' \subseteq Known \cup {id}
      BY <2>1, <2>2 DEF Known
    <2>4. ASSUME NEW j \in JobIds, NEW x \in Steps, cluster'[j][x] = "requested"
          PROVE  j \in Known'
      <3>1. CASE cluster'[j][x] = cluster[j][x]
        BY <2>3, <2>4, <3>1 DEF DemandInv
      <3>2. CASE cluster'[j][x] # cluster[j][x]
        <4>1. j = id /\ x = e /\ cluster'[id][e] = FirstStatus(e)
          BY <1>0, <1>3, <2>1, <3>2 DEF Kept, Created
        <4> QED
          BY <1>0, <1>3, <2>3, <2>4, <4>1
      <3> QED
        BY <3>1, <3>2
    <2> QED
      BY <2>2, <2>3, <2>4
  <1>4. ASSUME NEW id \in JobIds, NEW s \in Steps, ResumeSequence(id, s) PROVE id \in Known
    BY <1>4 DEF ResumeSequence, DemandInv, Known
  <1>5. ASSUME NEW id \in JobIds, NEW s \in Steps, HandleEvent(id, s) PROVE id \in Known
    BY <1>5 DEF HandleEvent, DemandInv, Known
  <1>6. \A id \in Known : Known \cup {id} = Known
    OBVIOUS
  <1> QED
    BY <1>0, <1>1, <1>2, <1>3, <1>4, <1>5, <1>6, ClusterStep

(* What the wanted sequences of the next listing owe to this one.          *)
LEMMA WantedStep ==
    ASSUME TypeOK, TypeOK', DemandPremise, KeepInv, DemandInv, [Next]_vars
    PROVE  \/ /\ Wanted' \subseteq Wanted
              /\ ActiveSequences(cluster') \subseteq ActiveSequences(cluster)
           \/ \E id \in JobIds :
                 /\ SubmitSequence(id)
                 /\ Wanted' \subseteq Wanted \cup {id}
                 /\ ActiveSequences(cluster') \subseteq ActiveSequences(cluster) \cup {id}
  <1>1. cluster \in [JobIds -> [Steps -> Status]] /\ cluster' \in [JobIds -> [Steps -> Status]]
    BY DEF TypeOK
  <1>2. /\ Wanted = Known \ FailedSequences(cluster)
        /\ Wanted' = Known' \ FailedSequences(cluster')
    BY <1>1, WantedKnown DEF Wanted, Known
  <1>3. FailedSequences(cluster) \subseteq FailedSequences(cluster')
    BY KnownStep DEF FailedSequences
  <1>4. ActiveSequences(cluster') \subseteq Wanted' /\ Wanted \subseteq Completions(cluster) \cup ActiveSequences(cluster)
    BY DEF Wanted
  <1>5. ASSUME NEW id \in ActiveSequences(cluster') PROVE id \notin Completions(cluster)
    <2>1. NumSteps \in Steps
      BY NumStepsAssumption DEF Steps
    <2>2. id \in JobIds /\ id \notin FailedSequences(cluster') /\ ~ InSuccess(cluster'[id][NumSteps])
      BY <1>5 DEF ActiveSequences, Completions
    <2> QED
      BY <2>1, <2>2, KnownStep DEF Completions
  <1>6. \A A : Known' \subseteq Known \cup A =>
           /\ Wanted' \subseteq Wanted \cup A
           /\ ActiveSequences(cluster') \subseteq ActiveSequences(cluster) \cup A
    BY <1>2, <1>3, <1>4, <1>5
  <1>7. CASE Known' \subseteq Known
    <2>1. Known' \subseteq Known \cup {}
      BY <1>7
    <2> QED
      BY <1>6, <2>1
  <1>8. ASSUME NEW id \in JobIds, SubmitSequence(id), Known' \subseteq Known \cup {id}
        PROVE  /\ Wanted' \subseteq Wanted \cup {id}
               /\ ActiveSequences(cluster') \subseteq ActiveSequences(cluster) \cup {id}
    BY <1>6, <1>8
  <1> QED
    BY <1>7, <1>8, KnownStep

(* Sets of sequences are finite.                                           *)
LEMMA IdSets ==
    ASSUME NEW A \in SUBSET JobIds
    PROVE  /\ IsFiniteSet(A) /\ Cardinality(A) \in Nat
           /\ \A B \in SUBSET A : Cardinality(B) <= Cardinality(A)
           /\ \A B \in SUBSET JobIds, x \in JobIds :
                 B \subseteq A \cup {x} => Cardinality(B) <= Cardinality(A) + 1
           /\ \A B \in SUBSET (JobIds \ A) : Cardinality(A \cup B) = Cardinality(A) + Cardinality(B)
  <1>1. IsFiniteSet(A)
    BY JobIdsAssumption, FS_Subset
  <1>2. Cardinality(A) \in Nat
    BY <1>1, FS_CardinalityType
  <1>3. \A B \in SUBSET A : Cardinality(B) <= Cardinality(A)
    BY <1>1, FS_Subset
  <1>4. ASSUME NEW B \in SUBSET JobIds, NEW x \in JobIds, B \subseteq A \cup {x}
        PROVE  Cardinality(B) <= Cardinality(A) + 1
    <2>1. /\ IsFiniteSet(A \cup {x})
          /\ Cardinality(A \cup {x}) = IF x \in A THEN Cardinality(A) ELSE Cardinality(A) + 1
      BY <1>1, FS_AddElement
    <2>2. Cardinality(B) <= Cardinality(A \cup {x}) /\ Cardinality(B) \in Nat
      BY <1>4, <2>1, FS_Subset, FS_CardinalityType
    <2> QED
      BY <1>2, <2>1, <2>2
  <1>5. ASSUME NEW B \in SUBSET (JobIds \ A)
        PROVE  Cardinality(A \cup B) = Cardinality(A) + Cardinality(B)
    <2>1. IsFiniteSet(B)
      BY JobIdsAssumption, FS_Subset
    <2>2. A \cap B = {}
      OBVIOUS
    <2>3. Cardinality(A \cup B) = Cardinality(A) + Cardinality(B) - Cardinality(A \cap B)
      BY <1>1, <2>1, FS_Union
    <2>4. Cardinality(A \cap B) = 0
      BY <2>2, FS_EmptySet
    <2>5. Cardinality(B) \in Nat
      BY <2>1, FS_CardinalityType
    <2> QED
      BY <1>2, <2>3, <2>4, <2>5
  <1> QED
    BY <1>1, <1>2, <1>3, <1>4, <1>5

(* The wanted sequences are the completed and the active ones, each once.  *)
LEMMA WantedCount ==
    Cardinality(Wanted) = Cardinality(Completions(cluster)) + Cardinality(ActiveSequences(cluster))
  <1>1. /\ Completions(cluster) \in SUBSET JobIds
        /\ ActiveSequences(cluster) \in SUBSET (JobIds \ Completions(cluster))
    BY DEF Completions, ActiveSequences
  <1> QED
    BY <1>1, IdSets DEF Wanted

(* new_jobs asks for no more than the need and the size leave.             *)
LEMMA SubmitCountBound ==
    ASSUME NEW c \in [JobIds -> [Steps -> Status]], NEW n \in Nat \ {0},
           SubmitCount(c, n) # 0
    PROVE  /\ Cardinality(Completions(c)) + Cardinality(ActiveSequences(c)) + SubmitCount(c, n)
                 <= CompletionsNeeded
           /\ Cardinality(ActiveSequences(c)) + SubmitCount(c, n) <= MaxSize
  <1> DEFINE C == Cardinality(Completions(c))
             A == Cardinality(ActiveSequences(c))
             size == MaxSize \div n
  <1>1. Completions(c) \in SUBSET JobIds /\ ActiveSequences(c) \in SUBSET JobIds
    BY DEF Completions, ActiveSequences
  <1>2. C \in Nat /\ A \in Nat
    BY <1>1, IdSets
  <1>3. MaxSize \in Nat /\ CompletionsNeeded \in Nat
    BY SizesAssumption
  <1>4. size \in Int /\ size <= MaxSize
    BY <1>3
  <1>5. SubmitCount(c, n) = Positive(Least(CompletionsNeeded - C,
                                Positive(Least(size, CompletionsNeeded - C) - A)))
    BY DEF SubmitCount
  <1> HIDE DEF C, A, size
  <1>6. C + A + SubmitCount(c, n) <= CompletionsNeeded /\ A + SubmitCount(c, n) <= MaxSize
    BY <1>2, <1>3, <1>4, <1>5 DEF Positive, Least
  <1> QED
    BY <1>6 DEF C, A

(* The watch speaks only of Jobs that are listed, and so does resume.      *)
LEMMA SpeaksStep ==
    ASSUME TypeOK, DemandPremise, KeepInv, DemandInv, [Next]_vars
    PROVE  /\ \A j \in JobIds, x \in Steps : stream'[j][x] # << >> => IsListed(cluster'[j][x])
           /\ \A p \in resume' : IsListed(cluster'[p[1]][p[2]])
  <1>0. /\ cluster \in [JobIds -> [Steps -> Status]] /\ stream \in Streams
        /\ resume \subseteq JobIds \X Steps
    BY TypeOKParts DEF ClusterOK, ManagerOK
  <1>1. \A j \in JobIds, x \in Steps : IsListed(cluster[j][x]) => IsListed(cluster'[j][x])
    BY KnownStep
  <1>2. \A j \in JobIds, x \in Steps : stream[j][x] # << >> => IsListed(cluster[j][x])
    BY DEF DemandInv
  <1>3. ASSUME resume' \subseteq resume PROVE \A p \in resume' : IsListed(cluster'[p[1]][p[2]])
    BY <1>0, <1>1, <1>3 DEF DemandInv
  <1>4. ASSUME \A j \in JobIds, x \in Steps : stream'[j][x] = << >> \/ stream[j][x] # << >>
        PROVE  \A j \in JobIds, x \in Steps : stream'[j][x] # << >> => IsListed(cluster'[j][x])
    BY <1>1, <1>2, <1>4
  <1>5. ASSUME NEW id \in JobIds, NEW e, NEW q \in Streams, Kept(id, e, q),
               \A j \in JobIds, x \in Steps : q[j][x] = << >> \/ stream[j][x] # << >>
        PROVE  \A j \in JobIds, x \in Steps : stream'[j][x] # << >> => IsListed(cluster'[j][x])
    <2>1. CASE stream' = q
      BY <1>4, <1>5, <2>1
    <2>2. CASE stream' # q
      <3>1. /\ e \in Steps /\ cluster'[id][e] = "queued"
            /\ stream' = [q EXCEPT ![id][e] = Append(@, "queued")]
        BY <1>0, <1>5, <2>2 DEF Kept, Created, FirstStatus
      <3>2. IsListed(cluster'[id][e])
        BY <3>1 DEF IsListed
      <3> QED
        BY <1>1, <1>2, <1>5, <3>1, <3>2 DEF Streams
    <2> QED
      BY <2>1, <2>2
  <1>6. ASSUME NEW id \in JobIds, NEW s \in Steps, stream[id][s] # << >>
        PROVE  /\ Deliver(id, s) \in Streams
               /\ \A j \in JobIds, x \in Steps :
                     Deliver(id, s)[j][x] = << >> \/ stream[j][x] # << >>
    BY <1>0, <1>6, DeliverType DEF Deliver, Streams
  <1>7. CASE InitState
    <2>1. stream' = stream /\ \A p \in resume' : p \in JobIds \X Steps /\ InSuccess(cluster[p[1]][p[2]])
      BY <1>7 DEF InitState, clusterVars
    <2>2. \A p \in resume' : IsListed(cluster[p[1]][p[2]])
      BY <2>1 DEF InSuccess, IsCompleted, IsListed
    <2> QED
      BY <1>1, <1>4, <2>1, <2>2
  <1>8. CASE Watch
    <2>1. /\ resume' = resume /\ cluster' = cluster
          /\ \/ stream' = stream
             \/ stream' = [id \in JobIds |-> [s \in Steps |->
                             IF IsListed(cluster[id][s]) THEN <<cluster[id][s]>> ELSE << >>]]
      BY <1>8 DEF Watch, loopVars
    <2> QED
      BY <1>2, <1>3, <2>1
  <1>9. ASSUME NEW id \in JobIds, NEW s \in Steps, ResumeSequence(id, s)
        PROVE  /\ \A j \in JobIds, x \in Steps : stream'[j][x] # << >> => IsListed(cluster'[j][x])
               /\ resume' \subseteq resume
    <2>1. Kept(id, 1, stream)
      BY <1>9, ResumeMoves DEF Moves, DemandPremise
    <2> QED
      BY <1>0, <1>5, <1>9, <2>1 DEF ResumeSequence
  <1>10. ASSUME NEW id \in JobIds, SubmitSequence(id)
         PROVE  /\ \A j \in JobIds, x \in Steps : stream'[j][x] # << >> => IsListed(cluster'[j][x])
                /\ resume' \subseteq resume
    <2>1. Kept(id, 1, stream)
      BY <1>10, SubmitMoves DEF Moves, DemandPremise
    <2> QED
      BY <1>0, <1>5, <1>10, <2>1 DEF SubmitSequence
  <1>11. ASSUME NEW id \in JobIds, NEW s \in Steps, Receive(id, s)
         PROVE  /\ \A j \in JobIds, x \in Steps : stream'[j][x] # << >> => IsListed(cluster'[j][x])
                /\ resume' \subseteq resume
    <2>1. resume' = resume /\ stream[id][s] # << >>
      BY <1>11 DEF Receive, IgnoreEvent, HandleEvent, loopVars
    <2>2. \/ stream' = Deliver(id, s)
          \/ Kept(id, sm[id].current + 1, Deliver(id, s))
      <3>1. CASE IgnoreEvent(id, s)
        BY <3>1 DEF IgnoreEvent
      <3>2. CASE HandleEvent(id, s)
        <4>1. \/ EnterNext(id, MarkSucceeded(sm[id]), Deliver(id, s))
              \/ stream' = Deliver(id, s)
          BY <3>2, HandleEffect DEF DemandPremise, KeepPremise, KeepInv, FailJob
        <4> QED
          BY <3>2, <4>1, HandleMoves DEF Moves, DemandPremise
      <3> QED
        BY <1>11, <3>1, <3>2 DEF Receive
    <2> QED
      BY <1>4, <1>5, <1>6, <2>1, <2>2
  <1>12. ASSUME NEW id \in JobIds, NEW s \in Steps, JobProgress(id, s) \/ Touch(id, s)
         PROVE  /\ \A j \in JobIds, x \in Steps : stream'[j][x] # << >> => IsListed(cluster'[j][x])
                /\ resume' \subseteq resume
    <2>1. /\ IsListed(cluster'[id][s]) /\ resume' = resume
          /\ \/ stream' = stream
             \/ stream' = [stream EXCEPT ![id][s] = Append(@, cluster'[id][s])]
      BY <1>12, ProgressJobs
    <2>2. \A j \in JobIds, x \in Steps :
             stream'[j][x] = stream[j][x] \/ (j = id /\ x = s)
      BY <1>0, <2>1 DEF Streams
    <2> QED
      BY <1>1, <1>2, <2>1, <2>2
  <1>13. CASE NewJobs \/ Lost \/ Quiet
    <2>1. resume' \subseteq resume /\ (stream' = stream \/ stream' = NoStream)
      BY <1>13 DEF NewJobs, Lost, ProcessLost, Quiet, clusterVars
    <2> QED
      BY <1>3, <1>4, <2>1 DEF NoStream
  <1> QED
    BY <1>3, <1>7, <1>8, <1>9, <1>10, <1>11, <1>12, <1>13, StepShape

(* Only NewJobs raises batch, and only SubmitSequence lowers it and goes   *)
(* on.                                                                     *)
LEMMA BatchStep ==
    ASSUME TypeOK, [Next]_vars
    PROVE  \/ batch' = batch \/ batch' = 0
           \/ NewJobs
           \/ \E id \in JobIds : SubmitSequence(id)
  <1>1. ASSUME NEW id \in JobIds, NEW s \in Steps,
               Receive(id, s) \/ JobProgress(id, s) \/ Touch(id, s)
        PROVE  batch' = batch
    BY <1>1 DEF Receive, IgnoreEvent, HandleEvent, JobProgress, Touch, loopVars
  <1> QED
    BY <1>1, StepShape DEF InitState, Watch, ResumeSequence, Lost, ProcessLost, Quiet, loopVars

(* Two summands that do not grow.                                          *)
LEMMA SumBound ==
    ASSUME NEW n \in Nat, NEW w \in Nat, NEW b \in Nat, NEW v \in Nat, NEW c \in Nat,
           w + b <= n, v <= w, c <= b
    PROVE  v + c <= n
  OBVIOUS

(* The demand is kept.                                                     *)
LEMMA DemandStep ==
    ASSUME TypeOK, TypeOK', DemandPremise, KeepInv, DemandInv, [Next]_vars
    PROVE  DemandInv'
  <1> DEFINE W == Cardinality(Wanted)
             A == Cardinality(ActiveSequences(cluster))
             V == Cardinality(Wanted')
             B == Cardinality(ActiveSequences(cluster'))
  <1>0. /\ Wanted \in SUBSET JobIds /\ Wanted' \in SUBSET JobIds
        /\ ActiveSequences(cluster) \in SUBSET JobIds /\ ActiveSequences(cluster') \in SUBSET JobIds
    BY DEF Wanted, Completions, ActiveSequences
  <1>1. /\ W \in Nat /\ A \in Nat /\ V \in Nat /\ B \in Nat
        /\ batch \in Nat /\ batch' \in Nat /\ MaxSize \in Nat /\ CompletionsNeeded \in Nat
    BY <1>0, IdSets, SizesAssumption DEF TypeOK
  <1>2. W + batch <= CompletionsNeeded /\ A + batch <= MaxSize
    BY DEF DemandInv
  <1>3. \/ V <= W /\ B <= A /\ ~ \E id \in JobIds : SubmitSequence(id)
        \/ /\ \E id \in JobIds : SubmitSequence(id)
           /\ V <= W + 1 /\ B <= A + 1
    <2>1. CASE Wanted' \subseteq Wanted /\ ActiveSequences(cluster') \subseteq ActiveSequences(cluster)
      <3>1. V <= W /\ B <= A
        BY <1>0, <2>1, IdSets
      <3> HIDE DEF W, A, V, B
      <3> QED
        BY <1>1, <3>1
    <2>2. ASSUME NEW id \in JobIds, SubmitSequence(id), Wanted' \subseteq Wanted \cup {id},
                 ActiveSequences(cluster') \subseteq ActiveSequences(cluster) \cup {id}
          PROVE  V <= W + 1 /\ B <= A + 1
      BY <1>0, <2>2, IdSets
    <2> HIDE DEF W, A, V, B
    <2> QED
      BY <2>1, <2>2, WantedStep
  <1>4. ASSUME \E id \in JobIds : SubmitSequence(id)
        PROVE  V + batch' <= CompletionsNeeded /\ B + batch' <= MaxSize
    <2>1. batch' = batch - 1
      BY <1>4 DEF SubmitSequence
    <2> HIDE DEF W, A, V, B
    <2> QED
      BY <1>1, <1>2, <1>3, <1>4, <2>1
  <1>5. ASSUME NewJobs
        PROVE  V + batch' <= CompletionsNeeded /\ B + batch' <= MaxSize
    <2>1. /\ cluster' = cluster /\ batch' = SubmitCount(cluster, nnodes[1])
          /\ cluster \in [JobIds -> [Steps -> Status]] /\ nnodes[1] \in Nat \ {0}
      BY <1>5, NumStepsAssumption DEF NewJobs, clusterVars, TypeOK, Steps
    <2>2. V = W /\ B = A
      BY <2>1 DEF Wanted
    <2>3. W = Cardinality(Completions(cluster)) + A
      BY WantedCount
    <2>4. batch' # 0 =>
             /\ Cardinality(Completions(cluster)) + A + batch' <= CompletionsNeeded
             /\ A + batch' <= MaxSize
      BY <2>1, SubmitCountBound
    <2> HIDE DEF W, A, V, B
    <2>5. CASE batch' = 0
      <3>1. batch' <= batch /\ V <= W /\ B <= A
        BY <1>1, <2>2, <2>5
      <3> QED
        BY <1>1, <1>2, <3>1, SumBound
    <2>6. CASE batch' # 0
      BY <2>2, <2>3, <2>4, <2>6
    <2> QED
      BY <2>5, <2>6
  <1>6. V + batch' <= CompletionsNeeded /\ B + batch' <= MaxSize
    <2>1. ASSUME batch' = batch \/ batch' = 0, V <= W, B <= A
          PROVE  V + batch' <= CompletionsNeeded /\ B + batch' <= MaxSize
      <3> HIDE DEF W, A, V, B
      <3>1. batch' <= batch
        BY <1>1, <2>1
      <3> QED
        BY <1>1, <1>2, <2>1, <3>1, SumBound
    <2> HIDE DEF W, A, V, B
    <2> QED
      BY <1>3, <1>4, <1>5, <2>1, BatchStep
  <1> QED
    BY <1>6, KnownStep, SpeaksStep DEF DemandInv

(* The invariant behind NoSurplus.                                         *)
LEMMA DemandInvHolds ==
    ASSUME DemandPremise
    PROVE  Spec => []DemandInv
  <1>1. ASSUME Init PROVE DemandInv
    <2>1. Wanted = {} /\ ActiveSequences(cluster) = {}
      BY <1>1, NumStepsAssumption DEF Init, Wanted, Completions, ActiveSequences, InSuccess,
           IsCompleted, Unfinished, InQueued, InRunning, Steps
    <2>2. Cardinality({}) = 0
      BY FS_EmptySet
    <2>3. batch = 0 /\ CompletionsNeeded >= 0 /\ MaxSize >= 0
      BY <1>1, SizesAssumption DEF Init
    <2>4. /\ Cardinality(Wanted) + batch <= CompletionsNeeded
          /\ Cardinality(ActiveSequences(cluster)) + batch <= MaxSize
      BY <2>1, <2>2, <2>3, SizesAssumption
    <2> QED
      BY <1>1, <2>4 DEF Init, DemandInv, NoStream
  <1>2. TypeOK /\ KeepInv /\ DemandInv /\ [Next]_vars => DemandInv'
    BY StepType, DemandStep
  <1> QED
    BY <1>1, <1>2, TypeCorrect, KeepInvHolds, PTL DEF Spec, DemandPremise

(***************************************************************************)
(* new_jobs never starts a sequence too many: with the premises of         *)
(* FinishedAlwaysStays, no pod replacement and a first step that is a      *)
(* plain Job (one whose Job another controller creates is not listed when  *)
(* the next new_jobs counts), the completed, the active and the batch      *)
(* never exceed the completions needed.                                    *)
(***************************************************************************)
THEOREM NoSurplusHolds ==
    ASSUME DemandPremise
    PROVE  Spec => []NoSurplus
  <1>1. TypeOK /\ DemandInv => NoSurplus
    BY WantedCount DEF DemandInv, NoSurplus
  <1> QED
    BY <1>1, TypeCorrect, DemandInvHolds, PTL

-----------------------------------------------------------------------------
(* One Job of a sequence at a time.                                        *)

(* What has succeeded is still there.                                      *)
LEMMA DoneKeptStep ==
    ASSUME TypeOK, KeepPremise, KeepInv, DoneKept, [Next]_vars
    PROVE  DoneKept'
  <1>0. done \in [JobIds -> SUBSET Steps]
    BY DEF TypeOK
  <1>1. CASE UNCHANGED <<cluster, done>>
    BY <1>1 DEF DoneKept
  <1>2. ASSUME NEW id \in JobIds, NEW s \in Steps, JobProgress(id, s) \/ Touch(id, s)
        PROVE  DoneKept'
    <2>1. /\ cluster'[id][s] \in Successors(cluster[id][s]) \cup {cluster[id][s]}
          /\ \A j \in JobIds, x \in Steps : j # id \/ x # s => cluster'[j][x] = cluster[j][x]
          /\ done' = IF cluster'[id][s] = "succeeded"
                     THEN [done EXCEPT ![id] = @ \cup {s}] ELSE done
      BY <1>2, ProgressJobs
    <2>2. cluster[id][s] = "succeeded" => cluster'[id][s] = "succeeded"
      BY <2>1 DEF Successors
    <2>3. ASSUME NEW j \in JobIds, NEW x \in done'[j] PROVE cluster'[j][x] = "succeeded"
      <3>1. x \in done[j] \/ (j = id /\ x = s /\ cluster'[id][s] = "succeeded")
        BY <1>0, <2>1, <2>3
      <3>2. x \in done[j] => x \in Steps /\ cluster[j][x] = "succeeded"
        BY <1>0 DEF DoneKept
      <3> QED
        BY <2>1, <2>2, <3>1, <3>2
    <2> QED
      BY <2>3 DEF DoneKept
  <1>3. ASSUME NEW id \in JobIds, NEW e, NEW q, Kept(id, e, q) PROVE DoneKept'
    BY <1>0, <1>3, KeptJobs DEF DoneKept
  <1> QED
    BY <1>1, <1>2, <1>3, ClusterStep

(* So a sequence's Jobs are succeeded ones, and at most one that is not.   *)
LEMMA OneAtATime ==
    ASSUME TypeOK, StepInv, DoneKept, NEW id \in JobIds, NEW s \in Steps,
           cluster[id][s] \notin {"none", "succeeded"}
    PROVE  /\ \A t \in Steps : t < s => cluster[id][t] = "succeeded" /\ t \in done[id]
           /\ \A t \in Steps : t > s => cluster[id][t] = "none"
           /\ done[id] = 1 .. (s - 1)
  <1>0. /\ InOrder(id) /\ DoneIsPrefix(id) /\ done[id] \subseteq Steps
        /\ \A x \in done[id] : cluster[id][x] = "succeeded"
    BY DEF StepInv, SequenceInv, TypeOK, DoneKept
  <1>1. ASSUME NEW x \in Steps, NEW t \in Steps, t < x, cluster[id][x] # "none"
        PROVE  t \in done[id]
    <2>1. x - 1 \in Steps /\ x > 1 /\ (t = x - 1 \/ t < x - 1)
      BY <1>1, NumStepsAssumption DEF Steps
    <2>2. x - 1 \in done[id]
      BY <1>0, <1>1, <2>1 DEF InOrder
    <2> QED
      BY <1>0, <2>1, <2>2 DEF DoneIsPrefix
  <1>2. \A t \in Steps : t < s => cluster[id][t] = "succeeded" /\ t \in done[id]
    BY <1>0, <1>1
  <1>3. s \notin done[id]
    BY <1>0
  <1>4. \A t \in Steps : t > s => cluster[id][t] = "none" /\ t \notin done[id]
    BY <1>0, <1>1, <1>3 DEF Steps
  <1>5. done[id] = 1 .. (s - 1)
    <2>1. \A t \in Steps : t \in done[id] <=> t < s
      BY <1>2, <1>3, <1>4 DEF Steps
    <2>2. \A t : t \in 1 .. (s - 1) <=> t \in Steps /\ t < s
      BY NumStepsAssumption DEF Steps
    <2> QED
      BY <1>0, <2>1, <2>2
  <1> QED
    BY <1>2, <1>4, <1>5

(* A sequence with a Job that holds or waits for nodes counts as active.   *)
LEMMA OccupiesActive ==
    ASSUME TypeOK, StepInv, DoneKept, DemandInv, NEW id \in JobIds, NEW s \in Steps,
           Occupies(cluster[id][s]), cluster[id][s] # "retrying"
    PROVE  id \in ActiveSequences(cluster)
  <1>0. cluster[id][s] \in {"requested", "queued", "running"} /\ NumSteps \in Steps
    BY NumStepsAssumption DEF Occupies, Steps
  <1>1. /\ \A t \in Steps : t < s => cluster[id][t] = "succeeded"
        /\ \A t \in Steps : t > s => cluster[id][t] = "none"
    BY <1>0, OneAtATime
  <1>2. \A t \in Steps : ~ InFailed(cluster[id][t])
    BY <1>0, <1>1 DEF InFailed, IsCompleted, HasFailedPods, Steps
  <1>3. ~ InSuccess(cluster[id][NumSteps])
    BY <1>0, <1>1 DEF InSuccess, IsCompleted, Steps
  <1>4. id \notin FailedSequences(cluster) /\ id \notin Completions(cluster)
    BY <1>2, <1>3 DEF FailedSequences, Completions
  <1>5. id \in Known
    BY <1>0 DEF DemandInv, Known, IsListed
  <1>6. cluster \in [JobIds -> [Steps -> Status]]
    BY DEF TypeOK
  <1> QED
    BY <1>4, <1>5, <1>6, WantedKnown DEF Known

(* The invariants of this section together.                                *)
LEMMA SequencesHold ==
    ASSUME Premise, DemandPremise
    PROVE  Spec => [](TypeOK /\ StepInv /\ KeepInv /\ DemandInv /\ DoneKept)
  <1>1. Init => DoneKept
    BY DEF Init, DoneKept
  <1>2. TypeOK /\ KeepInv /\ DoneKept /\ [Next]_vars => DoneKept'
    BY DoneKeptStep DEF DemandPremise
  <1>3. KeepPremise
    BY DEF DemandPremise
  <1>4. Spec => []KeepInv
    BY <1>3, KeepInvHolds
  <1> QED
    BY <1>1, <1>2, <1>4, TypeCorrect, StepInvHolds, DemandInvHolds, PTL DEF Spec

(***************************************************************************)
(* The Jobs that hold or wait for nodes, with the sequences about to be    *)
(* submitted, fit max_size, however stale the listing new_jobs counted in  *)
(* is when it submits: each sequence has one such Job at a time.           *)
(***************************************************************************)
THEOREM WithinMaxSizeHolds ==
    ASSUME Premise, DemandPremise
    PROVE  Spec => []WithinMaxSize
  <1>1. ASSUME TypeOK, StepInv, KeepInv, DemandInv, DoneKept
        PROVE  WithinMaxSize
    <2> DEFINE Pairs == {p \in JobIds \X Steps : Occupies(cluster[p[1]][p[2]])}
               A == ActiveSequences(cluster)
               f == [p \in Pairs |-> p[1]]
    <2>1. \A j \in JobIds, x \in Steps : cluster[j][x] # "retrying"
      BY <1>1 DEF DemandPremise, KeepInv, NoRetries, Retried
    <2>2. \A p \in Pairs : p[1] \in A
      BY <1>1, <2>1, OccupiesActive
    <2>3. ASSUME NEW p \in Pairs, NEW r \in Pairs, p[1] = r[1] PROVE p = r
      <3>1. /\ p[1] \in JobIds /\ p[2] \in Steps /\ r[2] \in Steps
            /\ p = <<p[1], p[2]>> /\ r = <<r[1], r[2]>>
            /\ cluster[p[1]][p[2]] \notin {"none", "succeeded"}
            /\ cluster[p[1]][r[2]] \notin {"none", "succeeded"}
        BY <2>3 DEF Occupies
      <3>2. ~ (p[2] < r[2]) /\ ~ (p[2] > r[2])
        BY <1>1, <3>1, OneAtATime
      <3>3. p[2] = r[2]
        BY <3>1, <3>2 DEF Steps
      <3> QED
        BY <2>3, <3>1, <3>3
    <2>4. f \in Injection(Pairs, A)
      BY <2>2, <2>3 DEF Injection, IsInjective
    <2>5. A \in SUBSET JobIds
      BY DEF ActiveSequences
    <2>6. IsFiniteSet(A) /\ Cardinality(A) \in Nat
      BY <2>5, IdSets
    <2> HIDE DEF f
    <2>7. IsFiniteSet(Pairs) /\ Cardinality(Pairs) <= Cardinality(A)
      BY <2>4, <2>6, FS_Injection
    <2>8. /\ Cardinality(Pairs) \in Nat
          /\ Cardinality(A) + batch <= MaxSize
          /\ batch \in Nat /\ MaxSize \in Nat
      BY <1>1, <2>7, FS_CardinalityType, SizesAssumption DEF DemandInv, TypeOK
    <2> HIDE DEF A, Pairs
    <2>9. Cardinality(Pairs) + batch <= MaxSize
      BY <2>6, <2>7, <2>8
    <2> QED
      BY <2>9 DEF WithinMaxSize, Pairs
  <1> QED
    BY <1>1, SequencesHold, PTL

-----------------------------------------------------------------------------
(* The manager implements Workflow.                                        *)

Phases == [id \in JobIds |-> Phase(cluster[id])]

(* The phase of a sequence, from what get_current_state counts it as.      *)
LEMMA PhaseOf ==
    ASSUME NEW c \in [JobIds -> [Steps -> Status]], NEW id \in JobIds
    PROVE  /\ id \in FailedSequences(c) => Phase(c[id]) = "failed"
           /\ id \in Completions(c) => Phase(c[id]) = "completed"
           /\ id \in ActiveSequences(c) => Phase(c[id]) = "active"
           /\ ~ (\E s \in Steps : IsListed(c[id][s])) => Phase(c[id]) = "new"
  <1>0. NumSteps \in Steps /\ \A s \in Steps : c[id][s] \in Status
    BY NumStepsAssumption DEF Steps
  <1>1. \A st \in Status : ~ IsListed(st) => ~ InFailed(st) /\ ~ InSuccess(st) /\ ~ Unfinished(st)
    BY DEF Status, IsListed, InFailed, InSuccess, IsCompleted, HasFailedPods, Unfinished,
           InQueued, InRunning
  <1> QED
    BY <1>0, <1>1 DEF FailedSequences, Completions, ActiveSequences, Phase

(* A sequence counts as one of the four.                                   *)
LEMMA FourPhases ==
    ASSUME TypeOK
    PROVE  /\ Wanted = {id \in JobIds : Phases[id] \in {"active", "completed"}}
           /\ \A id \in JobIds : id \in Known =>
                 \/ id \in FailedSequences(cluster)
                 \/ id \in Completions(cluster)
                 \/ id \in ActiveSequences(cluster)
  <1>1. cluster \in [JobIds -> [Steps -> Status]]
    BY DEF TypeOK
  <1>2. Wanted = Known \ FailedSequences(cluster)
    BY <1>1, WantedKnown DEF Wanted, Known
  <1>3. ASSUME NEW id \in JobIds
        PROVE  id \in Wanted <=> Phases[id] \in {"active", "completed"}
    <2>1. Phases[id] = Phase(cluster[id])
      BY DEF Phases
    <2>2. CASE id \in FailedSequences(cluster)
      BY <1>1, <1>2, <2>1, <2>2, PhaseOf
    <2>3. CASE id \in Completions(cluster) \/ id \in ActiveSequences(cluster)
      BY <1>1, <2>1, <2>3, PhaseOf DEF Wanted
    <2>4. CASE id \notin Known
      BY <1>1, <1>2, <2>1, <2>4, PhaseOf DEF Known
    <2> QED
      BY <1>2, <2>2, <2>3, <2>4 DEF Wanted
  <1>4. Wanted \subseteq JobIds
    BY DEF Wanted, Completions, ActiveSequences
  <1> QED
    BY <1>2, <1>3, <1>4 DEF Wanted

(* One sequence's Jobs change and no other's.                              *)
LEMMA OnePhase ==
    ASSUME NEW id \in JobIds, NEW ph, \A j \in JobIds \ {id} : cluster'[j] = cluster[j],
           Phase(cluster'[id]) = ph
    PROVE  Phases' = [Phases EXCEPT ![id] = ph]
  BY DEF Phases

(* Workflow counts as this module does.                                    *)
LEMMA SameCardinality ==
    ASSUME NEW S
    PROVE  Promise!Cardinality(S) = Cardinality(S)
  BY DEF Promise!Cardinality, Cardinality

(* A sequence is begun.                                                    *)
LEMMA SubmitBegins ==
    ASSUME Premise, DemandPremise, TypeOK, TypeOK', StepInv, KeepInv, DemandInv,
           NEW id \in JobIds, SubmitSequence(id)
    PROVE  Promise!Begin(id) \/ UNCHANGED <<Phases, done>>
  <1>0. /\ cluster \in [JobIds -> [Steps -> Status]] /\ cluster' \in [JobIds -> [Steps -> Status]]
        /\ 1 \in Steps /\ FirstStatus(1) = "queued" /\ NumSteps \in Steps
    <2>1. 1 \in Steps /\ FirstStatus(1) = "queued" /\ NumSteps \in Steps
      BY NumStepsAssumption DEF Steps, FirstStatus, DemandPremise
    <2> QED
      BY <2>1 DEF TypeOK
  <1>1. Kept(id, 1, stream)
    BY SubmitMoves DEF Moves, DemandPremise
  <1>2. \A s \in Steps : cluster[id][s] = "none"
    BY DEF SubmitSequence, Premise, StepInv, SequenceInv, FreshIsBlank
  <1>3. CASE cluster' = cluster
    BY <1>1, <1>3 DEF Phases, Kept
  <1>4. CASE Created(id, 1, stream)
    <2>1. cluster' = [cluster EXCEPT ![id][1] = "queued"] /\ done' = done
      BY <1>0, <1>1, <1>4 DEF Created, Kept
    <2>2. /\ \A j \in JobIds \ {id} : cluster'[j] = cluster[j]
          /\ \A s \in Steps : cluster'[id][s] = IF s = 1 THEN "queued" ELSE "none"
      BY <1>0, <1>2, <2>1
    <2>3. id \in ActiveSequences(cluster')
      <3>1. id \notin FailedSequences(cluster')
        BY <2>2 DEF FailedSequences, InFailed, IsCompleted, HasFailedPods
      <3>2. id \notin Completions(cluster')
        BY <1>0, <2>2 DEF Completions, InSuccess, IsCompleted
      <3> QED
        BY <1>0, <2>2, <3>1, <3>2 DEF ActiveSequences, Unfinished, InQueued
    <2>4. Phase(cluster'[id]) = "active"
      BY <1>0, <2>3, PhaseOf
    <2>5. Phases' = [Phases EXCEPT ![id] = "active"]
      BY <2>2, <2>4, OnePhase
    <2>6. Phases[id] = "new"
      BY <1>0, <1>2, PhaseOf DEF Phases, IsListed
    <2>7. Cardinality(Wanted) < CompletionsNeeded
      <3>1. Wanted \in SUBSET JobIds
        BY DEF Wanted, Completions, ActiveSequences
      <3>2. Cardinality(Wanted) \in Nat /\ batch \in Nat /\ batch > 0
        BY <3>1, IdSets DEF SubmitSequence, TypeOK
      <3>3. Cardinality(Wanted) + batch <= CompletionsNeeded /\ CompletionsNeeded \in Nat
        BY SizesAssumption DEF DemandInv
      <3> QED
        BY <3>2, <3>3
    <2>8. Promise!Wanted = Wanted
      BY FourPhases DEF Promise!Wanted, Phases
    <2>9. Promise!Cardinality(Promise!Wanted) < CompletionsNeeded
      BY <2>7, <2>8, SameCardinality
    <2> QED
      BY <2>1, <2>5, <2>6, <2>9 DEF Promise!Begin, Phases
  <1> QED
    BY <1>1, <1>3, <1>4 DEF Kept

(* The Job of a further step says nothing new of its sequence.             *)
LEMMA FurtherStep ==
    ASSUME TypeOK, TypeOK', NEW id \in JobIds, id \in Known, NEW e, NEW q, Kept(id, e, q)
    PROVE  UNCHANGED <<Phases, done>>
  <1>0. /\ cluster \in [JobIds -> [Steps -> Status]] /\ cluster' \in [JobIds -> [Steps -> Status]]
        /\ NumSteps \in Steps
    <2>1. NumSteps \in Steps
      BY NumStepsAssumption DEF Steps
    <2> QED
      BY <2>1 DEF TypeOK
  <1>1. /\ done' = done
        /\ \A j \in JobIds, x \in Steps :
              \/ cluster'[j][x] = cluster[j][x]
              \/ /\ j = id /\ x = e /\ cluster[j][x] = "none"
                 /\ cluster'[j][x] \in {"queued", "requested"}
    BY KeptJobs
  <1>2. \A j \in JobIds, x \in Steps :
           /\ InFailed(cluster'[j][x]) <=> InFailed(cluster[j][x])
           /\ InSuccess(cluster'[j][x]) <=> InSuccess(cluster[j][x])
           /\ IsListed(cluster[j][x]) => IsListed(cluster'[j][x])
           /\ j # id => (IsListed(cluster'[j][x]) <=> IsListed(cluster[j][x]))
    BY <1>1 DEF InFailed, InSuccess, IsCompleted, HasFailedPods, IsListed
  <1>3. FailedSequences(cluster') = FailedSequences(cluster)
    BY <1>2 DEF FailedSequences
  <1>4. Completions(cluster') = Completions(cluster)
    BY <1>0, <1>2, <1>3 DEF Completions
  <1>5. Known' = Known
    BY <1>2 DEF Known
  <1>6. ASSUME NEW j \in JobIds PROVE Phase(cluster'[j]) = Phase(cluster[j])
    <2>1. CASE j \in FailedSequences(cluster) \/ j \in Completions(cluster)
      BY <1>0, <1>3, <1>4, <2>1, PhaseOf
    <2>2. CASE j \in Known \ (FailedSequences(cluster) \cup Completions(cluster))
      <3>1. j \in ActiveSequences(cluster) /\ j \in ActiveSequences(cluster')
        BY <1>0, <1>3, <1>4, <1>5, <2>2, WantedKnown DEF Known
      <3> QED
        BY <1>0, <3>1, PhaseOf
    <2>3. CASE j \notin Known
      <3>1. /\ ~ \E s \in Steps : IsListed(cluster[j][s])
            /\ ~ \E s \in Steps : IsListed(cluster'[j][s])
        BY <1>5, <2>3 DEF Known
      <3>2. Phase(cluster[j]) = "new"
        BY <1>0, <3>1, PhaseOf
      <3>3. Phase(cluster'[j]) = "new"
        BY <1>0, <3>1, PhaseOf
      <3> QED
        BY <3>2, <3>3
    <2> QED
      BY <2>1, <2>2, <2>3
  <1> QED
    BY <1>1, <1>6 DEF Phases

(* A Job goes on: its step succeeds, fails, or is only nearer its end.     *)
LEMMA ProgressAdvances ==
    ASSUME DemandPremise, TypeOK, TypeOK', StepInv, KeepInv, DemandInv, DoneKept,
           NEW id \in JobIds, NEW s \in Steps, JobProgress(id, s) \/ Touch(id, s)
    PROVE  Promise!Advance(id) \/ Promise!Fail(id) \/ UNCHANGED <<Phases, done>>
  <1>0. cluster \in [JobIds -> [Steps -> Status]] /\ cluster' \in [JobIds -> [Steps -> Status]]
    BY DEF TypeOK
  <1>1. NumSteps \in Steps /\ s \in Nat /\ s >= 1 /\ s <= NumSteps /\ NumSteps \in Nat
    BY NumStepsAssumption DEF Steps
  <1> DEFINE old == cluster[id][s]
             new == cluster'[id][s]
  <1>2. /\ \A j \in JobIds, x \in Steps : j # id \/ x # s => cluster'[j][x] = cluster[j][x]
        /\ new \in Successors(old) \cup {old}
        /\ done' = IF new = "succeeded" THEN [done EXCEPT ![id] = @ \cup {s}] ELSE done
    BY ProgressJobs
  <1>3. \A j \in JobIds \ {id} : cluster'[j] = cluster[j]
    BY <1>0, <1>2
  <1>4. old \in Status \ Retried /\ ~ RetryFailure
    BY <1>0 DEF DemandPremise, KeepInv, NoRetries
  <1>5. CASE new = old
    <2>1. cluster' = cluster
      BY <1>0, <1>2, <1>5
    <2>2. [done EXCEPT ![id] = @ \cup {s}] = done \/ new # "succeeded"
      BY <1>5 DEF TypeOK, StepInv, SequenceInv, DoneIsPrefix
    <2> QED
      BY <1>2, <2>1, <2>2 DEF Phases
  <1>6. CASE new # old
    <2>1. /\ old \in {"requested", "queued", "running"}
          /\ \/ new \in {"queued", "running"}
             \/ new = "succeeded"
             \/ new = "failed"
      BY <1>2, <1>4, <1>6 DEF Successors, Retried, Status
    <2>2. id \in ActiveSequences(cluster)
      BY <2>1, OccupiesActive DEF Occupies
    <2>3. Phases[id] = "active"
      BY <1>0, <2>2, PhaseOf DEF Phases
    <2>4. /\ \A t \in Steps : t < s => cluster'[id][t] = "succeeded"
          /\ \A t \in Steps : t > s => cluster'[id][t] = "none"
          /\ done[id] = 1 .. (s - 1)
      <3>1. /\ \A t \in Steps : t < s => cluster[id][t] = "succeeded"
            /\ \A t \in Steps : t > s => cluster[id][t] = "none"
            /\ done[id] = 1 .. (s - 1)
        BY <2>1, OneAtATime
      <3>2. \A t \in Steps : t < s \/ t > s => t # s
        BY DEF Steps
      <3> QED
        BY <1>2, <3>1, <3>2
    <2>5. \A t \in Steps : t < s \/ t > s \/ t = s
      BY DEF Steps
    <2>6. CASE new = "failed"
      <3>1. id \in FailedSequences(cluster')
        BY <2>6 DEF FailedSequences, InFailed, IsCompleted, HasFailedPods
      <3>2. Phase(cluster'[id]) = "failed"
        BY <1>0, <3>1, PhaseOf
      <3>3. Phases' = [Phases EXCEPT ![id] = "failed"]
        BY <1>3, <3>2, OnePhase
      <3> QED
        BY <1>2, <2>3, <2>6, <3>3 DEF Promise!Fail, Phases
    <2>7. CASE new # "failed"
      <3>1. id \notin FailedSequences(cluster')
        BY <2>1, <2>4, <2>5, <2>7 DEF FailedSequences, InFailed, IsCompleted, HasFailedPods
      <3>2. CASE new = "succeeded" /\ s = NumSteps
        <4>1. id \in Completions(cluster')
          BY <3>1, <3>2 DEF Completions, InSuccess, IsCompleted
        <4>2. Phase(cluster'[id]) = "completed"
          BY <1>0, <4>1, PhaseOf
        <4>3. Phases' = [Phases EXCEPT ![id] = "completed"]
          BY <1>3, <4>2, OnePhase
        <4>4. Promise!Cardinality(done[id]) + 1 = s
          <5>1. Cardinality(1 .. (s - 1)) = s - 1
            BY <1>1, FS_Interval
          <5> QED
            BY <1>1, <2>4, <5>1, SameCardinality
        <4> QED
          BY <1>1, <1>2, <2>3, <3>2, <4>3, <4>4 DEF Promise!Advance, Phases
      <3>3. CASE ~ (new = "succeeded" /\ s = NumSteps)
        <4>1. ~ InSuccess(cluster'[id][NumSteps])
          BY <1>1, <2>1, <2>4, <2>5, <2>7, <3>3 DEF InSuccess, IsCompleted
        <4>2. id \notin Completions(cluster') /\ IsListed(new)
          BY <2>1, <4>1 DEF Completions, IsListed
        <4>3. id \in ActiveSequences(cluster')
          BY <1>0, <3>1, <4>2, WantedKnown
        <4>4. Phase(cluster'[id]) = "active"
          BY <1>0, <4>3, PhaseOf
        <4>5. Phases' = [Phases EXCEPT ![id] = Phases[id]]
          BY <1>3, <2>3, <4>4, OnePhase
        <4>6. CASE new # "succeeded"
          <5>1. Phases' = Phases
            BY <4>5 DEF Phases
          <5> QED
            BY <1>2, <4>6, <5>1
        <4>7. CASE new = "succeeded"
          <5>1. Cardinality(1 .. (s - 1)) = s - 1
            BY <1>1, FS_Interval
          <5>2. Promise!Cardinality(done[id]) + 1 = s
            BY <1>1, <2>4, <5>1, SameCardinality
          <5>3. s # NumSteps /\ s <= NumSteps
            BY <1>1, <3>3, <4>7
          <5> QED
            BY <1>2, <2>3, <4>5, <4>7, <5>2, <5>3 DEF Promise!Advance, Phases
        <4> QED
          BY <4>6, <4>7
      <3> QED
        BY <3>2, <3>3
    <2> QED
      BY <2>6, <2>7
  <1> QED
    BY <1>5, <1>6

(***************************************************************************)
(* The manager with its cluster implements Workflow: read off listings,    *)
(* sequences are begun only while more are needed, run their steps one     *)
(* after the other, and neither a failure nor a completion is taken back,  *)
(* through every crash of the manager or, with failed submissions instead, *)
(* through every one of those.                                             *)
(***************************************************************************)
THEOREM Refinement ==
    ASSUME Premise, DemandPremise
    PROVE  Spec => ImplementsWorkflow
  <1>1. ASSUME Init PROVE Promise!Init
    <2>1. \A id \in JobIds : Phase(cluster[id]) = "new"
      BY <1>1, NumStepsAssumption DEF Init, Phase, InFailed, InSuccess, IsCompleted,
           HasFailedPods, Unfinished, InQueued, InRunning, Steps
    <2> QED
      BY <1>1, <2>1 DEF Init, Promise!Init
  <1>2. ASSUME TypeOK, TypeOK', StepInv, KeepInv, DemandInv, DoneKept, [Next]_vars
        PROVE  [Promise!Next]_Promise!vars
    <2>0. ASSUME UNCHANGED <<Phases, done>> PROVE UNCHANGED Promise!vars
      BY <2>0 DEF Promise!vars, Phases
    <2>1. CASE UNCHANGED <<cluster, done>>
      BY <2>0, <2>1 DEF Phases
    <2>2. ASSUME NEW id \in JobIds, NEW s \in Steps, JobProgress(id, s) \/ Touch(id, s)
          PROVE  [Promise!Next]_Promise!vars
      BY <1>2, <2>0, <2>2, ProgressAdvances DEF Promise!Next
    <2>3. ASSUME NEW id \in JobIds, SubmitSequence(id) PROVE [Promise!Next]_Promise!vars
      BY <1>2, <2>0, <2>3, SubmitBegins DEF Promise!Next
    <2>4. ASSUME NEW id \in JobIds, NEW s \in Steps,
                 ResumeSequence(id, s) /\ Kept(id, 1, stream)
          PROVE  [Promise!Next]_Promise!vars
      <3>1. id \in Known
        BY <1>2, <2>4 DEF ResumeSequence, DemandInv, Known
      <3> QED
        BY <1>2, <2>0, <2>4, <3>1, FurtherStep
    <2>5. ASSUME NEW id \in JobIds, NEW s \in Steps,
                 HandleEvent(id, s) /\ Kept(id, sm[id].current + 1, Deliver(id, s))
          PROVE  [Promise!Next]_Promise!vars
      <3>1. id \in Known
        BY <1>2, <2>5 DEF HandleEvent, DemandInv, Known
      <3> QED
        BY <1>2, <2>0, <2>5, <3>1, FurtherStep
    <2>6. KeepPremise
      BY DEF DemandPremise
    <2> QED
      BY <1>2, <2>1, <2>2, <2>3, <2>4, <2>5, <2>6, ClusterStep
  <1> QED
    BY <1>1, <1>2, SequencesHold, PTL DEF Spec, ImplementsWorkflow, Promise!Spec

-----------------------------------------------------------------------------
(***************************************************************************)
(* The machine and the Jobs in step.  With no restart and no failed        *)
(* submission the machine of a tracked sequence stands at the step whose   *)
(* Job was created last, and the completion of that Job, once it succeeds, *)
(* is on its way to the machine.                                           *)
(***************************************************************************)
PacePremise ==
    /\ Premise
    /\ MaxCrashes = 0
    /\ MaxErrors = 0

Abreast(id) ==
    LET c == sm[id].current IN
    id \in tracked =>
        /\ c >= 1
        /\ sm[id].success \subseteq 1 .. c
        /\ c \in Steps =>
              /\ cluster[id][c] # "none"
              /\ cluster[id][c] = "succeeded" /\ watching => HasSuccess(stream[id][c])

\* A ConfigMap serves the Job that has not completed; a failed one may be retried.
ScriptInv ==
    \A id \in JobIds, s \in Steps :
        cluster[id][s] \notin {"none", "succeeded", "recovered"} => script[id] = s

PaceInv ==
    /\ pc \in {"rules", "watch"} => watching
    /\ \A id \in JobIds : Abreast(id)
    /\ pc # "died" /\ ~ RetryFailure => used \subseteq tracked
    /\ ScriptInv

(* A completion on its way to a tracked sequence is that of the step its   *)
(* machine stands at.                                                      *)
LEMMA OwnStep ==
    ASSUME TypeOK, Unrestarted, StepInv, KeepInv, DoneKept, PaceInv, pc # "died",
           NEW id \in JobIds, id \in tracked, NEW s \in Steps, HasSuccess(stream[id][s])
    PROVE  s = sm[id].current /\ cluster[id][s] = "succeeded" /\ watching
  <1> DEFINE c == sm[id].current
             D == done[id]
             K == Credit(id)
  <1>1. /\ D \in SUBSET Steps /\ K \in SUBSET Steps /\ c \in Nat
        /\ Cardinality(D) \in Nat /\ Cardinality(K) \in Nat
    BY Counts
  <1>2. /\ s \in K
        /\ c + Cardinality(K) <= Cardinality(D) + 1
    BY DEF StepInv, SequenceInv, CompletionIsLast, Undelivered, Credit, CreditBound
  <1>3. Cardinality({}) = 0 /\ Cardinality({c}) = 1
    BY FS_EmptySet, FS_Singleton
  <1>4. 1 <= Cardinality(K)
    <2>1. Cardinality({}) + 1 <= Cardinality(K)
      BY <1>1, <1>2, ProperCount
    <2> QED
      BY <1>3, <2>1
  <1>5. c <= Cardinality(D) /\ c >= 1
    <2>1. c >= 1
      BY DEF PaceInv, Abreast
    <2> HIDE DEF c, D, K
    <2> QED
      BY <1>1, <1>2, <1>4, <2>1
  <1>6. c \in Steps
    <2>1. 1 .. NumSteps \in SUBSET Steps /\ Cardinality(1 .. NumSteps) = NumSteps
      BY NumStepsAssumption, FS_Interval DEF Steps
    <2>2. Cardinality(D) <= NumSteps
      BY <1>1, <2>1, SubsetCount DEF Steps
    <2> HIDE DEF c, D
    <2> QED
      BY <1>1, <1>5, <2>2, NumStepsAssumption DEF Steps
  <1>7. c \in D /\ cluster[id][c] = "succeeded"
    <2>1. c \in D
      BY <1>1, <1>5, <1>6, PrefixCount DEF StepInv, SequenceInv, DoneIsPrefix
    <2> QED
      BY <2>1 DEF DoneKept
  <1>8. D \subseteq 1 .. c
    <2>1. \A x \in Steps : x > c => cluster[id][x] = "none"
      BY DEF KeepInv, MachinesLead
    <2>2. \A x \in D : x \in Steps /\ ~ (x > c)
      BY <1>1, <2>1 DEF DoneKept
    <2> HIDE DEF c, D
    <2> QED
      BY <1>6, <2>2 DEF Steps
  <1>9. Cardinality(K) <= 1
    <2>1. IsFiniteSet(1 .. c) /\ Cardinality(1 .. c) = c
      <3>1. 1 \in Int /\ c \in Int /\ ~ (1 > c) /\ c - 1 + 1 = c
        BY <1>1, <1>5
      <3> HIDE DEF c
      <3> QED
        BY <3>1, FS_Interval
    <2>2. Cardinality(D) <= c
      BY <1>8, <2>1, FS_Subset
    <2> HIDE DEF c, D, K
    <2> QED
      BY <1>1, <1>2, <2>2
  <1>10. watching
    BY EmptyQueue DEF StepInv, SequenceInv, QuietStart
  <1>11. c \in K
    <2>1. HasSuccess(stream[id][c])
      BY <1>6, <1>7, <1>10 DEF PaceInv, Abreast
    <2> QED
      BY <1>6, <1>7, <2>1 DEF Credit, Undelivered
  <1>12. s = c
    <2> SUFFICES ASSUME s # c PROVE FALSE
      OBVIOUS
    <2>1. {c} \in SUBSET (K \ {s})
      BY <1>11
    <2>2. Cardinality({c}) + 1 <= Cardinality(K)
      BY <1>1, <1>2, <2>1, ProperCount
    <2> HIDE DEF c, K
    <2> QED
      BY <1>1, <1>3, <1>9, <2>2
  <1> QED
    BY <1>7, <1>10, <1>12

(* A machine moves to step e, where there is no Job yet: it is created and *)
(* its script written, and no other Job of the sequence needs the script.  *)
LEMMA MoveAbreast ==
    ASSUME TypeOK, TypeOK', MaxErrors = 0, PaceInv, NEW id \in JobIds, NEW m \in Machine,
           m.repeat = {}, NEW q \in Streams, EnterNext(id, m, q), NEW e \in Nat,
           e = m.current + 1, m.success \subseteq 1 .. m.current,
           \A x \in Steps : cluster[id][x] \in {"succeeded", "none"},
           e \in Steps => cluster[id][e] = "none",
           watching' = watching
    PROVE  Abreast(id)' /\ ScriptInv' /\ \A j \in JobIds \ {id} : sm'[j] = sm[j] /\ cluster'[j] = cluster[j] /\ stream'[j] = q[j]
  <1>0. /\ cluster \in [JobIds -> [Steps -> Status]] /\ script \in [JobIds -> 0 .. NumSteps]
        /\ m.current \in Nat
    <2>1. m.current \in Nat
      BY NumStepsAssumption DEF Machine, Start, Complete
    <2> QED
      BY <2>1 DEF TypeOK
  <1>1. /\ sm'[id].current = e
        /\ Submitted(id, e, q)
        /\ \A j \in JobIds \ {id} : sm'[j] = sm[j]
    BY EnterEffect
  <1>2. /\ sm'[id].success = m.success
        /\ e \notin Steps => script' = script
        /\ Kept(id, e, q)
        /\ MaxErrors = 0 /\ e \in Steps \ m.success /\ cluster[id][e] = "none" =>
                 Created(id, e, q) /\ script' = [script EXCEPT ![id] = e]
    BY KeepSubmit
  <1>3. e \notin m.success
    BY <1>0
  <1>4. e \in Steps => Created(id, e, q) /\ script' = [script EXCEPT ![id] = e]
    BY <1>2, <1>3
  <1>5. sm'[id].success \subseteq 1 .. e /\ e >= 1
    BY <1>0, <1>2
  <1>6. e \in Steps => cluster'[id][e] \in {"queued", "requested"}
    BY <1>0, <1>4 DEF Created, FirstStatus
  <1>7. Abreast(id)'
    BY <1>1, <1>5, <1>6 DEF Abreast
  <1>8. \A j \in JobIds \ {id} : cluster'[j] = cluster[j] /\ stream'[j] = q[j]
    BY <1>1 DEF Submitted
  <1>9. ASSUME NEW j \in JobIds, NEW x \in Steps,
               cluster'[j][x] \notin {"none", "succeeded", "recovered"}
        PROVE  script'[j] = x
    <2>1. CASE j # id
      BY <1>0, <1>2, <1>4, <1>8, <1>9, <2>1 DEF PaceInv, ScriptInv
    <2>2. CASE j = id
      <3>1. x = e
        BY <1>1, <1>9, <2>2 DEF Submitted
      <3> QED
        BY <1>0, <1>4, <1>9, <2>2, <3>1
    <2> QED
      BY <2>1, <2>2
  <1> QED
    BY <1>1, <1>7, <1>8, <1>9 DEF ScriptInv

(* The watch loop has a watch.                                             *)
LEMMA WatchOpen ==
    ASSUME TypeOK, pc \in {"rules", "watch"} => watching, [Next]_vars
    PROVE  pc' \in {"rules", "watch"} => watching'
  <1>1. ASSUME NEW id \in JobIds, NEW s \in Steps, ResumeFails(id, s) \/ ResumeSequence(id, s)
        PROVE  pc' = "resume"
    BY <1>1 DEF ResumeFails, ResumeSequence
  <1>2. ASSUME NEW id \in JobIds, SubmitSequence(id) PROVE pc' = "submit"
    BY <1>2 DEF SubmitSequence
  <1>3. CASE InitState \/ ResumeDone \/ NewJobs
    BY <1>3 DEF InitState, ResumeDone, NewJobs
  <1>4. CASE CheckComplete
    BY <1>4 DEF CheckComplete, Exit
  <1>5. ASSUME NEW r \in Rules, EvaluateRule(r)
        PROVE  pc' \in {"rules", "watch"} => watching'
    <2>1. pc' \in {"finished", "died"} \/ UNCHANGED <<pc, watching>>
      BY <1>5 DEF EvaluateRule, Exit
    <2> QED
      BY <2>1
  <1>6. CASE RulesDone \/ Watch
    BY <1>6 DEF RulesDone, Watch
  <1>7. ASSUME NEW id \in JobIds, NEW s \in Steps,
               Receive(id, s) \/ JobProgress(id, s) \/ Touch(id, s)
        PROVE  pc' \in {"rules", "watch"} => watching'
    BY <1>7 DEF Receive, IgnoreEvent, HandleEvent, JobProgress, Touch
  <1>8. CASE Crash \/ UncaughtError
    BY <1>8 DEF Crash, UncaughtError
  <1>9. CASE UNCHANGED vars
    BY <1>9 DEF vars
  <1> QED
    BY <1>1, <1>2, <1>3, <1>4, <1>5, <1>6, <1>7, <1>8, <1>9 DEF Next, Step, SleepInfinity

(* A tracked sequence whose machine and Jobs stay as they are, and whose   *)
(* completions in the stream stay undelivered.                             *)
LEMMA AbreastFrame ==
    ASSUME NEW j \in JobIds, Abreast(j), j \in tracked' => j \in tracked,
           sm'[j].current = sm[j].current, cluster'[j] = cluster[j],
           sm'[j].success \subseteq sm[j].success \cup ({sm[j].current} \cap Steps),
           TypeOK,
           \/ ~ watching'
           \/ /\ watching
              /\ \A x \in Steps : HasSuccess(stream[j][x]) => HasSuccess(stream'[j][x])
           \/ \A x \in Steps : cluster[j][x] = "succeeded" => HasSuccess(stream'[j][x])
    PROVE  Abreast(j)'
  <1>0. sm[j].current \in Nat
    BY Counts
  <1>1. ASSUME sm[j].success \subseteq 1 .. sm[j].current, sm[j].current >= 1
        PROVE  sm'[j].success \subseteq 1 .. sm[j].current
    <2>1. sm[j].current \in 1 .. sm[j].current
      BY <1>0, <1>1
    <2> QED
      BY <1>1, <2>1
  <1> QED
    BY <1>1 DEF Abreast

(* One event of the watch keeps the machines in step.                      *)
LEMMA ReceivePace ==
    ASSUME PacePremise, TypeOK, TypeOK', StepInv, KeepInv, DoneKept, PaceInv,
           NEW id \in JobIds, NEW s \in Steps, Receive(id, s)
    PROVE  /\ \A j \in JobIds : Abreast(j)'
           /\ ~ RetryFailure => used' \subseteq tracked'
           /\ ScriptInv'
  <1> DEFINE q == Deliver(id, s)
             st == Head(stream[id][s])
  <1>0. /\ pc = "watch" /\ stream[id][s] # << >> /\ UNCHANGED <<watching, used>>
        /\ Unrestarted /\ MaxErrors = 0 /\ watching
        /\ \A r \in Rules : r.action # "repeat"
    BY DEF Receive, IgnoreEvent, HandleEvent, Unrestarted, PacePremise, Premise, PaceInv
  <1>1. /\ stream[id][s] \in Seq(Listed) /\ SuccessIsLast(stream[id][s]) /\ q \in Streams
        /\ stream \in Streams /\ sm \in [JobIds -> Machine]
    <2>1. stream \in Streams /\ sm \in [JobIds -> Machine] /\ q \in Streams
      BY <1>0, TypeOKParts, DeliverType DEF ClusterOK, ManagerOK
    <2>2. SuccessIsLast(stream[id][s])
      BY DEF StepInv, SequenceInv, CompletionIsLast
    <2> QED
      BY <2>1, <2>2 DEF Streams
  <1>2. /\ \A j \in JobIds \ {id} : q[j] = stream[j]
        /\ \A x \in Steps \ {s} : q[id][x] = stream[id][x]
        /\ q[id][s] = Tail(stream[id][s])
    BY <1>0, Delivered DEF StepInv
  <1>3. st # "succeeded" => (HasSuccess(q[id][s]) <=> HasSuccess(stream[id][s]))
    BY <1>0, <1>1, <1>2, TailQueue
  <1>4. ASSUME cluster' = cluster, script' = script, stream' = q,
               \A j \in JobIds \ {id} : sm'[j] = sm[j],
               tracked' = tracked \/ (RetryFailure /\ tracked' = tracked \ {id}),
               id \in tracked' =>
                  /\ st = "succeeded" => sm[id].current \notin Steps
                  /\ sm'[id].current = sm[id].current
                  /\ sm'[id].success \subseteq sm[id].success \cup ({sm[id].current} \cap Steps)
        PROVE  /\ \A j \in JobIds : Abreast(j)'
               /\ ~ RetryFailure => used' \subseteq tracked'
               /\ ScriptInv'
    <2>1. ASSUME NEW j \in JobIds \ {id} PROVE Abreast(j)'
      BY <1>0, <1>2, <1>4, <2>1, AbreastFrame DEF PaceInv
    <2>2. CASE st # "succeeded" /\ id \in tracked'
      <3>1. \A x \in Steps : HasSuccess(stream[id][x]) => HasSuccess(stream'[id][x])
        BY <1>2, <1>3, <1>4, <2>2
      <3>2. id \in tracked
        BY <1>4, <2>2
      <3> QED
        BY <1>0, <1>4, <2>1, <2>2, <3>1, <3>2, AbreastFrame DEF PaceInv, ScriptInv
    <2>3. CASE st = "succeeded" /\ id \in tracked'
      <3>1. id \in tracked /\ sm'[id].current \notin Steps /\ sm'[id].current = sm[id].current
        BY <1>4, <2>3
      <3>2. Abreast(id)'
        BY <1>4, <2>3, <3>1 DEF PaceInv, Abreast
      <3> QED
        BY <1>0, <1>4, <2>1, <3>2 DEF PaceInv, ScriptInv
    <2>4. CASE id \notin tracked'
      <3>1. Abreast(id)'
        BY <2>4 DEF Abreast
      <3> QED
        BY <1>0, <1>4, <2>1, <3>1 DEF PaceInv, ScriptInv
    <2> QED
      BY <2>2, <2>3, <2>4
  <1>5. CASE IgnoreEvent(id, s)
    <2>1. /\ UNCHANGED <<cluster, script, tracked, sm>> /\ stream' = q
          /\ id \notin tracked \/ IsActive(st)
      BY <1>5 DEF IgnoreEvent, Ignored, machineVars
    <2>2. id \in tracked' => st # "succeeded"
      BY <2>1 DEF IsActive
    <2> QED
      BY <1>4, <2>1, <2>2
  <1>6. CASE HandleEvent(id, s)
    <2>1. /\ id \in tracked
          /\ \/ /\ st = "succeeded" /\ sm[id].current # Complete
                /\ EnterNext(id, MarkSucceeded(sm[id]), q)
                /\ tracked' = tracked
             \/ /\ st = "recovered"
                /\ FailJob(id, q)
             \/ /\ st = "succeeded" => sm[id].current = Complete
                /\ sm' = [sm EXCEPT ![id] = sm[id]] \/ sm' = [sm EXCEPT ![id] = MarkSucceeded(sm[id])]
                /\ stream' = q
                /\ UNCHANGED <<cluster, script, done, faults, tracked>>
          /\ MarkSucceeded(sm[id]) \in Machine
          /\ MarkSucceeded(sm[id]).current = sm[id].current
          /\ MarkSucceeded(sm[id]).repeat = {}
          /\ MarkSucceeded(sm[id]).success = sm[id].success \cup ({sm[id].current} \cap Steps)
      BY <1>0, <1>6, HandleEffect DEF KeepInv
    <2>2. CASE st = "recovered" /\ FailJob(id, q)
      <3>1. RetryFailure
        <4>1. SUFFICES ASSUME ~ RetryFailure PROVE FALSE
          OBVIOUS
        <4>2. stream[id][s] \in Seq(Listed \ Retried)
          BY <4>1 DEF KeepInv, NoRetries
        <4>3. Head(stream[id][s]) \in Listed \ Retried
          BY <1>0, <4>2
        <4> QED
          BY <2>2, <4>3 DEF Retried
      <3> QED
        BY <1>1, <1>4, <2>2, <3>1 DEF FailJob
    <2>3. CASE /\ st = "succeeded" => sm[id].current = Complete
               /\ sm' = [sm EXCEPT ![id] = sm[id]] \/ sm' = [sm EXCEPT ![id] = MarkSucceeded(sm[id])]
               /\ stream' = q
               /\ UNCHANGED <<cluster, script, done, faults, tracked>>
      <3>1. Complete \notin Steps
        BY NumStepsAssumption DEF Complete, Steps
      <3>2. /\ sm'[id] = sm[id] \/ sm'[id] = MarkSucceeded(sm[id])
            /\ \A j \in JobIds \ {id} : sm'[j] = sm[j]
        BY <1>1, <2>3
      <3>3. /\ sm'[id].current = sm[id].current
            /\ sm'[id].success \subseteq sm[id].success \cup ({sm[id].current} \cap Steps)
        BY <2>1, <3>2
      <3> QED
        BY <1>4, <2>3, <3>1, <3>2, <3>3
    <2>4. CASE /\ st = "succeeded" /\ sm[id].current # Complete
               /\ EnterNext(id, MarkSucceeded(sm[id]), q)
               /\ tracked' = tracked
      <3> DEFINE c == sm[id].current
                 e == c + 1
                 m == MarkSucceeded(sm[id])
      <3>1. HasSuccess(stream[id][s])
        BY <1>0, <1>1, <2>4, TailQueue
      <3>2. c = s /\ cluster[id][c] = "succeeded" /\ c \in Steps
        BY <1>0, <2>1, <3>1, OwnStep
      <3>3. \A x \in Steps : x > c => cluster[id][x] = "none"
        BY <1>0, <2>1 DEF KeepInv, MachinesLead
      <3>4. ASSUME NEW x \in Steps PROVE cluster[id][x] \in {"succeeded", "none"}
        <4>1. SUFFICES ASSUME cluster[id][x] \notin {"succeeded", "none"} PROVE FALSE
          OBVIOUS
        <4>2. \A t \in Steps : t > x => cluster[id][t] = "none"
          BY <4>1, OneAtATime
        <4>3. x > c \/ x = c \/ c > x
          BY <3>2 DEF Steps
        <4> QED
          BY <3>2, <3>3, <4>1, <4>2, <4>3
      <3>5. e \in Nat /\ (e \in Steps => cluster[id][e] = "none")
        BY <3>2, <3>3 DEF Steps
      <3>6. m.success \subseteq 1 .. c /\ m.current = c
        <4>1. sm[id].success \subseteq 1 .. c /\ c \in 1 .. c
          BY <2>1, <3>2 DEF PaceInv, Abreast, Steps
        <4> QED
          BY <2>1, <4>1
      <3> HIDE DEF c, m, q
      <3>7. /\ Abreast(id)' /\ ScriptInv'
            /\ \A j \in JobIds \ {id} :
                  sm'[j] = sm[j] /\ cluster'[j] = cluster[j] /\ stream'[j] = q[j]
        <4>1. /\ TypeOK /\ TypeOK' /\ MaxErrors = 0 /\ PaceInv
              /\ q \in Streams /\ watching' = watching
          BY <1>0, <1>1
        <4>2. m \in Machine /\ m.repeat = {} /\ EnterNext(id, m, q)
          BY <2>1, <2>4 DEF m
        <4>3. e = m.current + 1 /\ m.success \subseteq 1 .. m.current
          BY <3>6
        <4> HIDE DEF e
        <4> QED
          BY <3>4, <3>5, <4>1, <4>2, <4>3, MoveAbreast
      <3>8. ASSUME NEW j \in JobIds \ {id} PROVE Abreast(j)'
        <4>1. stream'[j] = stream[j]
          BY <1>2, <3>7
        <4> QED
          BY <1>0, <2>4, <3>7, <4>1, AbreastFrame DEF PaceInv
      <3> QED
        BY <1>0, <2>4, <3>7, <3>8 DEF PaceInv
    <2> QED
      BY <2>1, <2>2, <2>3, <2>4
  <1> QED
    BY <1>5, <1>6 DEF Receive

(* Every step keeps the machines in step.                                  *)
LEMMA PaceStep ==
    ASSUME PacePremise, TypeOK, TypeOK', StepInv, KeepInv, DoneKept, PaceInv, [Next]_vars
    PROVE  PaceInv'
  <1>0. /\ Unrestarted /\ MaxErrors = 0 /\ KeepPremise /\ MaxCrashes = 0 /\ MaxTouches = 0
        /\ FreshIds
        /\ pc' \in {"rules", "watch"} => watching'
    BY WatchOpen DEF Unrestarted, PacePremise, Premise, KeepPremise, PaceInv
  <1>1. ASSUME \A j \in JobIds : Abreast(j)',
               pc' # "died" /\ ~ RetryFailure => used' \subseteq tracked', ScriptInv'
        PROVE  PaceInv'
    BY <1>0, <1>1 DEF PaceInv
  <1>2. ASSUME UNCHANGED <<cluster, script, tracked, sm, used>>, pc = "died" => pc' = "died",
               \/ ~ watching'
               \/ UNCHANGED <<watching, stream>>
               \/ \A j \in JobIds, x \in Steps :
                     cluster[j][x] = "succeeded" => HasSuccess(stream'[j][x])
        PROVE  PaceInv'
    <2>1. ASSUME NEW j \in JobIds PROVE Abreast(j)'
      BY <1>2, AbreastFrame DEF PaceInv
    <2> QED
      BY <1>1, <1>2, <2>1 DEF PaceInv, ScriptInv
  <1>3. CASE InitState
    <2>1. /\ pc = "down" /\ used' = used /\ UNCHANGED <<cluster, script>>
          /\ tracked' = {id \in JobIds : {s \in Steps : Unfinished(cluster[id][s])} # {}}
      BY <1>3 DEF InitState, clusterVars
    <2>2. used = {} /\ \A id \in JobIds, s \in Steps : cluster[id][s] = "none"
      BY <1>0, <2>1 DEF KeepInv, MachinesLead, Blank, PacePremise, StepInv
    <2>3. tracked' = {}
      BY <2>1, <2>2 DEF Unfinished, InQueued, InRunning
    <2> QED
      BY <1>1, <2>1, <2>2, <2>3 DEF Abreast, PaceInv, ScriptInv
  <1>4. CASE NewJobs
    BY <1>2, <1>4 DEF NewJobs, clusterVars, machineVars
  <1>5. CASE Watch
    <2>1. /\ UNCHANGED <<cluster, script, tracked, sm, used>> /\ pc = "submit"
          /\ stream' = IF watching THEN stream
                       ELSE [id \in JobIds |-> [s \in Steps |->
                                IF IsListed(cluster[id][s]) THEN <<cluster[id][s]>> ELSE << >>]]
          /\ watching'
      BY <1>5 DEF Watch, machineVars
    <2>2. CASE watching
      BY <1>2, <2>1, <2>2
    <2>3. CASE ~ watching
      <3>1. \A j \in JobIds, x \in Steps :
               cluster[j][x] = "succeeded" => stream'[j][x] = <<"succeeded">>
        BY <2>1, <2>3 DEF IsListed
      <3> QED
        BY <1>2, <2>1, <3>1, SingleQueue
    <2> QED
      BY <2>2, <2>3
  <1>6. ASSUME NEW id \in JobIds, NEW s \in Steps, ResumeSequence(id, s) PROVE FALSE
    BY <1>0, <1>6, ResumeMoves
  <1>7. ASSUME NEW id \in JobIds, SubmitSequence(id) PROVE PaceInv'
    <2>1. /\ id \notin used /\ EnterNext(id, NewMachine, stream) /\ watching' = watching
          /\ tracked' = tracked \cup {id} /\ used' = used \cup {id} /\ pc' = pc
      BY <1>0, <1>7 DEF SubmitSequence
    <2>2. /\ NewMachine \in Machine /\ NewMachine.current = 0 /\ NewMachine.repeat = {}
          /\ NewMachine.success \subseteq 1 .. NewMachine.current
          /\ 1 = NewMachine.current + 1
      BY NumStepsAssumption DEF NewMachine, Machine, Start, Complete
    <2>3. \A x \in Steps : cluster[id][x] = "none"
      BY <2>1 DEF StepInv, SequenceInv, FreshIsBlank
    <2>4. stream \in Streams /\ 1 \in Nat
      BY TypeOKParts DEF ClusterOK
    <2>5. /\ Abreast(id)' /\ ScriptInv'
          /\ \A j \in JobIds \ {id} :
                sm'[j] = sm[j] /\ cluster'[j] = cluster[j] /\ stream'[j] = stream[j]
      BY <1>0, <2>1, <2>2, <2>3, <2>4, MoveAbreast
    <2>6. ASSUME NEW j \in JobIds \ {id} PROVE Abreast(j)'
      BY <2>1, <2>5, AbreastFrame DEF PaceInv
    <2> QED
      BY <1>1, <2>1, <2>5, <2>6 DEF PaceInv
  <1>8. ASSUME NEW id \in JobIds, NEW s \in Steps, Receive(id, s) PROVE PaceInv'
    BY <1>1, <1>8, ReceivePace
  <1>9. ASSUME NEW id \in JobIds, NEW s \in Steps, JobProgress(id, s) \/ Touch(id, s)
        PROVE  PaceInv'
    <2>0. JobProgress(id, s)
      BY <1>0, <1>9 DEF Touch, TypeOK
    <2>1. /\ UNCHANGED <<script, pc, watching, tracked, sm, used>>
          /\ cluster[id][s] # "none" /\ IsListed(cluster'[id][s])
          /\ \A j \in JobIds, x \in Steps : j # id \/ x # s => cluster'[j][x] = cluster[j][x]
          /\ cluster'[id][s] \in Successors(cluster[id][s]) \cup {cluster[id][s]}
          /\ stream' = IF watching THEN [stream EXCEPT ![id][s] = Append(@, cluster'[id][s])]
                       ELSE stream
      BY <1>9, ProgressJobs
    <2>2. cluster \in [JobIds -> [Steps -> Status]] /\ stream \in Streams
          /\ cluster' \in [JobIds -> [Steps -> Status]]
      BY TypeOKParts DEF ClusterOK
    <2>3. \A j \in JobIds, x \in Steps : j # id \/ x # s => stream'[j][x] = stream[j][x]
      BY <2>1, <2>2 DEF Streams
    <2>4. cluster'[id][s] = "succeeded" /\ watching => HasSuccess(stream'[id][s])
      <3>1. SUFFICES ASSUME cluster'[id][s] = "succeeded", watching
                     PROVE  HasSuccess(stream'[id][s])
        OBVIOUS
      <3>2. stream[id][s] \in Seq(Listed) /\ "succeeded" \in Listed
        BY <2>2 DEF Streams, Listed, Status, IsListed
      <3>3. stream'[id][s] = Append(stream[id][s], "succeeded")
        BY <2>1, <2>2, <3>1 DEF Streams
      <3>4. /\ Len(stream[id][s]) + 1 \in DOMAIN Append(stream[id][s], "succeeded")
            /\ Append(stream[id][s], "succeeded")[Len(stream[id][s]) + 1] = "succeeded"
        BY <3>2
      <3> QED
        BY <3>3, <3>4 DEF HasSuccess
    <2>5. ASSUME NEW j \in JobIds PROVE Abreast(j)'
      <3>1. SUFFICES ASSUME j \in tracked, sm[j].current \in Steps
                     PROVE  LET c == sm[j].current IN
                            /\ cluster'[j][c] # "none"
                            /\ cluster'[j][c] = "succeeded" /\ watching => HasSuccess(stream'[j][c])
        BY <2>1 DEF PaceInv, Abreast
      <3>2. CASE j = id /\ sm[j].current = s
        BY <2>1, <2>4, <3>2 DEF IsListed
      <3>3. CASE j # id \/ sm[j].current # s
        BY <2>1, <2>3, <3>1, <3>3 DEF PaceInv, Abreast
      <3> QED
        BY <3>2, <3>3
    <2>6. ScriptInv'
      <3>1. cluster'[id][s] \notin {"none", "succeeded", "recovered"} =>
               cluster[id][s] \notin {"none", "succeeded", "recovered"}
        BY <2>1 DEF Successors
      <3> QED
        BY <2>1, <3>1 DEF PaceInv, ScriptInv
    <2> QED
      BY <1>1, <2>1, <2>5, <2>6 DEF PaceInv
  <1>10. CASE Lost
    <2>1. pc' = "died" /\ tracked' = {} /\ UNCHANGED <<cluster, script>>
      BY <1>0, <1>10 DEF Lost, ProcessLost
    <2> QED
      BY <1>1, <2>1 DEF Abreast, PaceInv, ScriptInv
  <1>11. CASE Quiet
    BY <1>0, <1>2, <1>11 DEF Quiet
  <1> QED
    BY <1>3, <1>4, <1>5, <1>6, <1>7, <1>8, <1>9, <1>10, <1>11, StepShape

(* The invariants behind ScriptMatches and NoStall.                        *)
LEMMA PaceHolds ==
    ASSUME PacePremise
    PROVE  Spec => [](TypeOK /\ StepInv /\ KeepInv /\ DoneKept /\ PaceInv)
  <1>0. KeepPremise /\ Premise
    BY DEF PacePremise, Premise, KeepPremise
  <1>1. Spec => []KeepInv
    BY <1>0, KeepInvHolds
  <1>2. Spec => []StepInv
    BY <1>0, StepInvHolds
  <1>3. Init => DoneKept /\ PaceInv
    BY NumStepsAssumption DEF Init, DoneKept, PaceInv, Abreast, ScriptInv
  <1>4. TypeOK /\ KeepInv /\ DoneKept /\ [Next]_vars => DoneKept'
    BY <1>0, DoneKeptStep
  <1>5. TypeOK /\ StepInv /\ KeepInv /\ DoneKept /\ PaceInv /\ [Next]_vars => PaceInv'
    BY StepType, PaceStep
  <1> QED
    BY <1>1, <1>2, <1>3, <1>4, <1>5, TypeCorrect, PTL DEF Spec

(***************************************************************************)
(* With no restart, no failed submission, no event redelivered and no      *)
(* repeated step, a Job that may still start pods finds the script of its  *)
(* own step in the ConfigMap that all steps of its sequence share.         *)
(***************************************************************************)
THEOREM ScriptMatchesHolds ==
    ASSUME PacePremise
    PROVE  Spec => []ScriptMatches
  <1>1. PaceInv => ScriptMatches
    BY DEF PaceInv, ScriptInv, ScriptMatches, Occupies
  <1> QED
    BY <1>1, PaceHolds, PTL

(***************************************************************************)
(* Under the same premises, and if Jobs are not retried, no sequence that  *)
(* holds a slot stalls: it is tracked, and its machine stands at a step    *)
(* whose Job is unfinished or whose completion the watch will deliver.     *)
(***************************************************************************)
THEOREM NoStallHolds ==
    ASSUME PacePremise, ~ RetryFailure
    PROVE  Spec => []NoStall
  <1>1. ASSUME TypeOK, StepInv, KeepInv, DoneKept, PaceInv PROVE NoStall
    <2> SUFFICES ASSUME pc = "watch", NEW id \in ActiveSequences(cluster)
                 PROVE  id \in tracked /\ Awaited(id)
      BY DEF NoStall
    <2> DEFINE c == sm[id].current
    <2>0. /\ id \in JobIds /\ id \notin FailedSequences(cluster)
          /\ id \notin Completions(cluster) /\ NumSteps \in Steps /\ watching
      BY <1>1, NumStepsAssumption DEF ActiveSequences, Steps, PaceInv
    <2>1. id \in used
      <3>1. PICK x \in Steps : Unfinished(cluster[id][x]) \/ InSuccess(cluster[id][x])
        BY DEF ActiveSequences
      <3>2. cluster[id][x] # "none"
        BY <3>1 DEF Unfinished, InQueued, InRunning, InSuccess, IsCompleted
      <3> QED
        BY <1>1, <2>0, <3>2 DEF StepInv, SequenceInv, FreshIsBlank
    <2>2. id \in tracked /\ Abreast(id)
      BY <1>1, <2>0, <2>1 DEF PaceInv
    <2>3. c \in Steps
      <3>1. SUFFICES ASSUME c \notin Steps PROVE FALSE
        OBVIOUS
      <3>2. c \in Nat /\ c >= 1 /\ Cardinality(done[id]) \in Nat /\ Cardinality(Credit(id)) \in Nat
            /\ done[id] \in SUBSET Steps
        BY <1>1, <2>0, <2>2, Counts DEF Abreast
      <3>3. c + Cardinality(Credit(id)) <= Cardinality(done[id]) + 1
        BY <1>1, <2>0, <2>2 DEF StepInv, SequenceInv, CreditBound
      <3> HIDE DEF c
      <3>4. NumSteps <= Cardinality(done[id])
        BY <3>1, <3>2, <3>3, NumStepsAssumption DEF Steps
      <3>5. NumSteps \in done[id]
        BY <1>1, <2>0, <3>2, <3>4, PrefixCount DEF StepInv, SequenceInv, DoneIsPrefix
      <3>6. cluster[id][NumSteps] = "succeeded"
        BY <1>1, <2>0, <3>5 DEF DoneKept
      <3> QED
        BY <2>0, <3>6 DEF Completions, InSuccess, IsCompleted
    <2>4. /\ cluster[id][c] \in Status \ ({"none"} \cup Retried)
          /\ cluster[id][c] = "succeeded" => HasSuccess(stream[id][c])
      BY <1>1, <2>0, <2>2, <2>3 DEF Abreast, KeepInv, NoRetries, TypeOK
    <2>5. cluster[id][c] # "failed"
      BY <2>0, <2>3 DEF FailedSequences, InFailed, IsCompleted, HasFailedPods
    <2>6. CASE cluster[id][c] = "succeeded"
      BY <2>2, <2>3, <2>4, <2>6 DEF Awaited, HasSuccess, IsCompleted
    <2>7. CASE cluster[id][c] # "succeeded"
      <3>1. Occupies(cluster[id][c])
        BY <2>4, <2>5, <2>7 DEF Occupies, Status, Retried
      <3> QED
        BY <2>2, <2>3, <3>1 DEF Awaited
    <2> QED
      BY <2>6, <2>7
  <1> QED
    BY <1>1, PaceHolds, PTL
=============================================================================
