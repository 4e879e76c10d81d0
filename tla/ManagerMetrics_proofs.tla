------------------------ MODULE ManagerMetrics_proofs ------------------------
(***************************************************************************)
(* The manager with its metrics implements the manager whose rules read    *)
(* any value, so whatever is proved of the latter holds of it.  Without    *)
(* restarts, its counters are exact and its logs are read by the right     *)
(* script, and steps stay in order where rules repeat them.                *)
(***************************************************************************)
EXTENDS ManagerMetrics, WorkflowRefinement_proofs

\* Every step with metrics is a step of WorkflowManager, whatever has been recorded.
LEMMA MetricsStep == [MetricsNext]_<<vars, metricVars>> => [Next]_vars
<1> SUFFICES ASSUME [MetricsNext]_<<vars, metricVars>>
             PROVE  [Next]_vars
  OBVIOUS
<1>1. CASE Elsewhere
  BY <1>1 DEF Elsewhere, Next
<1>2. ASSUME NEW id \in JobIds, NEW s \in Steps, HandleWithMetrics(id, s) \/ JobEnds(id, s)
      PROVE  Next
  BY <1>2 DEF HandleWithMetrics, JobEnds, Receive, Next
<1>3. CASE SleepInfinity \/ \E id \in JobIds, s \in Steps : IgnoreEvent(id, s) \/ Touch(id, s)
  BY <1>3 DEF Receive, Next
<1>4. CASE UNCHANGED <<vars, metricVars>>
  BY <1>4
<1>5. QED
  BY <1>1, <1>2, <1>3, <1>4 DEF MetricsNext

(***************************************************************************)
(* update_metrics and the values it leaves take nothing away from what the *)
(* manager does: recording only narrows the values that rules read.        *)
(***************************************************************************)
THEOREM MetricsImplement == MetricsSpec => Spec
<1>1. MetricsInit => Init
  BY DEF MetricsInit
<1>2. QED
  BY <1>1, MetricsStep, PTL DEF MetricsSpec, Spec

\* With rules fed by real metrics the manager's variables keep their types.
THEOREM MetricsTypeCorrect == MetricsSpec => []TypeOK
  BY MetricsImplement, TypeCorrect, PTL

\* Rules that do not repeat a step leave the order of steps alone, whatever is recorded.
THEOREM MetricsStepOrder ==
    ASSUME Premise
    PROVE  MetricsSpec => []StepOrder
  BY MetricsImplement, StepOrderHolds, PTL

-----------------------------------------------------------------------------
(***************************************************************************)
(* Completions and machines, repeated steps included.  Where the manager   *)
(* is not restarted, no event is redelivered and no Job is retried, a      *)
(* sequence is tracked from its first Job on, and the only completion on   *)
(* its way is that of the step its machine stands at.                      *)
(***************************************************************************)
MetricsPremise ==
    /\ MaxCrashes = 0
    /\ MaxTouches = 0
    /\ ~ RetryFailure

Over == {"exited", "finished", "died"}

Untouched(id) == \A s \in Steps : cluster[id][s] = "none" /\ stream[id][s] = << >>

OwnCompletion(id) ==
    LET c == sm[id].current IN
    \A s \in Steps :
        /\ s > c => cluster[id][s] = "none"
        /\ s < c => cluster[id][s] \in {"none", "succeeded"}
        /\ SuccessIsLast(stream[id][s])
        /\ HasSuccess(stream[id][s]) => s = c /\ cluster[id][s] = "succeeded"

Own(id) == IF id \in tracked THEN OwnCompletion(id) ELSE Untouched(id)

OwnInv ==
    /\ NoRetries
    /\ pc \in {"rules", "watch"} => watching
    /\ pc \in {"down", "resume"} => tracked = {} /\ resume = {}
    /\ pc # "died" => \A id \in JobIds : Own(id)
    /\ ~ watching /\ pc \notin Over => \A id \in tracked : sm[id].current <= 1

\* A manager that has ended, by itself or not, stays so.
LEMMA OverStays ==
    ASSUME TypeOK, MetricsPremise, [Next]_vars, pc \in Over
    PROVE  pc' = pc
  <1>0. ~ (faults.crash < MaxCrashes)
    BY DEF TypeOK, MetricsPremise
  <1>1. ~ Step /\ ~ Crash /\ ~ UncaughtError
    BY <1>0 DEF Over, Step, InitState, ResumeSequence, ResumeFails, SubmitSequence, ResumeDone,
                CheckComplete, EvaluateRule, RulesDone, NewJobs, Watch, Crash, UncaughtError
  <1>2. ASSUME NEW id \in JobIds, NEW s \in Steps,
               Receive(id, s) \/ JobProgress(id, s) \/ Touch(id, s)
        PROVE  pc' = pc
    BY <1>2 DEF Over, Receive, IgnoreEvent, HandleEvent, JobProgress, Touch
  <1> QED
    BY <1>1, <1>2 DEF Next, SleepInfinity, vars

(* What entering the next state, or the same one again, does to the Jobs   *)
(* and to the stream.                                                      *)
LEMMA EnterAny ==
    ASSUME TypeOK, NEW id \in JobIds, NEW m \in Machine, NEW q \in Streams,
           EnterNext(id, m, q)
    PROVE  \E e \in {m.current, m.current + 1} :
              /\ sm'[id].current = e /\ done' = done
              /\ \A j \in JobIds \ {id} : sm'[j] = sm[j] /\ cluster'[j] = cluster[j]
              /\ \A x \in Steps : x # e => cluster'[id][x] = cluster[id][x]
              /\ e \in Steps =>
                    cluster'[id][e] \in {cluster[id][e], "none", "queued", "requested"}
              /\ \/ stream' = q
                 \/ e \in Steps /\ stream' = [q EXCEPT ![id][e] = Append(@, "queued")]
  <1> DEFINE entered == Change(m)
             e == entered.current
  <1>0. /\ cluster \in [JobIds -> [Steps -> Status]] /\ sm \in [JobIds -> Machine]
        /\ m.current \in Nat
    <2>1. m.current \in Nat
      BY NumStepsAssumption DEF Machine, Start, Complete
    <2> QED
      BY <2>1 DEF TypeOK
  <1>1. e \in {m.current, m.current + 1} /\ UnmarkRepeatable(entered).current = e
    BY DEF Change, UnmarkRepeatable, Machine
  <1>2. /\ sm'[id].current = e
        /\ \A j \in JobIds \ {id} : sm'[j] = sm[j]
    BY <1>0, <1>1 DEF EnterNext
  <1>3. CASE ~ Submits(entered)
    BY <1>1, <1>2, <1>3 DEF EnterNext
  <1>4. CASE Submits(entered)
    <2>0. e \in Steps
      BY <1>4 DEF Submits
    <2>1. SubmitJob(id, e, IsRepeating(entered), q)
      BY <1>4 DEF EnterNext
    <2>2. PICK st \in {cluster[id][e], "none", "queued", "requested"} :
             cluster' = [cluster EXCEPT ![id][e] = st]
      <3>1. cluster = [cluster EXCEPT ![id][e] = cluster[id][e]]
        BY <1>0, <2>0
      <3> HIDE DEF e
      <3> QED
        BY <2>1, <3>1 DEF SubmitJob, SubmitOK, SubmitConflict, SubmitError, SetStatus, FirstStatus,
                          DeleteJob
    <2>3. \/ stream' = q
          \/ stream' = [q EXCEPT ![id][e] = Append(@, "queued")]
      <3> HIDE DEF e
      <3> QED
        BY <2>1 DEF SubmitJob, SubmitOK, SubmitConflict, SubmitError, SetStatus, FirstStatus,
                    DeleteJob, IsListed
    <2>4. done' = done
      <3> HIDE DEF e
      <3> QED
        BY <2>1 DEF SubmitJob, SubmitOK, SubmitConflict, SubmitError, SetStatus, FirstStatus,
                    DeleteJob
    <2> HIDE DEF e
    <2> QED
      BY <1>0, <1>1, <1>2, <2>0, <2>2, <2>3, <2>4
  <1> QED
    BY <1>3, <1>4

(* One event handled, whatever rules there are.                            *)
LEMMA HandleAny ==
    ASSUME TypeOK, NoRetries, NEW id \in JobIds, NEW s \in Steps, HandleEvent(id, s), NEW st,
           st = Head(stream[id][s])
    PROVE  /\ id \in tracked /\ pc = "watch" /\ pc' = "check" /\ stream[id][s] # << >>
           /\ st \in Listed \ Retried
           /\ UNCHANGED <<watching, resume, tracked>>
           /\ \/ /\ st = "succeeded" /\ sm[id].current # Complete
                 /\ \E m \in Machine : /\ m.current = sm[id].current
                                       /\ EnterNext(id, m, Deliver(id, s))
              \/ /\ st = "succeeded" => sm[id].current = Complete
                 /\ \A j \in JobIds : sm'[j].current = sm[j].current
                 /\ cluster' = cluster /\ done' = done
                 /\ stream' = Deliver(id, s)
  <1>1. stream[id][s] # << >> /\ st \in Listed \ Retried
    <2>1. stream[id][s] # << >> /\ stream[id][s] \in Seq(Listed \ Retried)
      BY DEF HandleEvent, NoRetries
    <2> QED
      BY <2>1
  <1>2. (IsSucceeded(st) <=> st = "succeeded") /\ ~ IsFailed(st)
    BY <1>1 DEF IsSucceeded, IsFailed, IsCompleted, HasFailedPods, Retried
  <1>3. PICK m \in {sm[id], Repeat(sm[id], s)} :
           /\ id \in tracked /\ pc = "watch" /\ pc' = "check"
           /\ UNCHANGED <<watching, resume, tracked>>
           /\ \/ IsSucceeded(st) /\ SucceedJob(id, m, st, Deliver(id, s))
              \/ /\ ~ IsSucceeded(st)
                 /\ sm' = [sm EXCEPT ![id] = m]
                 /\ stream' = Deliver(id, s)
                 /\ cluster' = cluster /\ done' = done
    BY <1>2 DEF HandleEvent, Ignored
  <1>4. /\ sm \in [JobIds -> Machine] /\ m \in Machine /\ m.current = sm[id].current
        /\ MarkSucceeded(m) \in Machine /\ MarkSucceeded(m).current = m.current
    <2>1. sm \in [JobIds -> Machine]
      BY DEF TypeOK
    <2>2. m \in Machine /\ m.current = sm[id].current
      BY <2>1, MachineTypes DEF Repeat, Machine
    <2> QED
      BY <2>1, <2>2, MachineTypes DEF MarkSucceeded, Machine
  <1>5. CASE IsSucceeded(st) /\ m.current # Complete
    BY <1>1, <1>2, <1>3, <1>4, <1>5 DEF SucceedJob
  <1>6. CASE ~ (IsSucceeded(st) /\ m.current # Complete)
    <2>1. \E k \in Machine : /\ k.current = sm[id].current
                             /\ sm' = [sm EXCEPT ![id] = k]
                             /\ stream' = Deliver(id, s)
                             /\ cluster' = cluster /\ done' = done
      BY <1>3, <1>4, <1>6 DEF SucceedJob
    <2> QED
      BY <1>1, <1>2, <1>3, <1>4, <1>6, <2>1
  <1> QED
    BY <1>5, <1>6

(* A sequence that nothing happens to.                                     *)
LEMMA OwnFrame ==
    ASSUME NEW j \in JobIds, Own(j), j \in tracked' <=> j \in tracked,
           sm'[j].current = sm[j].current, cluster'[j] = cluster[j],
           \/ stream'[j] = stream[j]
           \/ \A x \in Steps : stream'[j][x] = << >>
    PROVE  Own(j)'
  BY EmptyQueue DEF Own, OwnCompletion, Untouched

(* Taking an event from the stream leaves the other Jobs' events.          *)
LEMMA Taken ==
    ASSUME TypeOK, NEW id \in JobIds, NEW s \in Steps, stream[id][s] # << >>
    PROVE  /\ stream[id][s] \in Seq(Listed)
           /\ Deliver(id, s) \in Streams
           /\ Deliver(id, s)[id][s] = Tail(stream[id][s])
           /\ \A j \in JobIds \ {id} : Deliver(id, s)[j] = stream[j]
           /\ \A x \in Steps \ {s} : Deliver(id, s)[id][x] = stream[id][x]
  BY DeliverType, TypeOKParts DEF Deliver, ClusterOK, Streams

(* One event of the watch keeps completions to their own steps.            *)
LEMMA ReceiveOwn ==
    ASSUME TypeOK, NoRetries, \A j \in JobIds : Own(j), NEW id \in JobIds, NEW s \in Steps,
           Receive(id, s)
    PROVE  /\ \A j \in JobIds : Own(j)'
           /\ id \in tracked /\ tracked' = tracked
  <1> DEFINE q == Deliver(id, s)
             st == Head(stream[id][s])
             c == sm[id].current
  <1>1. stream[id][s] # << >>
    BY DEF Receive, IgnoreEvent, HandleEvent
  <1>2. /\ stream[id][s] \in Seq(Listed) /\ q \in Streams
        /\ q[id][s] = Tail(stream[id][s])
        /\ \A j \in JobIds \ {id} : q[j] = stream[j]
        /\ \A x \in Steps \ {s} : q[id][x] = stream[id][x]
    BY <1>1, Taken
  <1>3. id \in tracked /\ OwnCompletion(id)
    BY <1>1 DEF Own, Untouched
  <1>4. /\ SuccessIsLast(q[id][s])
        /\ st = "succeeded" => ~ HasSuccess(q[id][s]) /\ HasSuccess(stream[id][s])
        /\ st # "succeeded" => (HasSuccess(q[id][s]) <=> HasSuccess(stream[id][s]))
    BY <1>1, <1>2, <1>3, TailQueue DEF OwnCompletion
  <1>5. ASSUME cluster' = cluster, stream' = q, tracked' = tracked,
               \A j \in JobIds : sm'[j].current = sm[j].current
        PROVE  \A j \in JobIds : Own(j)'
    <2>1. OwnCompletion(id)'
      BY <1>2, <1>3, <1>4, <1>5 DEF OwnCompletion
    <2>2. \A j \in JobIds \ {id} : Own(j)'
      BY <1>2, <1>5, OwnFrame
    <2> QED
      BY <1>3, <1>5, <2>1, <2>2 DEF Own
  <1>6. CASE IgnoreEvent(id, s)
    <2>1. cluster' = cluster /\ stream' = q /\ tracked' = tracked /\ sm' = sm
      BY <1>6 DEF IgnoreEvent, machineVars
    <2> QED
      BY <1>3, <1>5, <2>1
  <1>7. CASE HandleEvent(id, s)
    <2>1. tracked' = tracked
      BY <1>7, HandleAny
    <2>2. ASSUME st = "succeeded", NEW m \in Machine, m.current = c, EnterNext(id, m, q)
          PROVE  \A j \in JobIds : Own(j)'
      <3>1. /\ s = c /\ c \in Steps /\ cluster[id][s] = "succeeded"
            /\ \A x \in Steps : ~ HasSuccess(q[id][x])
        BY <1>2, <1>3, <1>4, <2>2 DEF OwnCompletion
      <3>2. PICK e \in {c, c + 1} :
               /\ sm'[id].current = e
               /\ \A j \in JobIds \ {id} : sm'[j] = sm[j] /\ cluster'[j] = cluster[j]
               /\ \A x \in Steps : x # e => cluster'[id][x] = cluster[id][x]
               /\ \/ stream' = q
                  \/ e \in Steps /\ stream' = [q EXCEPT ![id][e] = Append(@, "queued")]
        BY <1>2, <2>2, EnterAny
      <3>3. /\ \A j \in JobIds \ {id} : stream'[j] = stream[j]
            /\ \A x \in Steps : ~ HasSuccess(stream'[id][x]) /\ SuccessIsLast(stream'[id][x])
        <4>1. \A x \in Steps : SuccessIsLast(q[id][x])
          BY <1>2, <1>3, <1>4 DEF OwnCompletion
        <4>2. CASE stream' = q
          BY <1>2, <3>1, <4>1, <4>2
        <4>3. CASE e \in Steps /\ stream' = [q EXCEPT ![id][e] = Append(@, "queued")]
          <5>1. "queued" \in Listed /\ q[id][e] \in Seq(Listed)
            BY <1>2, <4>3 DEF Listed, Status, IsListed, Streams
          <5>2. ~ HasSuccess(Append(q[id][e], "queued")) /\ SuccessIsLast(Append(q[id][e], "queued"))
            BY <3>1, <4>3, <5>1, AppendQueue
          <5>3. stream'[id] = [q[id] EXCEPT ![e] = Append(@, "queued")]
                /\ \A j \in JobIds \ {id} : stream'[j] = q[j]
            BY <1>2, <4>3 DEF Streams
          <5>4. \A x \in Steps : stream'[id][x] = IF x = e THEN Append(q[id][e], "queued") ELSE q[id][x]
            BY <1>2, <4>3, <5>3 DEF Streams
          <5> QED
            BY <1>2, <3>1, <4>1, <5>2, <5>3, <5>4
        <4> QED
          BY <3>2, <4>2, <4>3
      <3>4. OwnCompletion(id)'
        <4>1. c \in Nat /\ \A x \in Steps : x \in Nat
          BY <3>1 DEF Steps
        <4>2. \A x \in Steps : x > e => x > c /\ x # e
          BY <3>2, <4>1
        <4>3. \A x \in Steps : x < e => x # e /\ (x < c \/ x = c)
          BY <3>2, <4>1
        <4> QED
          BY <1>3, <3>1, <3>2, <3>3, <4>2, <4>3 DEF OwnCompletion
      <3>5. \A j \in JobIds \ {id} : Own(j)'
        BY <2>1, <3>2, <3>3, OwnFrame
      <3> QED
        BY <1>3, <2>1, <3>4, <3>5 DEF Own
    <2>3. ASSUME cluster' = cluster, stream' = q, \A j \in JobIds : sm'[j].current = sm[j].current
          PROVE  \A j \in JobIds : Own(j)'
      BY <1>5, <2>1, <2>3
    <2> QED
      BY <1>3, <1>7, <2>1, <2>2, <2>3, HandleAny
  <1> QED
    BY <1>6, <1>7 DEF Receive

(* A Job that goes on is that of the step its machine stands at.           *)
LEMMA ProgressOwn ==
    ASSUME TypeOK, NEW id \in JobIds, NEW s \in Steps, JobProgress(id, s), Own(id)
    PROVE  /\ id \in tracked /\ s = sm[id].current /\ cluster[id][s] # "succeeded"
           /\ ~ HasSuccess(stream[id][s])
           /\ cluster'[id][s] \in Successors(cluster[id][s])
  <1>1. cluster'[id][s] \in Successors(cluster[id][s]) /\ cluster[id][s] \notin {"none", "succeeded"}
    BY DEF JobProgress, SetStatus, TypeOK, Successors
  <1>2. id \in tracked /\ OwnCompletion(id)
    BY <1>1 DEF Own, Untouched
  <1>3. sm[id].current \in Nat /\ s \in Nat
    BY Counts DEF Steps
  <1> QED
    BY <1>1, <1>2, <1>3 DEF OwnCompletion

(* With no retries, none appear.                                           *)
LEMMA RetriesNever ==
    ASSUME TypeOK, MetricsPremise, NoRetries, [Next]_vars
    PROVE  NoRetries'
  <1> DEFINE Calm == [JobIds -> [Steps -> Seq(Listed \ Retried)]]
  <1>0. /\ cluster \in [JobIds -> [Steps -> Status]] /\ stream \in Streams
        /\ "queued" \in Listed \ Retried /\ << >> \in Seq(Listed \ Retried)
    BY TypeOKParts DEF ClusterOK, Listed, Retried, IsListed, Status
  <1>1. stream \in Calm /\ NoStream \in Calm
    BY <1>0 DEF NoRetries, Streams, NoStream
  <1>2. ASSUME NEW q \in Calm, cluster' = cluster, stream' = q PROVE NoRetries'
    BY <1>0, <1>2 DEF NoRetries
  <1>3. ASSUME NEW id \in JobIds, NEW m \in Machine, NEW q \in Calm, q \in Streams,
               EnterNext(id, m, q)
        PROVE  NoRetries'
    <2>1. PICK e \in {m.current, m.current + 1} :
             /\ \A j \in JobIds \ {id} : sm'[j] = sm[j] /\ cluster'[j] = cluster[j]
             /\ \A x \in Steps : x # e => cluster'[id][x] = cluster[id][x]
             /\ e \in Steps => cluster'[id][e] \in {cluster[id][e], "none", "queued", "requested"}
             /\ \/ stream' = q
                \/ e \in Steps /\ stream' = [q EXCEPT ![id][e] = Append(@, "queued")]
      BY <1>3, EnterAny
    <2>2. \A j \in JobIds, x \in Steps : cluster'[j][x] \notin Retried
      BY <2>1 DEF NoRetries, Retried
    <2>3. e \in Steps => Append(q[id][e], "queued") \in Seq(Listed \ Retried)
      BY <1>0, <1>3
    <2>4. ASSUME NEW j \in JobIds, NEW x \in Steps PROVE stream'[j][x] \in Seq(Listed \ Retried)
      <3>1. q \in [JobIds -> [Steps -> Seq(Listed \ Retried)]]
        BY <1>3
      <3>2. \/ stream' = q
            \/ e \in Steps /\ stream' = [q EXCEPT ![id][e] = Append(@, "queued")]
        BY <2>1
      <3>3. CASE stream' = q
        BY <3>1, <3>3
      <3>4. CASE e \in Steps /\ stream' = [q EXCEPT ![id][e] = Append(@, "queued")]
        <4>1. stream'[j][x] = q[j][x] \/ stream'[j][x] = Append(q[id][e], "queued")
          BY <3>1, <3>4
        <4> QED
          BY <2>3, <3>1, <3>4, <4>1
      <3> QED
        BY <3>2, <3>3, <3>4
    <2> QED
      BY <2>2, <2>4 DEF NoRetries
  <1>4. ASSUME NEW id \in JobIds, NEW s \in Steps, Receive(id, s) PROVE NoRetries'
    <2>1. stream[id][s] # << >>
      BY <1>4 DEF Receive, IgnoreEvent, HandleEvent
    <2>2. Deliver(id, s) \in Calm /\ Deliver(id, s) \in Streams
      <3>1. stream[id][s] \in Seq(Listed \ Retried)
        BY <1>1
      <3>2. Tail(stream[id][s]) \in Seq(Listed \ Retried)
        BY <2>1, <3>1
      <3> QED
        BY <1>1, <2>1, <3>2, DeliverType DEF Deliver
    <2>3. CASE IgnoreEvent(id, s)
      BY <1>2, <2>2, <2>3 DEF IgnoreEvent
    <2>4. CASE HandleEvent(id, s)
      BY <1>2, <1>3, <2>2, <2>4, HandleAny
    <2> QED
      BY <1>4, <2>3, <2>4 DEF Receive
  <1>5. ASSUME NEW id \in JobIds, NEW s \in Steps, JobProgress(id, s) \/ Touch(id, s)
        PROVE  NoRetries'
    <2>1. cluster'[id][s] \in Listed \ Retried
      <3>1. /\ cluster'[id][s] \in Successors(cluster[id][s]) \cup {cluster[id][s]}
            /\ IsListed(cluster'[id][s])
        BY <1>5, ProgressJobs
      <3>2. cluster[id][s] \in Status \ Retried
        BY <1>0 DEF NoRetries
      <3>3. Successors(cluster[id][s]) \subseteq Status \ Retried
        BY <3>2 DEF Successors, Retried, Status, MetricsPremise
      <3> QED
        BY <3>1, <3>2, <3>3 DEF Listed
    <2>2. Append(stream[id][s], cluster'[id][s]) \in Seq(Listed \ Retried)
      BY <1>1, <2>1
    <2>3. \A j \in JobIds, x \in Steps : stream'[j][x] \in Seq(Listed \ Retried)
      <3>1. \/ stream' = stream
            \/ stream' = [stream EXCEPT ![id][s] = Append(@, cluster'[id][s])]
        BY <1>5, ProgressJobs
      <3>2. stream \in [JobIds -> [Steps -> Seq(Listed \ Retried)]]
        BY <1>1
      <3> QED
        BY <2>2, <3>1, <3>2
    <2>4. \A j \in JobIds, x \in Steps : cluster'[j][x] \notin Retried
      BY <1>5, <2>1, ProgressJobs DEF NoRetries
    <2> QED
      BY <2>3, <2>4 DEF NoRetries
  <1>6. CASE Watch
    <2> DEFINE replay == [id \in JobIds |-> [s \in Steps |->
                             IF IsListed(cluster[id][s]) THEN <<cluster[id][s]>> ELSE << >>]]
    <2>1. cluster' = cluster /\ (stream' = stream \/ stream' = replay)
      BY <1>6 DEF Watch
    <2>2. ASSUME NEW id \in JobIds, NEW s \in Steps, IsListed(cluster[id][s])
          PROVE  <<cluster[id][s]>> \in Seq(Listed \ Retried)
      <3>1. cluster[id][s] \in Listed \ Retried
        BY <1>0, <2>2 DEF NoRetries, Listed
      <3> QED
        BY <3>1
    <2>3. replay \in Calm
      BY <1>0, <2>2
    <2> HIDE DEF replay
    <2> QED
      BY <1>1, <1>2, <2>1, <2>3
  <1>7. ASSUME NEW id \in JobIds, NEW s \in Steps, ResumeSequence(id, s) PROVE NoRetries'
    <2>1. NewMachine \in Machine
      BY NumStepsAssumption DEF NewMachine, Machine, Start, Complete
    <2>2. MarkRunning(NewMachine, s) \in Machine
      BY <2>1, MachineTypes
    <2> QED
      BY <1>0, <1>1, <1>3, <1>7, <2>2 DEF ResumeSequence
  <1>8. ASSUME NEW id \in JobIds, SubmitSequence(id) PROVE NoRetries'
    <2>1. NewMachine \in Machine
      BY NumStepsAssumption DEF NewMachine, Machine, Start, Complete
    <2> QED
      BY <1>0, <1>1, <1>3, <1>8, <2>1 DEF SubmitSequence
  <1>9. CASE InitState \/ NewJobs \/ Lost \/ Quiet
    <2>1. cluster' = cluster /\ (stream' = stream \/ stream' = NoStream)
      BY <1>9 DEF InitState, NewJobs, Lost, ProcessLost, Quiet, clusterVars
    <2> QED
      BY <1>1, <1>2, <2>1
  <1> QED
    BY <1>4, <1>5, <1>6, <1>7, <1>8, <1>9, StepShape

(* The invariant is kept.                                                  *)
LEMMA OwnInvStep ==
    ASSUME TypeOK, MetricsPremise, OwnInv, [Next]_vars
    PROVE  OwnInv'
  <1>0. /\ NoRetries' /\ (pc' \in {"rules", "watch"} => watching') /\ NoRetries
        /\ cluster \in [JobIds -> [Steps -> Status]] /\ stream \in Streams
        /\ pc \in Over => pc' = pc
    BY RetriesNever, WatchOpen, OverStays, TypeOKParts DEF OwnInv, ClusterOK
  <1> DEFINE Goal == /\ pc' \in {"down", "resume"} => tracked' = {} /\ resume' = {}
                     /\ pc' # "died" => \A id \in JobIds : Own(id)'
                     /\ ~ watching' /\ pc' \notin Over => \A id \in tracked' : sm'[id].current <= 1
  <1>1. CASE InitState
    <2>1. /\ pc = "down" /\ tracked = {} /\ \A id \in JobIds : Untouched(id)
      BY <1>1 DEF InitState, OwnInv, Own
    <2>2. /\ tracked' = {} /\ cluster' = cluster /\ stream' = stream
      <3>1. \A id \in JobIds, s \in Steps : ~ Unfinished(cluster[id][s])
        BY <2>1 DEF Untouched, Unfinished, InQueued, InRunning
      <3> QED
        BY <1>1, <3>1 DEF InitState, clusterVars
    <2>3. resume' = {}
      <3>1. \A id \in JobIds, s \in Steps : ~ InSuccess(cluster[id][s])
        BY <2>1 DEF Untouched, InSuccess, IsCompleted
      <3> QED
        BY <1>1, <3>1 DEF InitState
    <2> QED
      BY <1>0, <2>1, <2>2, <2>3 DEF OwnInv, Own, Untouched
  <1>2. ASSUME NEW id \in JobIds, NEW s \in Steps, ResumeSequence(id, s) PROVE FALSE
    BY <1>2 DEF ResumeSequence, OwnInv
  <1>3. CASE NewJobs
    <2>1. /\ pc = "new" /\ pc' = "submit"
          /\ UNCHANGED <<cluster, stream, watching, tracked, sm, resume>>
      BY <1>3 DEF NewJobs, clusterVars, machineVars
    <2>2. \A j \in JobIds : Own(j)'
      BY <2>1, OwnFrame DEF OwnInv
    <2> QED
      BY <1>0, <2>1, <2>2 DEF OwnInv, Over
  <1>4. CASE Quiet
    <2>1. /\ UNCHANGED <<cluster, tracked, sm>> /\ resume' \subseteq resume
          /\ stream' = stream \/ stream' = NoStream
          /\ pc' \in {"down", "resume"} => pc' = pc
          /\ pc = "died" => pc' = "died"
          /\ pc' \in Over \/ watching' = watching
      BY <1>4 DEF Quiet, Ended, Over
    <2>2. pc' # "died" => \A j \in JobIds : Own(j)'
      BY <2>1, OwnFrame DEF OwnInv, NoStream
    <2>3. pc' \notin Over => pc \notin Over /\ watching' = watching
      BY <1>0, <2>1
    <2>4. pc' \in {"down", "resume"} => tracked' = {} /\ resume' = {}
      BY <2>1 DEF OwnInv
    <2>5. ~ watching' /\ pc' \notin Over => \A id \in tracked' : sm'[id].current <= 1
      BY <2>1, <2>3 DEF OwnInv
    <2> QED
      BY <1>0, <2>2, <2>4, <2>5 DEF OwnInv
  <1>5. CASE Lost
    <2>1. pc' = "died"
      BY <1>5 DEF Lost, MetricsPremise
    <2> QED
      BY <1>0, <2>1 DEF OwnInv, Over
  <1>6. CASE Watch
    <2>1. /\ pc = "submit" /\ pc' = "watch" /\ watching'
          /\ UNCHANGED <<cluster, tracked, sm, resume>>
          /\ watching => stream' = stream
          /\ ~ watching => stream' = [id \in JobIds |-> [s \in Steps |->
                             IF IsListed(cluster[id][s]) THEN <<cluster[id][s]>> ELSE << >>]]
      BY <1>6 DEF Watch, machineVars, loopVars
    <2>2. ASSUME NEW j \in JobIds, ~ watching PROVE Own(j)'
      <3>1. /\ Own(j) /\ \A x \in Steps : stream'[j][x] = IF IsListed(cluster[j][x])
                                                          THEN <<cluster[j][x]>> ELSE << >>
            /\ j \in tracked => sm[j].current <= 1
        BY <2>1, <2>2 DEF OwnInv, Over
      <3>2. CASE j \notin tracked
        BY <2>1, <3>1, <3>2 DEF Own, Untouched, IsListed
      <3>3. CASE j \in tracked
        <4>1. \A x \in Steps : /\ SuccessIsLast(stream'[j][x])
                               /\ HasSuccess(stream'[j][x]) => cluster[j][x] = "succeeded"
          BY <3>1, EmptyQueue, SingleQueue
        <4>2. sm[j].current \in Nat /\ \A x \in Steps : x \in Nat /\ x >= 1
          BY Counts DEF Steps
        <4>3. OwnCompletion(j)
          BY <3>1, <3>3 DEF Own
        <4>4. \A x \in Steps : cluster[j][x] = "succeeded" => x = sm[j].current
          BY <3>1, <3>3, <4>2, <4>3 DEF OwnCompletion
        <4>5. OwnCompletion(j)'
          BY <2>1, <4>1, <4>3, <4>4 DEF OwnCompletion
        <4> QED
          BY <2>1, <3>3, <4>5 DEF Own
      <3> QED
        BY <3>2, <3>3
    <2>3. ASSUME NEW j \in JobIds, watching PROVE Own(j)'
      BY <2>1, <2>3, OwnFrame DEF OwnInv
    <2> QED
      BY <1>0, <2>1, <2>2, <2>3 DEF OwnInv
  <1>7. ASSUME NEW id \in JobIds, SubmitSequence(id) PROVE OwnInv'
    <2>0. NewMachine \in Machine /\ NewMachine.repeat = {} /\ NewMachine.current + 1 = 1 /\ 1 \in Steps
      BY NumStepsAssumption DEF NewMachine, Machine, Start, Complete, Steps
    <2>1. /\ pc = "submit" /\ pc' = "submit" /\ id \notin tracked /\ tracked' = tracked \cup {id}
          /\ watching' = watching /\ resume' = resume /\ EnterNext(id, NewMachine, stream)
      BY <1>7 DEF SubmitSequence
    <2>2. /\ Submitted(id, 1, stream) /\ sm'[id].current = 1
          /\ \A j \in JobIds \ {id} : sm'[j] = sm[j]
      BY <1>0, <2>0, <2>1, EnterEffect
    <2>3. Untouched(id) /\ \A j \in JobIds : Own(j)
      BY <2>1 DEF OwnInv, Own
    <2>4. /\ \A x \in Steps : stream'[id][x] = << >> \/ stream'[id][x] = <<"queued">>
          /\ \A x \in Steps : x > 1 => cluster'[id][x] = "none"
      <3>1. \A x \in Steps : stream[id][x] = << >> /\ cluster[id][x] = "none"
        BY <2>3 DEF Untouched
      <3>2. stream'[id][1] = << >> \/ stream'[id][1] = <<"queued">>
        BY <2>0, <2>2, <3>1 DEF Submitted
      <3>3. \A x \in Steps \ {1} : stream'[id][x] = << >> /\ cluster'[id][x] = "none"
        BY <2>2, <3>1 DEF Submitted
      <3>4. \A x \in Steps : x > 1 => x \in Steps \ {1}
        BY DEF Steps
      <3> QED
        BY <3>2, <3>3, <3>4
    <2>5. \A x \in Steps : ~ HasSuccess(stream'[id][x]) /\ SuccessIsLast(stream'[id][x])
      BY <2>4, EmptyQueue, SingleQueue
    <2>6. Own(id)'
      <3>1. \A x \in Steps : ~ (x < 1)
        BY DEF Steps
      <3> QED
        BY <2>1, <2>2, <2>4, <2>5, <3>1 DEF Own, OwnCompletion
    <2>7. \A j \in JobIds \ {id} : Own(j)'
      BY <2>1, <2>2, <2>3, OwnFrame DEF Submitted
    <2>8. ~ watching' => \A j \in tracked' : sm'[j].current <= 1
      BY <2>1, <2>2 DEF OwnInv, Over, TypeOK
    <2> QED
      BY <1>0, <2>1, <2>6, <2>7, <2>8 DEF OwnInv
  <1>8. ASSUME NEW id \in JobIds, NEW s \in Steps, Receive(id, s) PROVE OwnInv'
    <2>1. /\ pc = "watch" /\ pc' \in {"watch", "check"} /\ watching' = watching /\ resume' = resume
      BY <1>8 DEF Receive, IgnoreEvent, HandleEvent, loopVars
    <2>2. \A j \in JobIds : Own(j)'
      BY <1>0, <1>8, <2>1, ReceiveOwn DEF OwnInv
    <2> QED
      BY <1>0, <2>1, <2>2 DEF OwnInv
  <1>9. ASSUME NEW id \in JobIds, NEW s \in Steps, JobProgress(id, s) PROVE OwnInv'
    <2>1. /\ UNCHANGED <<pc, watching, tracked, sm, resume>>
          /\ \A j \in JobIds, x \in Steps : j # id \/ x # s => cluster'[j][x] = cluster[j][x]
          /\ IsListed(cluster'[id][s])
          /\ stream' = IF watching THEN [stream EXCEPT ![id][s] = Append(@, cluster'[id][s])]
                       ELSE stream
      BY <1>9, ProgressJobs
    <2>2. ASSUME pc # "died", NEW j \in JobIds PROVE Own(j)'
      <3>1. Own(j) /\ Own(id)
        BY <2>2 DEF OwnInv
      <3>2. CASE j # id
        <4>1. stream'[j] = stream[j]
          BY <1>0, <2>1, <3>2 DEF Streams
        <4>2. \A x \in Steps : cluster'[j][x] = cluster[j][x]
          BY <2>1, <3>2
        <4> QED
          BY <2>1, <3>1, <4>1, <4>2 DEF Own, OwnCompletion, Untouched
      <3>3. CASE j = id
        <4>1. /\ id \in tracked /\ s = sm[id].current /\ cluster[id][s] # "succeeded"
              /\ ~ HasSuccess(stream[id][s]) /\ OwnCompletion(id)
          BY <1>9, <3>1, ProgressOwn DEF Own
        <4>2. /\ stream[id][s] \in Seq(Listed) /\ cluster'[id][s] \in Listed
          <5>1. TypeOK'
            BY StepType
          <5>2. cluster'[id][s] \in Listed
            BY <2>1, <5>1 DEF TypeOK, Listed
          <5>3. stream[id][s] \in Seq(Listed)
            BY <1>0 DEF Streams
          <5> QED
            BY <5>2, <5>3
        <4>3. /\ \A x \in Steps \ {s} : stream'[id][x] = stream[id][x]
              /\ \/ stream'[id][s] = stream[id][s]
                 \/ stream'[id][s] = Append(stream[id][s], cluster'[id][s])
          BY <1>0, <2>1 DEF Streams
        <4>4. /\ SuccessIsLast(stream'[id][s])
              /\ HasSuccess(stream'[id][s]) => cluster'[id][s] = "succeeded"
          <5>1. SuccessIsLast(stream[id][s])
            BY <4>1 DEF OwnCompletion
          <5>2. /\ SuccessIsLast(Append(stream[id][s], cluster'[id][s]))
                /\ HasSuccess(Append(stream[id][s], cluster'[id][s])) <=>
                      cluster'[id][s] = "succeeded"
            BY <4>1, <4>2, AppendQueue
          <5> QED
            BY <4>1, <4>3, <5>1, <5>2
        <4>5. sm[id].current \in Nat /\ \A x \in Steps : x \in Nat
          BY Counts DEF Steps
        <4>6. OwnCompletion(id)'
          BY <2>1, <4>1, <4>3, <4>4, <4>5 DEF OwnCompletion
        <4> QED
          BY <2>1, <3>3, <4>1, <4>6 DEF Own
      <3> QED
        BY <3>2, <3>3
    <2> QED
      BY <1>0, <2>1, <2>2 DEF OwnInv
  <1>10. ASSUME NEW id \in JobIds, NEW s \in Steps, Touch(id, s) PROVE FALSE
    BY <1>10 DEF Touch, TypeOK, MetricsPremise
  <1> QED
    BY <1>1, <1>2, <1>3, <1>4, <1>5, <1>6, <1>7, <1>8, <1>9, <1>10, StepShape

(* Completions belong to the step of the machine they reach.               *)
LEMMA OwnInvHolds ==
    ASSUME MetricsPremise
    PROVE  Spec => []OwnInv
  <1>1. Init => OwnInv
    <2> SUFFICES ASSUME Init PROVE OwnInv
      OBVIOUS
    <2>1. NoRetries
      <3>1. << >> \in Seq(Listed \ Retried)
        OBVIOUS
      <3> QED
        BY <3>1 DEF Init, NoRetries, NoStream, Retried
    <2>2. \A id \in JobIds : Own(id)
      BY DEF Init, Own, Untouched, NoStream
    <2> QED
      BY <2>1, <2>2 DEF Init, OwnInv
  <1>2. TypeOK /\ OwnInv /\ [Next]_vars => OwnInv'
    BY OwnInvStep
  <1> QED
    BY <1>1, <1>2, TypeCorrect, PTL DEF Spec

-----------------------------------------------------------------------------
(* What update_metrics records.                                            *)

Datum == [success : Nat, failure : Nat, duration : Nat, custom : Nat]

MetricsOK ==
    /\ metrics \in [Steps -> Datum]
    /\ ended \in [Steps -> Nat]

(* One more datum in one series.                                           *)
LEMMA DatumOnce ==
    ASSUME NEW r \in Datum
    PROVE  /\ [r EXCEPT !.success = @ + 1] \in Datum
           /\ [r EXCEPT !.duration = @ + 1] \in Datum
           /\ [r EXCEPT !.custom = @ + 1] \in Datum
  BY DEF Datum

(* update_metrics on one event: a success is counted once, for the step of *)
(* its Job, with its duration; its log, if it is parsed, is recorded there *)
(* as well, because the machine stands at that step.                       *)
LEMMA HandledOnce ==
    ASSUME TypeOK, OwnInv, MetricsOK, NEW id \in JobIds, NEW s \in Steps,
           HandleWithMetrics(id, s)
    PROVE  /\ metrics' \in [Steps -> Datum]
           /\ \A x \in Steps \ {s} : metrics'[x] = metrics[x]
           /\ IF Head(stream[id][s]) = "succeeded"
              THEN /\ metrics'[s].success = metrics[s].success + 1
                   /\ metrics'[s].duration = metrics[s].duration + 1
                   /\ metrics'[s].custom \in {metrics[s].custom, metrics[s].custom + 1}
              ELSE metrics' = metrics
  <1> DEFINE st == Head(stream[id][s])
  <1>0. metrics \in [Steps -> Datum] /\ HandleEvent(id, s) /\ NoRetries
    BY DEF MetricsOK, HandleWithMetrics, OwnInv
  <1>1. /\ id \in tracked /\ pc = "watch" /\ stream[id][s] # << >>
        /\ st \in Listed \ Retried
    BY <1>0, HandleAny
  <1>2. /\ ~ IsFailed(st)
        /\ IsSucceeded(st) <=> st = "succeeded"
        /\ IsCompleted(st) <=> st = "succeeded"
    BY <1>1 DEF IsSucceeded, IsFailed, IsCompleted, HasFailedPods, Retried
  <1>3. SaveLog(sm[id].current, st, Counted(s, st))
    BY DEF HandleWithMetrics, UpdateMetrics
  <1>4. CASE st # "succeeded"
    <2>1. Counted(s, st) = metrics
      BY <1>2, <1>4 DEF Counted, Duration
    <2>2. metrics' = metrics
      BY <1>2, <1>3, <1>4, <2>1 DEF SaveLog
    <2> QED
      BY <1>0, <1>4, <2>2
  <1>5. CASE st = "succeeded"
    <2>1. s = sm[id].current
      <3>1. OwnCompletion(id)
        BY <1>1 DEF OwnInv, Own
      <3>2. stream[id][s] \in Seq(Listed) /\ SuccessIsLast(stream[id][s])
        BY <1>1, <3>1, Taken DEF OwnCompletion
      <3>3. HasSuccess(stream[id][s])
        BY <1>1, <1>5, <3>2, TailQueue
      <3> QED
        BY <3>1, <3>3 DEF OwnCompletion
    <2> DEFINE d == Recorded(metrics, s, "duration")
               m == Recorded(d, s, "success")
               l == Recorded(m, s, "custom")
    <2>2. Counted(s, st) = m
      BY <1>2, <1>5 DEF Counted, Duration
    <2>3. metrics' = m \/ metrics' = l
      BY <1>3, <2>1, <2>2 DEF SaveLog, ParsedLog
    <2>4. /\ d \in [Steps -> Datum]
          /\ \A x \in Steps \ {s} : d[x] = metrics[x]
          /\ d[s] = [metrics[s] EXCEPT !.duration = @ + 1]
      <3>1. d = [metrics EXCEPT ![s] = [metrics[s] EXCEPT !.duration = @ + 1]]
        BY DEF Recorded, d
      <3>2. metrics \in [Steps -> Datum] /\ metrics[s] \in Datum
        BY <1>0
      <3>3. [metrics[s] EXCEPT !.duration = @ + 1] \in Datum
        BY <3>2, DatumOnce
      <3> QED
        BY <3>1, <3>2, <3>3
    <2> HIDE DEF d
    <2>5. /\ m \in [Steps -> Datum]
          /\ \A x \in Steps \ {s} : m[x] = d[x]
          /\ m[s] = [d[s] EXCEPT !.success = @ + 1]
      <3>1. m = [d EXCEPT ![s] = [d[s] EXCEPT !.success = @ + 1]]
        BY DEF Recorded, m
      <3>2. d \in [Steps -> Datum] /\ d[s] \in Datum
        BY <2>4
      <3>3. [d[s] EXCEPT !.success = @ + 1] \in Datum
        BY <3>2, DatumOnce
      <3> QED
        BY <3>1, <3>2, <3>3
    <2> HIDE DEF m
    <2>6. /\ l \in [Steps -> Datum]
          /\ \A x \in Steps \ {s} : l[x] = m[x]
          /\ l[s] = [m[s] EXCEPT !.custom = @ + 1]
      <3>1. l = [m EXCEPT ![s] = [m[s] EXCEPT !.custom = @ + 1]]
        BY DEF Recorded, l
      <3>2. m \in [Steps -> Datum] /\ m[s] \in Datum
        BY <2>5
      <3>3. [m[s] EXCEPT !.custom = @ + 1] \in Datum
        BY <3>2, DatumOnce
      <3> QED
        BY <3>1, <3>2, <3>3
    <2> HIDE DEF l
    <2>7. /\ m[s].success = metrics[s].success + 1
          /\ m[s].duration = metrics[s].duration + 1
          /\ m[s].custom = metrics[s].custom
      BY <1>0, <2>4, <2>5 DEF Datum
    <2>8. /\ l[s].success = m[s].success
          /\ l[s].duration = m[s].duration
          /\ l[s].custom = m[s].custom + 1
      BY <2>5, <2>6 DEF Datum
    <2>9. /\ metrics' \in [Steps -> Datum]
          /\ \A x \in Steps \ {s} : metrics'[x] = metrics[x]
      BY <2>3, <2>4, <2>5, <2>6
    <2>10. /\ metrics'[s].success = metrics[s].success + 1
           /\ metrics'[s].duration = metrics[s].duration + 1
           /\ metrics'[s].custom \in {metrics[s].custom, metrics[s].custom + 1}
      BY <2>3, <2>7, <2>8
    <2> QED
      BY <1>5, <2>9, <2>10
  <1> QED
    BY <1>4, <1>5

(* Elsewhere the metrics stay, or are lost with the process.               *)
LEMMA MetricsElsewhere ==
    ASSUME [MetricsNext]_<<vars, metricVars>>
    PROVE  \/ \E id \in JobIds, s \in Steps : HandleWithMetrics(id, s)
           \/ \E id \in JobIds, s \in Steps : JobEnds(id, s)
           \/ /\ ended' = ended
              /\ metrics' = metrics \/ (pc' \in {"down", "died"} /\ metrics' = NoMetrics)
              /\ \/ Step \/ Crash \/ UncaughtError \/ UNCHANGED vars
                 \/ \E id \in JobIds, s \in Steps : IgnoreEvent(id, s) \/ Touch(id, s)
  BY DEF MetricsNext, Elsewhere, metricVars, SleepInfinity

(***************************************************************************)
(* With no restart, no event redelivered and no Job retried, and whatever  *)
(* rules there are, a log is parsed by the script of its own Job's step.   *)
(***************************************************************************)
THEOREM LogsOfOwnStepHolds ==
    ASSUME MetricsPremise
    PROVE  MetricsSpec => []LogsOfOwnStep
  <1>0. /\ NoMetrics \in [Steps -> Datum]
        /\ \A x \in Steps : NoMetrics[x].custom <= NoMetrics[x].duration
    BY DEF NoMetrics, Datum
  <1>1. MetricsInit => MetricsOK /\ LogsOfOwnStep
    BY <1>0 DEF MetricsInit, MetricsOK, LogsOfOwnStep
  <1>2. ASSUME TypeOK, OwnInv, MetricsOK, LogsOfOwnStep, [MetricsNext]_<<vars, metricVars>>
        PROVE  MetricsOK' /\ LogsOfOwnStep'
    <2>1. ASSUME NEW id \in JobIds, NEW s \in Steps, HandleWithMetrics(id, s)
          PROVE  MetricsOK' /\ LogsOfOwnStep'
      <3>1. metrics' \in [Steps -> Datum] /\ ended' = ended
        BY <1>2, <2>1, HandledOnce DEF HandleWithMetrics
      <3>2. ASSUME NEW x \in Steps PROVE metrics'[x].custom <= metrics'[x].duration
        <4>1. /\ metrics[x].custom \in Nat /\ metrics[x].duration \in Nat
              /\ metrics[x].custom <= metrics[x].duration
          BY <1>2 DEF MetricsOK, Datum, LogsOfOwnStep
        <4> QED
          BY <1>2, <2>1, <4>1, HandledOnce
      <3> QED
        BY <1>2, <3>1, <3>2 DEF MetricsOK, LogsOfOwnStep
    <2>2. ASSUME NEW id \in JobIds, NEW s \in Steps, JobEnds(id, s)
          PROVE  MetricsOK' /\ LogsOfOwnStep'
      BY <1>2, <2>2 DEF JobEnds, MetricsOK, LogsOfOwnStep
    <2>3. ASSUME ended' = ended, metrics' \in {metrics, NoMetrics}
          PROVE  MetricsOK' /\ LogsOfOwnStep'
      BY <1>0, <1>2, <2>3 DEF MetricsOK, LogsOfOwnStep
    <2> QED
      BY <1>2, <2>1, <2>2, <2>3, MetricsElsewhere
  <1>3. MetricsSpec => [](TypeOK /\ OwnInv)
    BY MetricsImplement, TypeCorrect, OwnInvHolds, PTL
  <1> QED
    BY <1>1, <1>2, <1>3, PTL DEF MetricsSpec

-----------------------------------------------------------------------------
(* CountsExact.                                                            *)

Pending(s) == {id \in JobIds : HasSuccess(stream[id][s])}
Succeeded(s) == {id \in JobIds : cluster[id][s] = "succeeded"}

(***************************************************************************)
(* While the manager watches, its counters and the completions on their    *)
(* way make up the Jobs that have ended; before, nothing is counted and    *)
(* the replay that opens the watch will tell of every Job that succeeded.  *)
(***************************************************************************)
CountInv ==
    /\ pc \in Over \cup {"down"} => ~ watching
    /\ \A s \in Steps :
          IF watching THEN metrics[s].success + Cardinality(Pending(s)) = ended[s]
          ELSE pc \notin Over => /\ metrics[s].success = 0
                                 /\ ended[s] = Cardinality(Succeeded(s))

(* Sets of sequences are finite, and grow and shrink by one.               *)
LEMMA PendingSets ==
    ASSUME NEW A \in SUBSET JobIds, NEW id \in JobIds
    PROVE  /\ Cardinality(A) \in Nat
           /\ id \notin A => Cardinality(A \cup {id}) = Cardinality(A) + 1
           /\ id \in A => Cardinality(A \ {id}) = Cardinality(A) - 1
  <1>1. IsFiniteSet(A)
    BY JobIdsAssumption, FS_Subset
  <1> QED
    BY <1>1, FS_CardinalityType, FS_AddElement, FS_RemoveElement

(* An event that is taken from the stream is a completion on its way, or   *)
(* changes none of them.                                                   *)
LEMMA PendingReceive ==
    ASSUME TypeOK, OwnInv, NEW id \in JobIds, NEW s \in Steps, Receive(id, s)
    PROVE  /\ \A x \in Steps \ {s} : Pending(x)' = Pending(x)
           /\ IF Head(stream[id][s]) = "succeeded"
              THEN HandleEvent(id, s) /\ id \in Pending(s) /\ Pending(s)' = Pending(s) \ {id}
              ELSE Pending(s)' = Pending(s)
  <1> DEFINE q == Deliver(id, s)
             st == Head(stream[id][s])
  <1>1. /\ stream[id][s] # << >> /\ pc = "watch"
        /\ \A j \in JobIds : Own(j)
        /\ NoRetries
    BY DEF Receive, IgnoreEvent, HandleEvent, OwnInv
  <1>2. /\ stream[id][s] \in Seq(Listed) /\ q \in Streams
        /\ q[id][s] = Tail(stream[id][s])
        /\ \A j \in JobIds \ {id} : q[j] = stream[j]
        /\ \A x \in Steps \ {s} : q[id][x] = stream[id][x]
    BY <1>1, Taken
  <1>3. id \in tracked /\ OwnCompletion(id)
    BY <1>1 DEF Own, Untouched
  <1>4. /\ st = "succeeded" => ~ HasSuccess(q[id][s]) /\ HasSuccess(stream[id][s])
        /\ st # "succeeded" => (HasSuccess(q[id][s]) <=> HasSuccess(stream[id][s]))
    BY <1>1, <1>2, <1>3, TailQueue DEF OwnCompletion
  <1>5. st = "succeeded" => HandleEvent(id, s)
    BY <1>3 DEF Receive, IgnoreEvent, Ignored, IsActive, IsCompleted
  <1>6. \A j \in JobIds, x \in Steps : HasSuccess(stream'[j][x]) <=> HasSuccess(q[j][x])
    <2>1. CASE stream' = q
      BY <2>1
    <2>2. ASSUME st = "succeeded", NEW m \in Machine, EnterNext(id, m, q)
          PROVE  \A j \in JobIds, x \in Steps : HasSuccess(stream'[j][x]) <=> HasSuccess(q[j][x])
      <3>1. PICK e \in {m.current, m.current + 1} :
               \/ stream' = q
               \/ e \in Steps /\ stream' = [q EXCEPT ![id][e] = Append(@, "queued")]
        BY <1>2, <2>2, EnterAny
      <3>2. \A x \in Steps : ~ HasSuccess(q[id][x])
        BY <1>2, <1>3, <1>4, <2>2 DEF OwnCompletion
      <3>3. CASE e \in Steps /\ stream' = [q EXCEPT ![id][e] = Append(@, "queued")]
        <4>1. "queued" \in Listed /\ q[id][e] \in Seq(Listed)
          BY <1>2, <3>3 DEF Listed, Status, IsListed, Streams
        <4>2. ~ HasSuccess(Append(q[id][e], "queued"))
          BY <3>2, <3>3, <4>1, AppendQueue
        <4>3. \A j \in JobIds, x \in Steps :
                 stream'[j][x] = IF j = id /\ x = e THEN Append(q[id][e], "queued") ELSE q[j][x]
          BY <1>2, <3>3 DEF Streams
        <4> QED
          BY <3>2, <4>2, <4>3
      <3> QED
        BY <3>1, <3>3
    <2>3. CASE IgnoreEvent(id, s)
      BY <2>1, <2>3 DEF IgnoreEvent
    <2>4. CASE HandleEvent(id, s)
      BY <1>1, <2>1, <2>2, <2>4, HandleAny
    <2> QED
      BY <2>3, <2>4 DEF Receive
  <1>7. \A j \in JobIds, x \in Steps :
           HasSuccess(stream'[j][x]) <=>
              HasSuccess(stream[j][x]) /\ ~ (j = id /\ x = s /\ st = "succeeded")
    BY <1>2, <1>4, <1>6
  <1>8. \A x \in Steps \ {s} : Pending(x)' = Pending(x)
    BY <1>7 DEF Pending
  <1>9. CASE st = "succeeded"
    BY <1>4, <1>5, <1>7, <1>8, <1>9 DEF Pending
  <1>10. CASE st # "succeeded"
    BY <1>7, <1>8, <1>10 DEF Pending
  <1> QED
    BY <1>9, <1>10

(* A Job that goes on, with the history of Jobs that ended.                *)
LEMMA CountEnds ==
    ASSUME TypeOK, OwnInv, MetricsOK, CountInv, NEW id \in JobIds, NEW s \in Steps,
           JobEnds(id, s)
    PROVE  CountInv'
  <1>0. /\ JobProgress(id, s) /\ metrics' = metrics
        /\ cluster \in [JobIds -> [Steps -> Status]] /\ stream \in Streams
        /\ ended \in [Steps -> Nat] /\ metrics \in [Steps -> Datum]
    BY TypeOKParts DEF JobEnds, ClusterOK, MetricsOK
  <1>1. /\ UNCHANGED <<pc, watching>>
        /\ \A j \in JobIds, x \in Steps : j # id \/ x # s => cluster'[j][x] = cluster[j][x]
        /\ stream' = IF watching THEN [stream EXCEPT ![id][s] = Append(@, cluster'[id][s])]
                     ELSE stream
        /\ IsListed(cluster'[id][s])
    BY <1>0, ProgressJobs
  <1> SUFFICES ASSUME pc \notin Over
               PROVE  CountInv'
    BY <1>1 DEF CountInv
  <1>2. /\ cluster[id][s] # "succeeded" /\ ~ HasSuccess(stream[id][s])
        /\ cluster'[id][s] \in Successors(cluster[id][s])
    BY <1>0, ProgressOwn DEF OwnInv, Over
  <1>3. /\ IsSucceeded(cluster'[id][s]) <=> cluster'[id][s] = "succeeded"
    BY DEF IsSucceeded, IsCompleted, HasFailedPods
  <1>4. \A x \in Steps : ended'[x] = IF x = s /\ cluster'[id][s] = "succeeded"
                                     THEN ended[x] + 1 ELSE ended[x]
    BY <1>0, <1>3 DEF JobEnds
  <1>5. ASSUME NEW x \in Steps
        PROVE  /\ Succeeded(x)' = IF x = s /\ cluster'[id][s] = "succeeded"
                                  THEN Succeeded(x) \cup {id} ELSE Succeeded(x)
               /\ x = s => id \notin Succeeded(x)
    BY <1>1, <1>2 DEF Succeeded
  <1>6. ASSUME NEW x \in Steps, watching
        PROVE  /\ Pending(x)' = IF x = s /\ cluster'[id][s] = "succeeded"
                                THEN Pending(x) \cup {id} ELSE Pending(x)
               /\ x = s => id \notin Pending(x)
    <2>1. stream[id][s] \in Seq(Listed) /\ cluster'[id][s] \in Listed
      <3>1. cluster'[id][s] \in Status
        BY <1>2 DEF Successors, Status
      <3> QED
        BY <1>0, <1>1, <3>1 DEF Listed, Streams
    <2>2. HasSuccess(Append(stream[id][s], cluster'[id][s])) <=> cluster'[id][s] = "succeeded"
      BY <1>2, <2>1, AppendQueue
    <2>3. \A j \in JobIds : stream'[j][x] = IF j = id /\ x = s
                                            THEN Append(stream[id][s], cluster'[id][s])
                                            ELSE stream[j][x]
      BY <1>0, <1>1, <1>6 DEF Streams
    <2> QED
      BY <1>2, <2>2, <2>3 DEF Pending
  <1>7. ASSUME NEW x \in Steps, watching
        PROVE  metrics'[x].success + Cardinality(Pending(x)') = ended'[x]
    <2>1. metrics[x].success \in Nat /\ ended[x] \in Nat /\ Pending(x) \in SUBSET JobIds
      BY <1>0 DEF Datum, Pending
    <2>2. metrics[x].success + Cardinality(Pending(x)) = ended[x]
      BY <1>7 DEF CountInv
    <2>3. /\ Cardinality(Pending(x)) \in Nat
          /\ id \notin Pending(x) => Cardinality(Pending(x) \cup {id}) = Cardinality(Pending(x)) + 1
      BY <2>1, PendingSets
    <2>4. CASE x = s /\ cluster'[id][s] = "succeeded"
      <3>1. Cardinality(Pending(x)') = Cardinality(Pending(x)) + 1
        BY <1>6, <1>7, <2>3, <2>4
      <3>2. metrics'[x].success = metrics[x].success /\ ended'[x] = ended[x] + 1
        BY <1>0, <1>4, <2>4
      <3> QED
        BY <2>1, <2>2, <2>3, <3>1, <3>2
    <2>5. CASE ~ (x = s /\ cluster'[id][s] = "succeeded")
      BY <1>0, <1>4, <1>6, <1>7, <2>2, <2>5
    <2> QED
      BY <2>4, <2>5
  <1>8. ASSUME NEW x \in Steps, ~ watching
        PROVE  metrics'[x].success = 0 /\ ended'[x] = Cardinality(Succeeded(x)')
    <2>1. metrics[x].success = 0 /\ ended[x] = Cardinality(Succeeded(x))
      BY <1>8 DEF CountInv
    <2>2. Succeeded(x) \in SUBSET JobIds
      BY DEF Succeeded
    <2>3. id \notin Succeeded(x) => Cardinality(Succeeded(x) \cup {id}) = Cardinality(Succeeded(x)) + 1
      BY <2>2, PendingSets
    <2>4. CASE x = s /\ cluster'[id][s] = "succeeded"
      BY <1>0, <1>4, <1>5, <2>1, <2>3, <2>4
    <2>5. CASE ~ (x = s /\ cluster'[id][s] = "succeeded")
      BY <1>0, <1>4, <1>5, <2>1, <2>5
    <2> QED
      BY <2>4, <2>5
  <1>9. pc' \in Over \cup {"down"} => ~ watching'
    BY <1>1 DEF CountInv
  <1> QED
    BY <1>1, <1>7, <1>8, <1>9 DEF CountInv

(* Every step keeps the counts.                                            *)
LEMMA CountStep ==
    ASSUME TypeOK, MetricsPremise, OwnInv, MetricsOK, CountInv,
           [MetricsNext]_<<vars, metricVars>>
    PROVE  CountInv'
  <1>0. /\ pc \in Over => pc' = pc
        /\ metrics \in [Steps -> Datum] /\ stream \in Streams
        /\ \A x \in Steps : NoMetrics[x].success = 0
    BY MetricsStep, OverStays, TypeOKParts DEF MetricsOK, ClusterOK, NoMetrics
  <1>1. ASSUME NEW id \in JobIds, NEW s \in Steps, HandleWithMetrics(id, s) PROVE CountInv'
    <2>1. /\ Receive(id, s) /\ pc = "watch" /\ pc' = "check" /\ watching' = watching
          /\ ended' = ended
      BY <1>1 DEF HandleWithMetrics, HandleEvent, Receive
    <2>2. watching
      BY <2>1 DEF OwnInv
    <2>3. ASSUME NEW x \in Steps
          PROVE  metrics'[x].success + Cardinality(Pending(x)') = ended'[x]
      <3>1. /\ metrics[x].success \in Nat /\ Pending(x) \in SUBSET JobIds
            /\ metrics[x].success + Cardinality(Pending(x)) = ended[x]
        BY <1>0, <2>2 DEF Datum, Pending, CountInv
      <3>2. /\ Cardinality(Pending(x)) \in Nat
            /\ id \in Pending(x) => Cardinality(Pending(x) \ {id}) = Cardinality(Pending(x)) - 1
        BY <3>1, PendingSets
      <3>3. CASE x = s /\ Head(stream[id][s]) = "succeeded"
        <4>1. Cardinality(Pending(x)') = Cardinality(Pending(x)) - 1
          BY <2>1, <3>2, <3>3, PendingReceive
        <4>2. metrics'[x].success = metrics[x].success + 1
          BY <1>1, <3>3, HandledOnce
        <4> QED
          BY <2>1, <3>1, <3>2, <4>1, <4>2
      <3>4. CASE ~ (x = s /\ Head(stream[id][s]) = "succeeded")
        <4>1. Pending(x)' = Pending(x)
          BY <2>1, <3>4, PendingReceive
        <4>2. metrics'[x] = metrics[x]
          BY <1>1, <3>4, HandledOnce
        <4> QED
          BY <2>1, <3>1, <4>1, <4>2
      <3> QED
        BY <3>3, <3>4
    <2> QED
      BY <2>1, <2>2, <2>3 DEF CountInv, Over
  <1>2. ASSUME NEW id \in JobIds, NEW s \in Steps, JobEnds(id, s) PROVE CountInv'
    BY <1>2, CountEnds
  <1>3. ASSUME ended' = ended,
               metrics' = metrics \/ (pc' \in {"down", "died"} /\ metrics' = NoMetrics),
               \/ Step \/ Crash \/ UncaughtError \/ UNCHANGED vars
               \/ \E id \in JobIds, s \in Steps : IgnoreEvent(id, s) \/ Touch(id, s)
        PROVE  CountInv'
    <2>1. ASSUME UNCHANGED <<cluster, stream, watching, metrics>>,
                 pc' \in Over \cup {"down"} => ~ watching'
          PROVE  CountInv'
      <3>1. \A x \in Steps : Pending(x)' = Pending(x) /\ Succeeded(x)' = Succeeded(x)
        BY <2>1 DEF Pending, Succeeded
      <3>2. pc' \notin Over => pc \notin Over
        BY <1>0
      <3> QED
        BY <1>3, <2>1, <3>1, <3>2 DEF CountInv
    <2>2. ASSUME pc' \in Over, ~ watching' PROVE CountInv'
      BY <2>2 DEF CountInv
    <2>3. CASE InitState \/ NewJobs
      <3>1. UNCHANGED <<cluster, stream, watching>> /\ pc' \in {"resume", "submit"}
        BY <2>3 DEF InitState, NewJobs, clusterVars
      <3> QED
        BY <1>3, <2>1, <3>1 DEF Over
    <2>4. ASSUME NEW id \in JobIds, NEW s \in Steps, ResumeSequence(id, s) PROVE FALSE
      BY <2>4 DEF ResumeSequence, OwnInv
    <2>5. CASE Lost
      BY <2>2, <2>5 DEF Lost, ProcessLost, MetricsPremise, Over
    <2>6. CASE Quiet
      <3>1. CASE pc' \in Ended /\ ~ watching'
        BY <2>2, <3>1 DEF Ended, Over
      <3>2. CASE UNCHANGED <<stream, watching>> /\ (pc' \in Ended => pc \in Ended)
        <4>1. cluster' = cluster /\ (pc' \in Over \cup {"down"} => pc \in Over \cup {"down"})
          BY <2>6, <3>2 DEF Quiet, Ended, Over
        <4>2. pc' \in Over \cup {"down"} => ~ watching'
          BY <3>2, <4>1 DEF CountInv
        <4>3. CASE metrics' = metrics
          BY <2>1, <3>2, <4>1, <4>2, <4>3
        <4>4. CASE pc' = "died"
          BY <2>2, <4>2, <4>4 DEF Over
        <4>5. CASE pc' = "down" /\ metrics' = NoMetrics
          <5>1. pc = "down" /\ ~ watching /\ ~ watching' /\ pc \notin Over
            BY <2>6, <4>2, <4>5 DEF Quiet, CountInv, Over
          <5>2. \A x \in Steps : /\ metrics'[x].success = 0
                                 /\ ended'[x] = Cardinality(Succeeded(x)')
            BY <1>0, <1>3, <4>1, <4>5, <5>1 DEF CountInv, Succeeded
          <5> QED
            BY <5>1, <5>2 DEF CountInv
        <4> QED
          BY <1>3, <4>3, <4>4, <4>5
      <3> QED
        BY <2>6, <3>1, <3>2 DEF Quiet
    <2>7. CASE Watch
      <3>1. /\ pc = "submit" /\ pc' = "watch" /\ watching' /\ cluster' = cluster
            /\ watching => stream' = stream
            /\ ~ watching => stream' = [id \in JobIds |-> [s \in Steps |->
                                IF IsListed(cluster[id][s]) THEN <<cluster[id][s]>> ELSE << >>]]
        BY <2>7 DEF Watch
      <3>2. metrics' = metrics
        BY <1>3, <3>1
      <3>3. CASE watching
        BY <2>1, <3>1, <3>2, <3>3 DEF Over
      <3>4. CASE ~ watching
        <4>1. ASSUME NEW x \in Steps
              PROVE  metrics'[x].success + Cardinality(Pending(x)') = ended'[x]
          <5>1. \A j \in JobIds : HasSuccess(stream'[j][x]) <=> cluster[j][x] = "succeeded"
            <6>1. \A j \in JobIds : stream'[j][x] = IF IsListed(cluster[j][x])
                                                    THEN <<cluster[j][x]>> ELSE << >>
              BY <3>1, <3>4
            <6>2. IsListed("succeeded")
              BY DEF IsListed
            <6> QED
              BY <6>1, <6>2, EmptyQueue, SingleQueue
          <5>2. Pending(x)' = Succeeded(x)
            BY <5>1 DEF Pending, Succeeded
          <5>3. metrics[x].success = 0 /\ ended[x] = Cardinality(Succeeded(x))
            BY <3>1, <3>4 DEF CountInv, Over
          <5>4. Succeeded(x) \in SUBSET JobIds /\ \A A \in SUBSET JobIds : Cardinality(A) \in Nat
            BY JobIdsAssumption, FS_Subset, FS_CardinalityType DEF Succeeded
          <5>5. Cardinality(Succeeded(x)) \in Nat
            BY <5>4
          <5> QED
            BY <1>3, <3>2, <5>2, <5>3, <5>5
        <4> QED
          BY <3>1, <4>1 DEF CountInv, Over
      <3> QED
        BY <3>3, <3>4
    <2>8. ASSUME NEW id \in JobIds, SubmitSequence(id) PROVE CountInv'
      <3>0. NewMachine \in Machine /\ NewMachine.repeat = {} /\ NewMachine.current + 1 = 1 /\ 1 \in Steps
        BY NumStepsAssumption DEF NewMachine, Machine, Start, Complete, Steps
      <3>1. /\ pc = "submit" /\ pc' = "submit" /\ id \notin tracked
            /\ watching' = watching /\ EnterNext(id, NewMachine, stream)
        BY <2>8 DEF SubmitSequence
      <3>2. Submitted(id, 1, stream)
        BY <1>0, <3>0, <3>1, EnterEffect
      <3>3. \A x \in Steps : stream[id][x] = << >> /\ cluster[id][x] = "none"
        BY <3>1 DEF OwnInv, Own, Untouched
      <3>4. \A x \in Steps : /\ stream'[id][x] = << >> \/ stream'[id][x] = <<"queued">>
                             /\ cluster'[id][x] # "succeeded"
        <4>1. /\ stream'[id][1] = << >> \/ stream'[id][1] = <<"queued">>
              /\ cluster'[id][1] # "succeeded"
          BY <3>0, <3>2, <3>3 DEF Submitted
        <4>2. \A x \in Steps \ {1} : stream'[id][x] = << >> /\ cluster'[id][x] = "none"
          BY <3>2, <3>3 DEF Submitted
        <4> QED
          BY <4>1, <4>2
      <3>5. \A x \in Steps : ~ HasSuccess(stream'[id][x]) /\ ~ HasSuccess(stream[id][x])
        BY <3>3, <3>4, EmptyQueue, SingleQueue
      <3>6. \A x \in Steps : Pending(x)' = Pending(x) /\ Succeeded(x)' = Succeeded(x)
        BY <3>2, <3>3, <3>4, <3>5 DEF Pending, Succeeded, Submitted
      <3>7. metrics' = metrics
        BY <1>3, <3>1
      <3> QED
        BY <1>3, <3>1, <3>6, <3>7 DEF CountInv, Over
    <2>9. ASSUME NEW id \in JobIds, NEW s \in Steps, IgnoreEvent(id, s) PROVE CountInv'
      <3>1. /\ pc = "watch" /\ pc' = "watch" /\ watching' = watching /\ Receive(id, s)
            /\ metrics' = metrics
        BY <1>3, <2>9 DEF IgnoreEvent, Receive
      <3>2. watching /\ id \in tracked
        BY <3>1, ReceiveOwn DEF OwnInv
      <3>3. Head(stream[id][s]) # "succeeded"
        BY <2>9, <3>2 DEF IgnoreEvent, Ignored, IsActive
      <3>4. \A x \in Steps : Pending(x)' = Pending(x)
        BY <3>1, <3>3, PendingReceive
      <3> QED
        BY <1>3, <3>1, <3>2, <3>4 DEF CountInv, Over
    <2>10. ASSUME NEW id \in JobIds, NEW s \in Steps, Touch(id, s) PROVE FALSE
      BY <2>10 DEF Touch, TypeOK, MetricsPremise
    <2> QED
      BY <1>3, <2>3, <2>4, <2>5, <2>6, <2>7, <2>8, <2>9, <2>10, ProcessShape
  <1> QED
    BY <1>1, <1>2, <1>3, MetricsElsewhere

(* A sequence has at most one completion on its way, so there are as many  *)
(* as sequences that have one.                                             *)
LEMMA AwaitingPending ==
    ASSUME TypeOK, NEW s \in Steps, \A id \in JobIds : SuccessIsLast(stream[id][s])
    PROVE  Cardinality(Awaiting(s)) = Cardinality(Pending(s))
  <1> DEFINE A == Awaiting(s)
             P == Pending(s)
             f == [id \in P |-> <<id, Len(stream[id][s])>>]
  <1>1. \A st : IsSucceeded(st) <=> st = "succeeded"
    BY DEF IsSucceeded, IsCompleted, HasFailedPods
  <1>2. ASSUME NEW id \in JobIds
        PROVE  {i \in DOMAIN stream[id][s] : IsSucceeded(stream[id][s][i])} =
                  IF id \in P THEN {Len(stream[id][s])} ELSE {}
    BY <1>1, <1>2 DEF Pending, HasSuccess, SuccessIsLast
  <1>3. A = {<<id, Len(stream[id][s])>> : id \in P}
    <2>1. ASSUME NEW p \in A PROVE \E id \in P : p = <<id, Len(stream[id][s])>>
      <3>1. PICK id \in JobIds :
               p \in {id} \X {i \in DOMAIN stream[id][s] : IsSucceeded(stream[id][s][i])}
        BY <2>1 DEF Awaiting
      <3>2. id \in P /\ p \in {id} \X {Len(stream[id][s])}
        BY <1>2, <3>1
      <3> QED
        BY <3>2
    <2>2. ASSUME NEW id \in P PROVE <<id, Len(stream[id][s])>> \in A
      <3>1. id \in JobIds
        BY DEF Pending
      <3>2. <<id, Len(stream[id][s])>> \in
               {id} \X {i \in DOMAIN stream[id][s] : IsSucceeded(stream[id][s][i])}
        BY <1>2, <3>1
      <3> QED
        BY <3>1, <3>2 DEF Awaiting
    <2> QED
      BY <2>1, <2>2
  <1>4. f \in Bijection(P, A)
    <2> HIDE DEF A, P
    <2>1. f \in [P -> A]
      BY <1>3
    <2>2. \A x, y \in P : f[x] = f[y] => x = y
      OBVIOUS
    <2>3. \A p \in A : \E x \in P : f[x] = p
      BY <1>3
    <2> HIDE DEF f
    <2> QED
      BY <2>1, <2>2, <2>3 DEF Bijection, Injection, Surjection, IsInjective
  <1>5. IsFiniteSet(P)
    BY JobIdsAssumption, FS_Subset DEF Pending
  <1> HIDE DEF A, P, f
  <1>6. ExistsBijection(P, A)
    BY <1>4 DEF ExistsBijection
  <1>7. Cardinality(A) = Cardinality(P)
    BY <1>5, <1>6, FS_Bijection
  <1> QED
    BY <1>7 DEF A, P

(***************************************************************************)
(* Under the same premises what the rules count is true, however many Jobs *)
(* end before the watch opens, whatever rules repeat steps and however     *)
(* many submissions fail: every success is counted once for its step, or   *)
(* its event is on its way.                                                *)
(***************************************************************************)
THEOREM CountsExactHolds ==
    ASSUME MetricsPremise
    PROVE  MetricsSpec => []CountsExact
  <1>1. MetricsInit => MetricsOK /\ CountInv
    <2> SUFFICES ASSUME MetricsInit PROVE MetricsOK /\ CountInv
      OBVIOUS
    <2>1. \A x \in Steps : Succeeded(x) = {}
      BY DEF MetricsInit, Init, Succeeded
    <2>2. Cardinality({}) = 0
      BY FS_EmptySet
    <2> QED
      BY <2>1, <2>2 DEF MetricsInit, Init, MetricsOK, CountInv, NoMetrics, Datum
  <1>2. ASSUME TypeOK, OwnInv, MetricsOK, CountInv, [MetricsNext]_<<vars, metricVars>>
        PROVE  MetricsOK' /\ CountInv'
    <2>0. NoMetrics \in [Steps -> Datum]
      BY DEF NoMetrics, Datum
    <2>1. ASSUME NEW id \in JobIds, NEW s \in Steps, HandleWithMetrics(id, s)
          PROVE  MetricsOK'
      <3>1. metrics' \in [Steps -> Datum] /\ ended' = ended
        BY <1>2, <2>1, HandledOnce DEF HandleWithMetrics
      <3> QED
        BY <1>2, <3>1 DEF MetricsOK
    <2>2. ASSUME NEW id \in JobIds, NEW s \in Steps, JobEnds(id, s) PROVE MetricsOK'
      BY <1>2, <2>2 DEF JobEnds, MetricsOK
    <2>3. ASSUME ended' = ended, metrics' \in {metrics, NoMetrics} PROVE MetricsOK'
      BY <1>2, <2>0, <2>3 DEF MetricsOK
    <2> QED
      BY <1>2, <2>1, <2>2, <2>3, MetricsElsewhere, CountStep
  <1>3. MetricsSpec => [](TypeOK /\ OwnInv)
    BY MetricsImplement, TypeCorrect, OwnInvHolds, PTL
  <1>4. ASSUME TypeOK, OwnInv, CountInv PROVE CountsExact
    <2> SUFFICES ASSUME watching, NEW s \in Steps
                 PROVE  metrics[s].success + Cardinality(Awaiting(s)) = ended[s]
      BY DEF CountsExact
    <2>1. \A id \in JobIds : Own(id)
      BY <1>4 DEF OwnInv, CountInv, Over
    <2>2. \A id \in JobIds : SuccessIsLast(stream[id][s])
      BY <2>1, EmptyQueue DEF Own, OwnCompletion, Untouched
    <2>3. Cardinality(Awaiting(s)) = Cardinality(Pending(s))
      BY <1>4, <2>2, AwaitingPending
    <2> QED
      BY <1>4, <2>3 DEF CountInv
  <1> QED
    BY <1>1, <1>2, <1>3, <1>4, PTL DEF MetricsSpec

-----------------------------------------------------------------------------
(* StepOrder, with steps that are repeated.                                *)

(***************************************************************************)
(* A machine has left a step only after its Job succeeded.  When the       *)
(* process is gone there are no machines, but no new Jobs either.          *)
(***************************************************************************)
PassedInv ==
    /\ StepOrder
    /\ \A id \in JobIds : \A s \in Steps : cluster[id][s] = "succeeded" => s \in done[id]
    /\ pc # "died" => \A id \in tracked : \A s \in Steps : s < sm[id].current => s \in done[id]

(* Moving a machine, or handling anything else, keeps to the order.        *)
LEMMA PassedStep ==
    ASSUME TypeOK, MetricsPremise, OwnInv, PassedInv, [Next]_vars
    PROVE  PassedInv'
  <1>0. /\ TypeOK' /\ OwnInv'
        /\ cluster \in [JobIds -> [Steps -> Status]] /\ done \in [JobIds -> SUBSET Steps]
        /\ stream \in Streams /\ tracked \subseteq JobIds
    <2>1. TypeOK' /\ OwnInv'
      BY StepType, OwnInvStep
    <2> QED
      BY <2>1, TypeOKParts DEF ClusterOK, ManagerOK
  <1> DEFINE ended1 == \A id \in JobIds : \A s \in Steps :
                             cluster'[id][s] = "succeeded" => s \in done'[id]
             passed1 == \A id \in tracked' : \A s \in Steps :
                             s < sm'[id].current => s \in done'[id]
  <1>1. ASSUME pc' # "died", ended1, passed1 PROVE PassedInv'
    <2>1. ASSUME NEW id \in JobIds, NEW s \in Steps, s > 1, cluster'[id][s] # "none"
          PROVE  s - 1 \in done'[id]
      <3>1. id \in tracked' /\ OwnCompletion(id)'
        BY <1>0, <1>1, <2>1 DEF OwnInv, Own, Untouched
      <3>2. sm'[id].current \in Nat /\ s - 1 \in Steps /\ s \in Nat
        BY <1>0, <2>1, Counts, NumStepsAssumption DEF Steps
      <3>3. s - 1 < sm'[id].current
        BY <2>1, <3>1, <3>2 DEF OwnCompletion
      <3> QED
        BY <1>1, <3>1, <3>2, <3>3
    <2> QED
      BY <1>1, <2>1 DEF PassedInv, StepOrder, InOrder
  <1>2. ASSUME UNCHANGED <<cluster, done>>, pc' = "died" PROVE PassedInv'
    BY <1>2 DEF PassedInv, StepOrder, InOrder
  <1>3. ASSUME UNCHANGED <<cluster, done, tracked>>, pc # "died",
               \A j \in tracked : sm'[j].current = sm[j].current
        PROVE  PassedInv'
    BY <1>1, <1>2, <1>3 DEF PassedInv
  <1>4. CASE InitState
    <2>1. /\ pc = "down" /\ tracked' = {} /\ UNCHANGED <<cluster, done>> /\ pc' = "resume"
      BY <1>0, <1>4 DEF InitState, OwnInv, clusterVars
    <2> QED
      BY <1>1, <2>1 DEF PassedInv
  <1>5. CASE NewJobs \/ Watch
    <2>1. UNCHANGED <<cluster, done, tracked, sm>> /\ pc # "died"
      BY <1>5 DEF NewJobs, Watch, clusterVars, machineVars
    <2> QED
      BY <1>3, <2>1
  <1>6. CASE Quiet
    BY <1>2, <1>3, <1>6 DEF Quiet
  <1>7. CASE Lost
    BY <1>2, <1>7 DEF Lost, ProcessLost, MetricsPremise
  <1>8. ASSUME NEW id \in JobIds, NEW s \in Steps, ResumeSequence(id, s) PROVE FALSE
    BY <1>8 DEF ResumeSequence, OwnInv
  <1>9. ASSUME NEW id \in JobIds, SubmitSequence(id) PROVE PassedInv'
    <2>0. NewMachine \in Machine /\ NewMachine.repeat = {} /\ NewMachine.current + 1 = 1
      BY NumStepsAssumption DEF NewMachine, Machine, Start, Complete
    <2>1. /\ pc = "submit" /\ pc' = "submit" /\ tracked' = tracked \cup {id}
          /\ EnterNext(id, NewMachine, stream)
      BY <1>9 DEF SubmitSequence
    <2>2. /\ Submitted(id, 1, stream) /\ sm'[id].current = 1
          /\ \A j \in JobIds \ {id} : sm'[j] = sm[j]
      BY <1>0, <2>0, <2>1, EnterEffect
    <2>3. done' = done /\ \A j \in JobIds, x \in Steps :
             cluster'[j][x] = "succeeded" => cluster[j][x] = "succeeded"
      BY <1>0, <2>2 DEF Submitted
    <2>4. \A x \in Steps : ~ (x < 1)
      BY DEF Steps
    <2> QED
      BY <1>0, <1>1, <2>1, <2>2, <2>3, <2>4 DEF PassedInv
  <1>10. ASSUME NEW id \in JobIds, NEW s \in Steps, IgnoreEvent(id, s) PROVE PassedInv'
    <2>1. UNCHANGED <<cluster, done, tracked, sm>> /\ pc # "died"
      BY <1>10 DEF IgnoreEvent, machineVars
    <2> QED
      BY <1>3, <2>1
  <1>11. ASSUME NEW id \in JobIds, NEW s \in Steps, HandleEvent(id, s) PROVE PassedInv'
    <2> DEFINE c == sm[id].current
               q == Deliver(id, s)
    <2>1. /\ id \in tracked /\ pc = "watch" /\ pc' = "check" /\ stream[id][s] # << >>
          /\ tracked' = tracked
          /\ \/ /\ Head(stream[id][s]) = "succeeded"
                /\ \E m \in Machine : m.current = c /\ EnterNext(id, m, q)
             \/ /\ \A j \in JobIds : sm'[j].current = sm[j].current
                /\ cluster' = cluster /\ done' = done
      BY <1>11, HandleAny DEF OwnInv
    <2>2. ASSUME Head(stream[id][s]) = "succeeded", NEW m \in Machine, m.current = c,
                 EnterNext(id, m, q)
          PROVE  PassedInv'
      <3>1. /\ stream[id][s] \in Seq(Listed) /\ q \in Streams /\ OwnCompletion(id)
        BY <2>1, Taken DEF OwnInv, Own
      <3>2. SuccessIsLast(stream[id][s])
        BY <3>1 DEF OwnCompletion
      <3>3. HasSuccess(stream[id][s])
        BY <2>1, <2>2, <3>1, <3>2, TailQueue
      <3>4. s = c /\ s \in done[id]
        BY <3>1, <3>3 DEF OwnCompletion, PassedInv
      <3>5. PICK e \in {c, c + 1} :
               /\ sm'[id].current = e /\ done' = done
               /\ \A j \in JobIds \ {id} : sm'[j] = sm[j] /\ cluster'[j] = cluster[j]
               /\ \A x \in Steps : x # e => cluster'[id][x] = cluster[id][x]
               /\ e \in Steps =>
                     cluster'[id][e] \in {cluster[id][e], "none", "queued", "requested"}
        BY <2>2, <3>1, EnterAny
      <3>6. ended1
        BY <3>5 DEF PassedInv
      <3>7. \A x \in Steps : x < e => x < c \/ x = s
        BY <3>4, <3>5 DEF Steps
      <3>8. passed1
        BY <1>0, <2>1, <3>4, <3>5, <3>7 DEF PassedInv
      <3> QED
        BY <1>1, <2>1, <3>6, <3>8
    <2>3. CASE (\A j \in JobIds : sm'[j].current = sm[j].current) /\ cluster' = cluster /\ done' = done
      BY <1>0, <1>3, <2>1, <2>3
    <2> QED
      BY <2>1, <2>2, <2>3
  <1>12. ASSUME NEW id \in JobIds, NEW s \in Steps, JobProgress(id, s) PROVE PassedInv'
    <2>1. /\ cluster[id][s] # "none"
          /\ \A j \in JobIds, x \in Steps : j # id \/ x # s => cluster'[j][x] = cluster[j][x]
          /\ UNCHANGED <<pc, tracked, sm>>
          /\ done' = IF cluster'[id][s] = "succeeded"
                     THEN [done EXCEPT ![id] = @ \cup {s}] ELSE done
      BY <1>12, ProgressJobs
    <2>2. /\ \A j \in JobIds : done[j] \subseteq done'[j]
          /\ cluster'[id][s] = "succeeded" => s \in done'[id]
      BY <1>0, <2>1
    <2>3. \A j \in JobIds, x \in Steps : cluster'[j][x] # "none" => cluster[j][x] # "none"
      BY <2>1
    <2>4. StepOrder'
      BY <2>2, <2>3 DEF PassedInv, StepOrder, InOrder
    <2>5. ended1
      BY <2>1, <2>2 DEF PassedInv
    <2>6. pc' # "died" => passed1
      BY <1>0, <2>1, <2>2 DEF PassedInv
    <2> QED
      BY <2>4, <2>5, <2>6 DEF PassedInv
  <1>13. ASSUME NEW id \in JobIds, NEW s \in Steps, Touch(id, s) PROVE FALSE
    BY <1>13 DEF Touch, TypeOK, MetricsPremise
  <1> QED
    BY <1>4, <1>5, <1>6, <1>7, <1>8, <1>9, <1>10, <1>11, <1>12, <1>13, StepShape DEF Receive

(***************************************************************************)
(* Rules that repeat steps, and ids that are drawn twice, leave the order  *)
(* of steps alone as long as the manager is not restarted, no event is     *)
(* redelivered and no Job is retried: a machine that goes back to its own  *)
(* step does not run ahead.                                                *)
(***************************************************************************)
THEOREM RepeatedStepOrder ==
    ASSUME MetricsPremise
    PROVE  Spec => []StepOrder
  <1>1. Init => PassedInv
    BY DEF Init, PassedInv, StepOrder, InOrder
  <1>2. TypeOK /\ OwnInv /\ PassedInv /\ [Next]_vars => PassedInv'
    BY PassedStep
  <1>3. PassedInv => StepOrder
    BY DEF PassedInv
  <1> QED
    BY <1>1, <1>2, <1>3, TypeCorrect, OwnInvHolds, PTL DEF Spec
=============================================================================
