----------------------- MODULE WorkflowManager_proofs -----------------------
(***************************************************************************)
(* TypeOK is an invariant of WorkflowManager and RepeatHolds a property of *)
(* its steps, for every value of the constants.                            *)
(***************************************************************************)
EXTENDS WorkflowManager, FiniteSetTheorems, TLAPS

Listed == {st \in Status : IsListed(st)}
Streams == [JobIds -> [Steps -> Seq(Listed)]]

-----------------------------------------------------------------------------
(* What the operators of JobStateMachine and KubernetesJobs return.        *)

(* Every method of the machine returns a machine; change() has a target    *)
(* whenever CanChange, and the target of a machine with no repeat flag is  *)
(* the next state.                                                         *)
LEMMA MachineTypes ==
    ASSUME NEW m \in Machine, NEW s \in Steps
    PROVE  /\ NewMachine \in Machine
           /\ Repeat(m, s) \in Machine
           /\ MarkSucceeded(m) \in Machine
           /\ MarkRunning(m, s) \in Machine
           /\ CanChange(m) => Change(m) \in Machine
           /\ UnmarkRepeatable(m) \in Machine
  <1> USE NumStepsAssumption DEF Machine, Steps, Start, Complete
  <1>1. NewMachine \in Machine
    BY DEF NewMachine
  <1>2. Repeat(m, s) \in Machine
    BY DEF Repeat
  <1>3. MarkSucceeded(m) \in Machine
    BY DEF MarkSucceeded
  <1>4. MarkRunning(m, s) \in Machine
    BY DEF MarkRunning
  <1>5. CanChange(m) => Change(m) \in Machine
    BY DEF CanChange, Change, IsRepeating
  <1>6. UnmarkRepeatable(m) \in Machine
    BY DEF UnmarkRepeatable
  <1> QED
    BY <1>1, <1>2, <1>3, <1>4, <1>5, <1>6

(* new_jobs asks for a natural number of sequences.                        *)
LEMMA SubmitCountNat ==
    ASSUME NEW c \in [JobIds -> [Steps -> Status]], NEW n \in Nat \ {0}
    PROVE  SubmitCount(c, n) \in Nat
  <1>1. Completions(c) \subseteq JobIds /\ ActiveSequences(c) \subseteq JobIds
    BY DEF Completions, ActiveSequences
  <1>2. /\ Cardinality(Completions(c)) \in Nat
        /\ Cardinality(ActiveSequences(c)) \in Nat
    BY <1>1, JobIdsAssumption, FS_Subset, FS_CardinalityType
  <1>3. \A a, b \in Int : Least(a, b) \in Int
    BY DEF Least
  <1>4. \A a \in Int : Positive(a) \in Nat
    BY DEF Positive
  <1>5. MaxSize \div n \in Int
    BY SizesAssumption
  <1> DEFINE needed == CompletionsNeeded - Cardinality(Completions(c))
             allowed == Least(MaxSize \div n, needed)
             free == Positive(allowed - Cardinality(ActiveSequences(c)))
  <1>6. needed \in Int
    BY <1>2, SizesAssumption
  <1>7. allowed \in Int
    BY <1>3, <1>5, <1>6
  <1>8. free \in Nat
    BY <1>2, <1>4, <1>7
  <1>9. Least(needed, free) \in Int
    BY <1>3, <1>6, <1>8
  <1> QED
    BY <1>4, <1>9 DEF SubmitCount

(* No evaluation of a rule takes its repetitions below zero.               *)
LEMMA LeftAfterNat ==
    ASSUME NEW r \in Rules, NEW n \in Nat, NEW value
    PROVE  LeftAfter(r, n, value) \in Nat
  BY DEF LeftAfter, Performs, MayTrigger

(* A loaded rule has a natural number of repetitions left.                 *)
LEMMA LoadedRulesType == LoadedRules \in [Rules -> Nat]
  <1>1. \A r \in Rules : r.repetitions \in Nat
    BY RulesAssumption DEF RuleType
  <1>2. \A r \in Rules : LoadedLeft(r) \in Nat
    BY <1>1, LeftAfterNat DEF LoadedLeft
  <1> QED
    BY <1>2 DEF LoadedRules

(* Evaluating rules keeps the repetitions left natural numbers.            *)
LEMMA SpentType ==
    ASSUME left \in [Rules -> Nat], NEW evaluated, NEW value
    PROVE  Spent(evaluated, value) \in [Rules -> Nat]
  BY LeftAfterNat DEF Spent

(* What no event looks like is an event.                                   *)
LEMMA NoEventType ==
    NoEvent \in [step : Steps, repeating : BOOLEAN, value : [Metrics -> Values]]
  <1>1. 1 \in Steps
    BY NumStepsAssumption DEF Steps
  <1>2. [k \in Metrics |-> {}] \in [Metrics -> Values]
    BY DEF Values
  <1> QED
    BY <1>1, <1>2 DEF NoEvent

-----------------------------------------------------------------------------
(* Submitting a Job, and change(), keep the types of what they write.      *)

ClusterOK ==
    /\ cluster \in [JobIds -> [Steps -> Status]]
    /\ script \in [JobIds -> 0 .. NumSteps]
    /\ stream \in Streams
    /\ done \in [JobIds -> SUBSET Steps]
    /\ faults \in [crash : Nat, touch : Nat, failure : Nat, error : Nat]

(* A Job's change of status keeps the types of the cluster.                *)
LEMMA SetStatusType ==
    ASSUME ClusterOK, NEW id \in JobIds, NEW s \in Steps, NEW st \in Status,
           NEW q \in Streams, SetStatus(id, s, st, q)
    PROVE  /\ cluster' \in [JobIds -> [Steps -> Status]]
           /\ stream' \in Streams
           /\ done' \in [JobIds -> SUBSET Steps]
  <1>1. cluster' \in [JobIds -> [Steps -> Status]]
    BY DEF ClusterOK, SetStatus
  <1>2. stream' \in Streams
    <2>1. CASE watching /\ IsListed(st)
      <3>1. Append(q[id][s], st) \in Seq(Listed)
        BY <2>1 DEF Streams, Listed
      <3> QED
        BY <2>1, <3>1 DEF SetStatus, Streams
    <2>2. CASE ~ (watching /\ IsListed(st))
      BY <2>2 DEF SetStatus
    <2> QED
      BY <2>1, <2>2
  <1>3. done' \in [JobIds -> SUBSET Steps]
    BY DEF ClusterOK, SetStatus
  <1> QED
    BY <1>1, <1>2, <1>3

(* Counting a fault.                                                       *)
LEMMA FaultType ==
    ASSUME faults \in [crash : Nat, touch : Nat, failure : Nat, error : Nat],
           NEW k \in {"crash", "touch", "failure", "error"}, Fault(k)
    PROVE  faults' \in [crash : Nat, touch : Nat, failure : Nat, error : Nat]
  BY DEF Fault

(* A ConfigMap that cannot be written is there no more, or as before.      *)
LEMMA ConfigMapType ==
    ASSUME script \in [JobIds -> 0 .. NumSteps], NEW id \in JobIds, ConfigMapFails(id)
    PROVE  script' \in [JobIds -> 0 .. NumSteps]
  <1>1. 0 \in 0 .. NumSteps
    BY NumStepsAssumption
  <1> QED
    BY <1>1 DEF ConfigMapFails

(* Deleting a Job keeps the types of the cluster.                          *)
LEMMA DeleteJobType ==
    ASSUME ClusterOK, NEW id \in JobIds, NEW s \in Steps, NEW q \in Streams,
           DeleteJob(id, s, q)
    PROVE  /\ cluster' \in [JobIds -> [Steps -> Status]]
           /\ stream' \in Streams
           /\ done' \in [JobIds -> SUBSET Steps]
  BY DEF ClusterOK, DeleteJob, Status

(* submit_job, however the API server answers.                             *)
LEMMA SubmitJobType ==
    ASSUME ClusterOK, NEW id \in JobIds, NEW s \in Steps, NEW repeat \in BOOLEAN,
           NEW q \in Streams, SubmitJob(id, s, repeat, q)
    PROVE  ClusterOK'
  <1>1. script' \in [JobIds -> 0 .. NumSteps]
    <2>1. script' = [script EXCEPT ![id] = s] \/ script' = [script EXCEPT ![id] = 0]
      BY DEF SubmitJob, SubmitOK, SubmitConflict, SubmitError, WriteScript
    <2>2. s \in 0 .. NumSteps /\ 0 \in 0 .. NumSteps
      BY NumStepsAssumption DEF Steps
    <2> QED
      BY <2>1, <2>2 DEF ClusterOK
  <1>2. CASE SubmitOK(id, s, repeat, q)
    <2> DEFINE first == IF Kind[s] = "job" THEN "queued" ELSE "requested"
    <2>1. first \in Status /\ SetStatus(id, s, first, q)
      BY <1>2 DEF SubmitOK, FirstStatus, Status
    <2> HIDE DEF first
    <2>2. UNCHANGED faults
      BY <1>2 DEF SubmitOK, FirstStatus
    <2> QED
      BY <1>1, <2>1, <2>2, SetStatusType DEF ClusterOK
  <1>3. CASE SubmitConflict(id, s, repeat, q)
    <2>1. UNCHANGED faults
      BY <1>3 DEF SubmitConflict
    <2>2. DeleteJob(id, s, q) \/ (stream' = q /\ UNCHANGED <<cluster, done>>)
      BY <1>3 DEF SubmitConflict
    <2> QED
      BY <1>1, <2>1, <2>2, DeleteJobType DEF ClusterOK
  <1>4. CASE SubmitError(id, s, repeat, q)
    <2>1. faults' \in [crash : Nat, touch : Nat, failure : Nat, error : Nat]
      BY <1>4, FaultType DEF SubmitError, ClusterOK
    <2>2. DeleteJob(id, s, q) \/ (stream' = q /\ UNCHANGED <<cluster, done>>)
      BY <1>4 DEF SubmitError
    <2> QED
      BY <1>1, <2>1, <2>2, DeleteJobType DEF ClusterOK
  <1> QED
    BY <1>2, <1>3, <1>4 DEF SubmitJob

(* change() and what on_change does.                                       *)
LEMMA EnterNextType ==
    ASSUME ClusterOK, sm \in [JobIds -> Machine], NEW id \in JobIds, NEW m \in Machine,
           NEW q \in Streams, EnterNext(id, m, q)
    PROVE  ClusterOK' /\ sm' \in [JobIds -> Machine]
  <1> DEFINE e == Change(m)
  <1>0. 1 \in Steps
    BY NumStepsAssumption DEF Steps
  <1>1. e \in Machine
    BY <1>0, MachineTypes DEF EnterNext
  <1>2. UnmarkRepeatable(e) \in Machine
    BY <1>0, <1>1, MachineTypes
  <1>3. CASE Submits(e)
    <2>1. e.current \in Steps
      BY <1>3 DEF Submits
    <2>2. IsRepeating(e) \in BOOLEAN
      BY DEF IsRepeating
    <2>3. SubmitJob(id, e.current, IsRepeating(e), q)
      BY <1>3 DEF EnterNext
    <2>4. ClusterOK'
      BY <2>1, <2>2, <2>3, SubmitJobType
    <2>5. sm' = [sm EXCEPT ![id] = UnmarkRepeatable(e)]
      BY <1>3 DEF EnterNext
    <2> QED
      BY <1>2, <2>4, <2>5
  <1>4. CASE ~ Submits(e)
    <2>1. /\ sm' = [sm EXCEPT ![id] = e]
          /\ stream' = q
          /\ UNCHANGED <<cluster, script, done, faults>>
      BY <1>4 DEF EnterNext
    <2> QED
      BY <1>1, <2>1 DEF ClusterOK
  <1> QED
    BY <1>3, <1>4

-----------------------------------------------------------------------------
(* Types of everything else, one lemma for each kind of step.              *)

ManagerOK ==
    /\ pc \in {"down", "resume", "check", "rules", "new", "submit", "watch", "exited", "finished",
              "died"}
    /\ watching \in BOOLEAN
    /\ tracked \subseteq JobIds
    /\ sm \in [JobIds -> Machine]
    /\ resume \subseteq JobIds \X Steps
    /\ event \in [step : Steps, repeating : BOOLEAN, value : [Metrics -> Values]]
    /\ due \subseteq Rules
    /\ batch \in Nat
    /\ left \in [Rules -> Nat]
    /\ nnodes \in [Steps -> Nat \ {0}]
    /\ used \subseteq JobIds

(* TypeOK is what the cluster and the manager each keep.                   *)
LEMMA TypeOKParts ==
    /\ TypeOK <=> ClusterOK /\ ManagerOK
    /\ TypeOK' <=> ClusterOK' /\ ManagerOK'
  BY DEF TypeOK, ClusterOK, ManagerOK, Streams, Listed

(* The stream of a closed watch.                                           *)
LEMMA NoStreamType == NoStream \in Streams
  BY DEF NoStream, Streams

(* The types hold at the start.                                            *)
LEMMA InitType == Init => TypeOK
  <1> SUFFICES ASSUME Init PROVE TypeOK
    OBVIOUS
  <1>0. 1 \in Steps
    BY NumStepsAssumption DEF Steps
  <1>1. NewMachine \in Machine
    BY NumStepsAssumption DEF NewMachine, Machine, Start, Complete
  <1>2. ClusterOK
    BY NoStreamType, NumStepsAssumption DEF Init, ClusterOK, Status
  <1> QED
    BY <1>0, <1>1, <1>2, LoadedRulesType, NoEventType, NodesAssumption, TypeOKParts
       DEF Init, ManagerOK

(* Taking an event off the stream.                                         *)
LEMMA DeliverType ==
    ASSUME TypeOK, NEW id \in JobIds, NEW s \in Steps, stream[id][s] # << >>
    PROVE  Deliver(id, s) \in Streams /\ Head(stream[id][s]) \in Listed
  <1>1. stream \in Streams
    BY TypeOKParts DEF ClusterOK
  <1>2. stream[id][s] \in Seq(Listed)
    BY <1>1 DEF Streams
  <1>3. Tail(stream[id][s]) \in Seq(Listed) /\ Head(stream[id][s]) \in Listed
    BY <1>2
  <1> QED
    BY <1>1, <1>3 DEF Deliver, Streams

(* The start of the manager: init_state and its loop over finished Jobs.   *)
LEMMA StartType ==
    ASSUME TypeOK
    PROVE  /\ InitState => TypeOK'
           /\ \A id \in JobIds, s \in Steps :
                 ResumeSequence(id, s) \/ ResumeFails(id, s) => TypeOK'
           /\ ResumeDone => TypeOK'
  <1> USE TypeOKParts DEF ManagerOK
  <1>0. NewMachine \in Machine
    BY NumStepsAssumption DEF NewMachine, Machine, Start, Complete
  <1>1. ASSUME InitState PROVE TypeOK'
    <2>1. \A id \in JobIds :
             [NewMachine EXCEPT !.success =
                 UNION {MarkRunning(NewMachine, s).success :
                            s \in {t \in Steps : Unfinished(cluster[id][t])}}] \in Machine
      <3>1. \A s \in Steps : MarkRunning(NewMachine, s).success \subseteq Steps
        BY <1>0, MachineTypes DEF Machine
      <3> QED
        BY <1>0, <3>1 DEF Machine
    <2>2. sm' \in [JobIds -> Machine]
      BY <1>1, <2>1 DEF InitState
    <2>3. ClusterOK'
      BY <1>1 DEF InitState, ClusterOK, clusterVars
    <2> QED
      BY <1>1, <2>2, <2>3 DEF InitState, configVars
  <1>2. ASSUME NEW id \in JobIds, NEW s \in Steps, ResumeSequence(id, s) PROVE TypeOK'
    <2>1. MarkRunning(NewMachine, s) \in Machine
      BY <1>0, MachineTypes
    <2>2. ClusterOK' /\ sm' \in [JobIds -> Machine]
      BY <1>2, <2>1, EnterNextType DEF ResumeSequence, ClusterOK
    <2> QED
      BY <1>2, <2>2 DEF ResumeSequence, configVars
  <1>3. ASSUME NEW id \in JobIds, NEW s \in Steps, ResumeFails(id, s) PROVE TypeOK'
    <2>1. faults' \in [crash : Nat, touch : Nat, failure : Nat, error : Nat]
      BY <1>3, FaultType DEF ResumeFails, ClusterOK
    <2>2. script' \in [JobIds -> 0 .. NumSteps]
      BY <1>3, ConfigMapType DEF ResumeFails, ClusterOK
    <2>3. ClusterOK'
      BY <1>3, <2>1, <2>2 DEF ResumeFails, ClusterOK
    <2> QED
      BY <1>3, <2>3 DEF ResumeFails, machineVars, configVars
  <1>4. ASSUME ResumeDone PROVE TypeOK'
    <2>1. ClusterOK'
      BY <1>4 DEF ResumeDone, ClusterOK, clusterVars
    <2> QED
      BY <1>4, <2>1 DEF ResumeDone, machineVars, loopVars, configVars
  <1> QED
    BY <1>1, <1>2, <1>3, <1>4

(* check_complete, the workflow rules, new_jobs and the way back to the stream. *)
LEMMA LoopType ==
    ASSUME TypeOK
    PROVE  /\ CheckComplete \/ RulesDone \/ NewJobs \/ Watch => TypeOK'
           /\ \A r \in Rules : EvaluateRule(r) => TypeOK'
           /\ \A id \in JobIds : SubmitSequence(id) => TypeOK'
  <1> USE TypeOKParts DEF ManagerOK
  <1>1. ASSUME CheckComplete PROVE TypeOK'
    <2>1. ClusterOK'
      BY <1>1, NoStreamType DEF CheckComplete, Exit, ClusterOK, clusterVars
    <2>2. ManagerOK'
      BY <1>1 DEF CheckComplete, Exit, machineVars, configVars
    <2> QED
      BY <2>1, <2>2
  <1>2. ASSUME RulesDone PROVE TypeOK'
    <2>1. ClusterOK'
      BY <1>2 DEF RulesDone, ClusterOK, clusterVars
    <2> QED
      BY <1>2, <2>1, NoEventType DEF RulesDone, machineVars, configVars
  <1>3. ASSUME NewJobs PROVE TypeOK'
    <2>1. ClusterOK'
      BY <1>3 DEF NewJobs, ClusterOK, clusterVars
    <2>2. nnodes[1] \in Nat \ {0}
      BY NumStepsAssumption DEF Steps
    <2>3. batch' \in Nat
      BY <1>3, <2>2, SubmitCountNat DEF NewJobs, ClusterOK
    <2> QED
      BY <1>3, <2>1, <2>3 DEF NewJobs, machineVars, configVars
  <1>4. ASSUME Watch PROVE TypeOK'
    <2> DEFINE replay == [id \in JobIds |-> [s \in Steps |->
                             IF IsListed(cluster[id][s]) THEN <<cluster[id][s]>> ELSE << >>]]
    <2>1. \A id \in JobIds, s \in Steps :
             (IF IsListed(cluster[id][s]) THEN <<cluster[id][s]>> ELSE << >>) \in Seq(Listed)
      <3>1. SUFFICES ASSUME NEW id \in JobIds, NEW s \in Steps, IsListed(cluster[id][s])
                     PROVE  <<cluster[id][s]>> \in Seq(Listed)
        OBVIOUS
      <3>2. cluster[id][s] \in Listed
        BY <3>1 DEF ClusterOK, Listed
      <3> QED
        BY <3>2
    <2>2. replay \in Streams
      BY <2>1 DEF Streams
    <2>3. stream' \in Streams
      BY <1>4, <2>2 DEF Watch, ClusterOK
    <2>4. ClusterOK'
      BY <1>4, <2>3 DEF Watch, ClusterOK
    <2> QED
      BY <1>4, <2>4 DEF Watch, machineVars, loopVars, configVars
  <1>5. ASSUME NEW r \in Rules, EvaluateRule(r) PROVE TypeOK'
    <2>1. ClusterOK'
      BY <1>5, NoStreamType DEF EvaluateRule, Exit, ProcessLost, ClusterOK, clusterVars
    <2>2. r.step \in Steps /\ r.size \in Int
      BY RulesAssumption DEF RuleType
    <2>3. left' \in [Rules -> Nat]
      BY <1>5, SpentType, LoadedRulesType DEF EvaluateRule, ProcessLost
    <2>4. Resized(r, nnodes[r.step]) \in Nat \ {0}
      BY <2>2 DEF Resized
    <2>5. nnodes' \in [Steps -> Nat \ {0}]
      BY <1>5, <2>2, <2>4, NodesAssumption DEF EvaluateRule, Exit, ProcessLost
    <2>6. NewMachine \in Machine
      BY NumStepsAssumption DEF NewMachine, Machine, Start, Complete
    <2>7. CASE ProcessLost /\ pc' = "died"
      BY <2>1, <2>3, <2>5, <2>6, <2>7, NoEventType DEF ProcessLost
    <2>8. CASE Exit("finished")
      BY <2>1, <2>3, <2>5, <2>8 DEF Exit, machineVars
    <2>9. CASE ~ (ProcessLost /\ pc' = "died") /\ ~ Exit("finished")
      BY <1>5, <2>1, <2>3, <2>5, <2>9 DEF EvaluateRule, machineVars
    <2> QED
      BY <2>7, <2>8, <2>9
  <1>6. ASSUME NEW id \in JobIds, SubmitSequence(id) PROVE TypeOK'
    <2>1. NewMachine \in Machine
      BY NumStepsAssumption DEF NewMachine, Machine, Start, Complete
    <2>2. ClusterOK' /\ sm' \in [JobIds -> Machine]
      BY <1>6, <2>1, EnterNextType DEF SubmitSequence, ClusterOK
    <2> QED
      BY <1>6, <2>2 DEF SubmitSequence, configVars
  <1> QED
    BY <1>1, <1>2, <1>3, <1>4, <1>5, <1>6

(* One event of the watch.                                                 *)
LEMMA ReceiveType ==
    ASSUME TypeOK, NEW id \in JobIds, NEW s \in Steps
    PROVE  IgnoreEvent(id, s) \/ HandleEvent(id, s) => TypeOK'
  <1> USE TypeOKParts DEF ManagerOK
  <1>1. ASSUME IgnoreEvent(id, s) PROVE TypeOK'
    <2>1. ClusterOK'
      BY <1>1, DeliverType DEF IgnoreEvent, ClusterOK
    <2> QED
      BY <1>1, <2>1 DEF IgnoreEvent, machineVars, loopVars, configVars
  <1>2. ASSUME HandleEvent(id, s) PROVE TypeOK'
    <2> DEFINE st == Head(stream[id][s])
               q == Deliver(id, s)
    <2>1. q \in Streams
      BY <1>2, DeliverType DEF HandleEvent
    <2>2. PICK value \in Readings(s) :
             LET fires(r) == Triggers(r, left[r], value[r.metric]) /\ Enough(r)
                 m == IF \E r \in RepeatRules(s) : fires(r) THEN Repeat(sm[id], s) ELSE sm[id]
             IN
             /\ left' = Spent(RepeatRules(s), value)
             /\ event' = [step |-> s, repeating |-> IsRepeating(m), value |-> value]
             /\ CASE IsSucceeded(st) \/ (IsFailed(st) /\ s \in AlwaysSucceed) ->
                        SucceedJob(id, m, st, q) /\ UNCHANGED tracked
                  [] IsFailed(st) /\ s \notin AlwaysSucceed ->
                        FailJob(id, q)
                  [] OTHER ->
                        /\ sm' = [sm EXCEPT ![id] = m]
                        /\ stream' = q
                        /\ UNCHANGED <<cluster, script, done, faults, tracked>>
      BY <1>2 DEF HandleEvent
    <2> DEFINE fires(r) == Triggers(r, left[r], value[r.metric]) /\ Enough(r)
               m == IF \E r \in RepeatRules(s) : fires(r) THEN Repeat(sm[id], s) ELSE sm[id]
    <2>3. m \in Machine /\ MarkSucceeded(m) \in Machine /\ NewMachine \in Machine
      BY MachineTypes
    <2>4. left' \in [Rules -> Nat]
      BY <2>2, SpentType
    <2>5. event' \in [step : Steps, repeating : BOOLEAN, value : [Metrics -> Values]]
      BY <2>2 DEF IsRepeating, Readings
    <2> HIDE DEF m, q, st
    <2>6. \/ SucceedJob(id, m, st, q) /\ UNCHANGED tracked
          \/ FailJob(id, q)
          \/ /\ sm' = [sm EXCEPT ![id] = m]
             /\ stream' = q
             /\ UNCHANGED <<cluster, script, done, faults, tracked>>
      BY <2>2 DEF m, q, st
    <2>7. ClusterOK' /\ sm' \in [JobIds -> Machine] /\ tracked' \subseteq JobIds
      <3>1. CASE SucceedJob(id, m, st, q) /\ UNCHANGED tracked
        <4>1. CASE EnterNext(id, MarkSucceeded(m), q)
          BY <2>1, <2>3, <3>1, <4>1, EnterNextType
        <4>2. CASE /\ sm' = [sm EXCEPT ![id] = MarkSucceeded(m)]
                   /\ stream' = q
                   /\ UNCHANGED <<cluster, script, done, faults>>
          BY <2>1, <2>3, <3>1, <4>2 DEF ClusterOK
        <4> QED
          BY <3>1, <4>1, <4>2 DEF SucceedJob
      <3>2. CASE FailJob(id, q)
        BY <2>1, <2>3, <3>2 DEF FailJob, ClusterOK
      <3>3. CASE /\ sm' = [sm EXCEPT ![id] = m]
                 /\ stream' = q
                 /\ UNCHANGED <<cluster, script, done, faults, tracked>>
        BY <2>1, <2>3, <3>3 DEF ClusterOK
      <3> QED
        BY <2>6, <3>1, <3>2, <3>3
    <2> QED
      BY <1>2, <2>4, <2>5, <2>7 DEF HandleEvent
  <1> QED
    BY <1>1, <1>2

(* The cluster and the crash of the manager.                               *)
LEMMA EnvironmentType ==
    ASSUME TypeOK
    PROVE  /\ \A id \in JobIds, s \in Steps : JobProgress(id, s) \/ Touch(id, s) => TypeOK'
           /\ Crash \/ UncaughtError => TypeOK'
  <1> USE TypeOKParts DEF ManagerOK
  <1>1. ASSUME NEW id \in JobIds, NEW s \in Steps, JobProgress(id, s) PROVE TypeOK'
    <2>1. PICK st \in Successors(cluster[id][s]) :
             /\ SetStatus(id, s, st, stream)
             /\ Fault("failure") \/ UNCHANGED faults
      BY <1>1 DEF JobProgress
    <2>2. st \in Status
      BY <2>1 DEF Successors, Status
    <2>3. faults' \in [crash : Nat, touch : Nat, failure : Nat, error : Nat]
      BY <2>1, FaultType DEF ClusterOK
    <2>4. /\ cluster' \in [JobIds -> [Steps -> Status]]
          /\ stream' \in Streams
          /\ done' \in [JobIds -> SUBSET Steps]
      BY <2>1, <2>2, SetStatusType DEF ClusterOK
    <2>5. ClusterOK'
      BY <1>1, <2>3, <2>4 DEF JobProgress, ClusterOK
    <2> QED
      BY <1>1, <2>5 DEF JobProgress, machineVars, loopVars, configVars
  <1>2. ASSUME NEW id \in JobIds, NEW s \in Steps, Touch(id, s) PROVE TypeOK'
    <2>1. cluster[id][s] \in Status /\ stream \in Streams
      BY DEF ClusterOK
    <2>2. /\ cluster' \in [JobIds -> [Steps -> Status]]
          /\ stream' \in Streams
          /\ done' \in [JobIds -> SUBSET Steps]
      BY <1>2, <2>1, SetStatusType DEF Touch
    <2>3. faults' \in [crash : Nat, touch : Nat, failure : Nat, error : Nat]
      BY <1>2, FaultType DEF Touch, ClusterOK
    <2>4. ClusterOK'
      BY <1>2, <2>2, <2>3 DEF Touch, ClusterOK
    <2> QED
      BY <1>2, <2>4 DEF Touch, machineVars, loopVars, configVars
  <1>3. ASSUME Crash \/ UncaughtError PROVE TypeOK'
    <2>1. faults' \in [crash : Nat, touch : Nat, failure : Nat, error : Nat]
      BY <1>3, FaultType DEF Crash, UncaughtError, ClusterOK
    <2>2. script' \in [JobIds -> 0 .. NumSteps]
      BY <1>3, ConfigMapType DEF Crash, UncaughtError, ClusterOK
    <2>3. ProcessLost /\ pc' \in {"down", "died"}
      BY <1>3 DEF Crash, UncaughtError
    <2>4. ClusterOK'
      BY <2>1, <2>2, <2>3, NoStreamType DEF ProcessLost, ClusterOK
    <2>5. NewMachine \in Machine /\ 1 \in Steps
      BY NumStepsAssumption DEF NewMachine, Machine, Start, Complete, Steps
    <2> QED
      BY <2>3, <2>4, <2>5, LoadedRulesType, NoEventType, NodesAssumption DEF ProcessLost
  <1> QED
    BY <1>1, <1>2, <1>3

(* Every step of the specification keeps the types.                        *)
LEMMA StepType == TypeOK /\ [Next]_vars => TypeOK'
  <1> SUFFICES ASSUME TypeOK, [Next]_vars PROVE TypeOK'
    OBVIOUS
  <1>1. CASE Step
    BY <1>1, StartType, LoopType DEF Step
  <1>2. ASSUME NEW id \in JobIds, NEW s \in Steps,
               Receive(id, s) \/ JobProgress(id, s) \/ Touch(id, s)
        PROVE  TypeOK'
    BY <1>2, ReceiveType, EnvironmentType DEF Receive
  <1>3. CASE Crash \/ UncaughtError
    BY <1>3, EnvironmentType
  <1>4. CASE UNCHANGED vars
    BY <1>4 DEF TypeOK, vars, clusterVars, machineVars, loopVars, configVars
  <1> QED
    BY <1>1, <1>2, <1>3, <1>4 DEF Next, SleepInfinity

(***************************************************************************)
(* Whatever the workflow, its rules and the faults it meets, every         *)
(* variable keeps its type: among others batch, the loop bound of          *)
(* new_jobs, and the repetitions left never go below zero, nnodes never    *)
(* reaches zero, and no event of an absent Job is handed to the manager.   *)
(***************************************************************************)
THEOREM TypeCorrect == Spec => []TypeOK
  BY InitType, StepType, PTL DEF Spec

-----------------------------------------------------------------------------
(* RepeatHolds.                                                            *)

(***************************************************************************)
(* init_state looks only at sequences that have no machine: nothing is     *)
(* tracked when the manager starts, and a finished Job still to be looked  *)
(* at belongs to a sequence without a machine.                             *)
(***************************************************************************)
StartsUntracked ==
    /\ pc = "down" => tracked = {}
    /\ pc # "resume" => resume = {}
    /\ \A p \in resume : p[1] \notin tracked

\* Every step keeps it: only init_state fills resume, and only its loop and
\* new_jobs add machines.
LEMMA StartsUntrackedStep ==
    ASSUME TypeOK, StartsUntracked, [Next]_vars
    PROVE  StartsUntracked'
  <1>1. CASE InitState
    BY <1>1 DEF InitState, StartsUntracked
  <1>2. ASSUME NEW id \in JobIds, NEW s \in Steps, ResumeSequence(id, s)
        PROVE  StartsUntracked'
    BY <1>2 DEF ResumeSequence, StartsUntracked
  <1>3. ASSUME NEW id \in JobIds, NEW s \in Steps, ResumeFails(id, s)
        PROVE  StartsUntracked'
    BY <1>3 DEF ResumeFails, StartsUntracked, machineVars
  <1>4. CASE ResumeDone \/ RulesDone \/ NewJobs \/ Watch
    BY <1>4 DEF ResumeDone, RulesDone, NewJobs, Watch, StartsUntracked, machineVars, loopVars
  <1>5. CASE CheckComplete
    BY <1>5 DEF CheckComplete, Exit, StartsUntracked, machineVars
  <1>6. ASSUME NEW r \in Rules, EvaluateRule(r)
        PROVE  StartsUntracked'
    BY <1>6 DEF EvaluateRule, Exit, ProcessLost, StartsUntracked, machineVars
  <1>7. ASSUME NEW id \in JobIds, SubmitSequence(id)
        PROVE  StartsUntracked'
    BY <1>7 DEF SubmitSequence, StartsUntracked
  <1>8. ASSUME NEW id \in JobIds, NEW s \in Steps, Receive(id, s)
        PROVE  StartsUntracked'
    BY <1>8 DEF Receive, IgnoreEvent, HandleEvent, StartsUntracked, machineVars, loopVars
  <1>9. ASSUME NEW id \in JobIds, NEW s \in Steps, JobProgress(id, s) \/ Touch(id, s)
        PROVE  StartsUntracked'
    BY <1>9 DEF JobProgress, Touch, StartsUntracked, machineVars, loopVars
  <1>10. CASE Crash \/ UncaughtError
    BY <1>10 DEF Crash, UncaughtError, ProcessLost, StartsUntracked
  <1>11. CASE UNCHANGED vars
    BY <1>11 DEF vars, machineVars, loopVars, StartsUntracked
  <1> QED
    BY <1>1, <1>2, <1>3, <1>4, <1>5, <1>6, <1>7, <1>8, <1>9, <1>10, <1>11
       DEF Next, Step, SleepInfinity

\* change() on a machine that is flagged takes the self loop.
LEMMA ChangeHolds ==
    ASSUME NEW id \in JobIds, NEW m \in Machine, NEW q, sm \in [JobIds -> Machine],
           IsRepeating(m), EnterNext(id, m, q)
    PROVE  sm'[id].current = m.current
  <1>1. Change(m).current = m.current
    BY DEF Change, Machine
  <1>2. sm'[id] \in {Change(m), UnmarkRepeatable(Change(m))}
    BY DEF EnterNext
  <1>3. UnmarkRepeatable(Change(m)).current = Change(m).current
    BY DEF UnmarkRepeatable, Change, Machine
  <1> QED
    BY <1>1, <1>2, <1>3

HoldsStep ==
    \A id \in tracked \cap tracked' : IsRepeating(sm[id]) => sm'[id].current = sm[id].current

\* An event is handled: the rules may add the flag of its step, a success may
\* mark the step, and neither moves a flagged machine.
LEMMA HandleHolds ==
    ASSUME TypeOK, NEW id \in JobIds, NEW s \in Steps, HandleEvent(id, s)
    PROVE  HoldsStep
  <1> DEFINE st == Head(stream[id][s])
             q == Deliver(id, s)
  <1>1. PICK m \in {sm[id], Repeat(sm[id], s)} :
           \/ SucceedJob(id, m, st, q)
           \/ FailJob(id, q)
           \/ sm' = [sm EXCEPT ![id] = m]
    BY DEF HandleEvent
  <1>2. sm \in [JobIds -> Machine] /\ sm[id] \in Machine
    BY DEF TypeOK
  <1>3. m \in Machine /\ m.current = sm[id].current /\ (IsRepeating(sm[id]) => IsRepeating(m))
    BY <1>1, <1>2, MachineTypes DEF Repeat, IsRepeating, Machine
  <1>4. IsRepeating(m) => MarkSucceeded(m) = m
    BY DEF MarkSucceeded
  <1>5. \A j \in JobIds \ {id} : sm'[j] = sm[j]
    BY <1>1, <1>2 DEF SucceedJob, FailJob, EnterNext
  <1>6. id \in tracked' /\ IsRepeating(sm[id]) => sm'[id].current = sm[id].current
    <2> SUFFICES ASSUME id \in tracked', IsRepeating(sm[id])
                 PROVE  sm'[id].current = m.current
      BY <1>3
    <2>1. ~ FailJob(id, q)
      BY DEF FailJob
    <2>2. CASE EnterNext(id, MarkSucceeded(m), q)
      BY <1>2, <1>3, <1>4, <2>2, ChangeHolds
    <2>3. CASE sm' = [sm EXCEPT ![id] = m]
      BY <1>2, <2>3
    <2> QED
      BY <1>1, <1>3, <1>4, <2>1, <2>2, <2>3 DEF SucceedJob
  <1> QED
    BY <1>5, <1>6 DEF TypeOK, HoldsStep

\* No step moves a flagged machine that stays tracked.
LEMMA RepeatStep ==
    ASSUME TypeOK, StartsUntracked, [Next]_vars
    PROVE  HoldsStep
  <1>0. sm \in [JobIds -> Machine] /\ tracked \subseteq JobIds
    BY DEF TypeOK
  <1>1. CASE InitState
    BY <1>1 DEF InitState, StartsUntracked, HoldsStep
  <1>2. ASSUME NEW id \in JobIds, id \notin tracked, NEW m, NEW q, EnterNext(id, m, q)
        PROVE  HoldsStep
    BY <1>0, <1>2 DEF EnterNext, HoldsStep
  <1>3. ASSUME NEW id \in JobIds, NEW s \in Steps, ResumeSequence(id, s)
        PROVE  HoldsStep
    BY <1>2, <1>3 DEF ResumeSequence, StartsUntracked
  <1>4. ASSUME NEW id \in JobIds, SubmitSequence(id)
        PROVE  HoldsStep
    BY <1>2, <1>4 DEF SubmitSequence
  <1>5. ASSUME NEW id \in JobIds, NEW s \in Steps, HandleEvent(id, s)
        PROVE  HoldsStep
    BY <1>5, HandleHolds
  <1>6. ASSUME UNCHANGED sm \/ tracked' = {}
        PROVE  HoldsStep
    BY <1>6 DEF HoldsStep
  <1>7. ASSUME NEW id \in JobIds, NEW s \in Steps,
               ResumeFails(id, s) \/ IgnoreEvent(id, s) \/ JobProgress(id, s) \/ Touch(id, s)
        PROVE  HoldsStep
    BY <1>6, <1>7 DEF ResumeFails, IgnoreEvent, JobProgress, Touch, machineVars
  <1>8. CASE ResumeDone \/ RulesDone \/ NewJobs \/ Watch \/ CheckComplete
    BY <1>6, <1>8 DEF ResumeDone, RulesDone, NewJobs, Watch, CheckComplete, Exit, machineVars
  <1>9. ASSUME NEW r \in Rules, EvaluateRule(r)
        PROVE  HoldsStep
    BY <1>6, <1>9 DEF EvaluateRule, Exit, ProcessLost, machineVars
  <1>10. CASE Crash \/ UncaughtError
    BY <1>6, <1>10 DEF Crash, UncaughtError, ProcessLost
  <1>11. CASE UNCHANGED vars
    BY <1>6, <1>11 DEF vars, machineVars
  <1> QED
    BY <1>1, <1>3, <1>4, <1>5, <1>7, <1>8, <1>9, <1>10, <1>11
       DEF Next, Step, Receive, SleepInfinity

(***************************************************************************)
(* Whatever the rules, the faults and the order of the events, a machine   *)
(* that is flagged to repeat its step, and that the manager keeps, does    *)
(* not leave that step: mark_succeeded does nothing to it and change()     *)
(* finds the self loop first.                                              *)
(***************************************************************************)
THEOREM RepeatAlwaysHolds == Spec => RepeatHolds
  <1>1. Init => StartsUntracked
    BY DEF Init, StartsUntracked
  <1>2. TypeOK /\ StartsUntracked /\ [Next]_vars => StartsUntracked'
    BY StartsUntrackedStep
  <1>3. TypeOK /\ StartsUntracked /\ [Next]_vars => [HoldsStep]_<<tracked, sm>>
    BY RepeatStep
  <1>4. [][HoldsStep]_<<tracked, sm>> => RepeatHolds
    BY DEF RepeatHolds, HoldsStep
  <1> QED
    BY <1>1, <1>2, <1>3, <1>4, TypeCorrect, PTL DEF Spec
=============================================================================
