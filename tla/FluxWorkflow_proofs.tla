------------------------ MODULE FluxWorkflow_proofs ------------------------
(***************************************************************************)
(* With Flux, no completion is lost and no machine runs further ahead than *)
(* two moves per completed job: for every number of sequences, steps and   *)
(* faults, restarts among them.                                            *)
(***************************************************************************)
EXTENDS FluxWorkflow, FiniteSetTheorems, TLAPS

FluxFields == [status : FluxStatus, events : Nat, pending : Nat]

\* What the journal holds of a job that runs to its end, and of any that has ended.
Told(job) ==
    /\ job.status = "SCHED" => job.events = 0
    /\ job.status \in {"RUN", "CLEANUP"} => job.events = 1
    /\ job.status = "COMPLETED" => job.events = 2
    /\ ~ FluxActive(job.status) => job.events > 0

FluxJob == {job \in FluxFields : Told(job)}
SequenceJobs == [Steps -> Seq(FluxJob)]
Fresh == [status |-> "SCHED", events |-> 0, pending |-> 0]

TypeInv ==
    /\ jobs \in [JobIds -> SequenceJobs]
    /\ tracked \subseteq JobIds
    /\ sm \in [JobIds -> Machine]
    /\ \A id \in JobIds : sm[id].repeat = {}
    /\ watching \in BOOLEAN
    /\ pc = "watch" => watching
    /\ pc = "down" => ~ watching

-----------------------------------------------------------------------------
(* One job of many changes, or one more is submitted.                      *)

Put(j, id, s, n, r) == [j EXCEPT ![id][s][n] = r]

LEMMA PutFacts ==
    ASSUME NEW j \in [JobIds -> SequenceJobs], NEW id \in JobIds, NEW s \in Steps,
           NEW n \in DOMAIN j[id][s], NEW r \in FluxJob
    PROVE  /\ Put(j, id, s, n, r) \in [JobIds -> SequenceJobs]
           /\ \A i \in JobIds, t \in Steps :
                 /\ DOMAIN Put(j, id, s, n, r)[i][t] = DOMAIN j[i][t]
                 /\ \A k \in DOMAIN j[i][t] :
                       Put(j, id, s, n, r)[i][t][k] =
                          IF i = id /\ t = s /\ k = n THEN r ELSE j[i][t][k]
  <1> DEFINE q == [j[id][s] EXCEPT ![n] = r]
  <1>1. /\ j[id] \in SequenceJobs /\ j[id][s] \in Seq(FluxJob)
    BY DEF SequenceJobs
  <1>2. /\ q \in Seq(FluxJob) /\ DOMAIN q = DOMAIN j[id][s]
        /\ \A k \in DOMAIN j[id][s] : q[k] = IF k = n THEN r ELSE j[id][s][k]
    BY <1>1
  <1> HIDE DEF q
  <1>3. Put(j, id, s, n, r) = [j EXCEPT ![id] = [j[id] EXCEPT ![s] = q]]
    BY DEF Put, q
  <1>4. [j[id] EXCEPT ![s] = q] \in SequenceJobs
    BY <1>1, <1>2 DEF SequenceJobs
  <1>5. Put(j, id, s, n, r) \in [JobIds -> SequenceJobs]
    BY <1>3, <1>4
  <1>6. \A i \in JobIds, t \in Steps :
           Put(j, id, s, n, r)[i][t] = IF i = id /\ t = s THEN q ELSE j[i][t]
    BY <1>1, <1>3 DEF SequenceJobs
  <1> QED
    BY <1>2, <1>5, <1>6

LEMMA AddFacts ==
    ASSUME NEW j \in [JobIds -> SequenceJobs], NEW id \in JobIds, NEW s \in Steps
    PROVE  /\ Submitted(id, s, j) \in [JobIds -> SequenceJobs]
           /\ \A i \in JobIds, t \in Steps :
                 /\ DOMAIN j[i][t] \subseteq DOMAIN Submitted(id, s, j)[i][t]
                 /\ \A n \in DOMAIN Submitted(id, s, j)[i][t] :
                       Submitted(id, s, j)[i][t][n] =
                          IF n \in DOMAIN j[i][t] THEN j[i][t][n] ELSE Fresh
           /\ \E n \in DOMAIN Submitted(id, s, j)[id][s] : Submitted(id, s, j)[id][s][n] = Fresh
  <1> DEFINE q == Append(j[id][s], Fresh)
             l == Len(j[id][s])
  <1>1. j[id] \in SequenceJobs /\ j[id][s] \in Seq(FluxJob) /\ Fresh \in FluxJob
    BY DEF SequenceJobs, Fresh, FluxJob, FluxFields, FluxStatus, Told, FluxActive
  <1>2. /\ q \in Seq(FluxJob) /\ l \in Nat
        /\ DOMAIN j[id][s] = 1 .. l /\ DOMAIN q = 1 .. (l + 1)
        /\ \A k \in 1 .. l : q[k] = j[id][s][k]
        /\ q[l + 1] = Fresh
    BY <1>1
  <1> HIDE DEF q, l
  <1>3. Submitted(id, s, j) = [j EXCEPT ![id] = [j[id] EXCEPT ![s] = q]]
    BY DEF Submitted, q, Fresh
  <1>4. [j[id] EXCEPT ![s] = q] \in SequenceJobs
    BY <1>1, <1>2 DEF SequenceJobs
  <1>5. Submitted(id, s, j) \in [JobIds -> SequenceJobs]
    BY <1>3, <1>4
  <1>6. \A i \in JobIds, t \in Steps :
           Submitted(id, s, j)[i][t] = IF i = id /\ t = s THEN q ELSE j[i][t]
    BY <1>1, <1>3 DEF SequenceJobs
  <1>7. /\ DOMAIN j[id][s] \subseteq DOMAIN q
        /\ \A n \in DOMAIN q : q[n] = IF n \in DOMAIN j[id][s] THEN j[id][s][n] ELSE Fresh
        /\ l + 1 \in DOMAIN q
    BY <1>2
  <1> HIDE DEF Submitted
  <1> QED
    BY <1>2, <1>5, <1>6, <1>7

(* change() on a machine that repeats nothing: one step on.                *)
LEMMA EnterFacts ==
    ASSUME TypeInv, NEW j \in [JobIds -> SequenceJobs], NEW id \in JobIds, NEW m \in Machine,
           m.repeat = {}, EnterNext(id, m, j)
    PROVE  /\ jobs' \in [JobIds -> SequenceJobs] /\ sm' \in [JobIds -> Machine]
           /\ \A i \in JobIds : i # id => sm'[i] = sm[i]
           /\ sm'[id].current = m.current + 1 /\ sm'[id].repeat = {}
           /\ sm'[id].success = m.success
           /\ jobs' = IF m.current + 1 \in Steps \ m.success
                      THEN Submitted(id, m.current + 1, j) ELSE j
  <1> DEFINE e == [m EXCEPT !.current = @ + 1]
  <1>1. /\ m.current \in Start .. Complete /\ m.success \in SUBSET Steps
        /\ Change(m) = e /\ m.current # Complete
    BY NumStepsAssumption DEF Machine, Change, IsRepeating, EnterNext, CanChange,
         Steps, Start, Complete
  <1>2. e.current = m.current + 1 /\ e.repeat = {} /\ e.success = m.success
    BY DEF Machine
  <1>3. e \in Machine
    BY <1>1, NumStepsAssumption DEF Machine, Start, Complete
  <1>4. sm' = [sm EXCEPT ![id] = e]
        /\ jobs' = IF m.current + 1 \in Steps \ m.success
                   THEN Submitted(id, m.current + 1, j) ELSE j
    BY <1>1, <1>2 DEF EnterNext, Submits
  <1>5. jobs' \in [JobIds -> SequenceJobs]
    BY <1>4, AddFacts
  <1> HIDE DEF e
  <1> QED
    BY <1>2, <1>3, <1>4, <1>5 DEF TypeInv

(* A job that moves on: it had not ended, and if it ends while the journal *)
(* is read, the journal says so.                                           *)
LEMMA JournalFacts ==
    ASSUME TypeInv, NEW id \in JobIds, NEW s \in Steps, NEW n \in Copies(id, s),
           JobRuns(id, s, n) \/ JobFails(id, s, n) \/ JobException(id, s, n)
    PROVE  /\ UNCHANGED <<pc, watching, tracked, sm, resume, batch, used>>
           /\ \E r \in FluxJob :
                 LET job == jobs[id][s][n] IN
                 /\ jobs' = Put(jobs, id, s, n, r)
                 /\ FluxActive(job.status)
                 /\ r.pending = job.pending \/ r.pending = job.pending + 1
                 /\ watching => FluxActive(r.status) \/ r.pending > 0
                 /\ \/ r.status = "RUN" /\ job.status = "SCHED"
                    \/ r.status = "CLEANUP" /\ job.status = "RUN" /\ r.pending = job.pending
                    \/ r.status = "COMPLETED" /\ job.status = "CLEANUP"
                    \/ r.status \in {"KILLED", "CANCELED", "FAILED"}
  <1> DEFINE old == jobs[id][s][n]
             e(name) == old.events + IF name \in SkipEvents THEN 0 ELSE 1
             d(name) == old.pending + IF watching /\ name \notin SkipEvents THEN 1 ELSE 0
             r(name, st) == [status |-> st, events |-> e(name), pending |-> d(name)]
  <1>1. UNCHANGED <<pc, watching, tracked, sm, resume, batch, used>>
    BY DEF JobRuns, JobFails, JobException, MachineUnchanged, machineVars
  <1>2. old.pending \in Nat /\ old.events \in Nat /\ Told(old)
    <2>1. jobs[id][s] \in Seq(FluxJob)
      BY DEF TypeInv, SequenceJobs
    <2>2. old \in FluxJob
      BY <2>1 DEF Copies
    <2> QED
      BY <2>2 DEF FluxJob, FluxFields
  <1>3. \A name, st : Journal(id, s, n, name, st) =>
           /\ jobs' = Put(jobs, id, s, n, r(name, st))
           /\ r(name, st).status = st /\ r(name, st).events = e(name)
           /\ r(name, st).pending = d(name)
    BY DEF Journal, Put
  <1>4. \A name : \A st \in FluxStatus :
            e(name) \in Nat /\ d(name) \in Nat => r(name, st) \in FluxFields
    BY DEF FluxFields
  <1>5. /\ e("start") = old.events + 1 /\ e("finish") = old.events
        /\ e("clean") = old.events + 1 /\ e("exception") = old.events + 1
    BY <1>2 DEF SkipEvents
  <1>6. /\ d("start") \in Nat /\ d("finish") = old.pending /\ d("clean") \in Nat
        /\ d("exception") \in Nat
        /\ d("start") = old.pending \/ d("start") = old.pending + 1
        /\ d("clean") = old.pending \/ d("clean") = old.pending + 1
        /\ d("exception") = old.pending \/ d("exception") = old.pending + 1
        /\ watching => d("clean") > 0
    BY <1>2 DEF SkipEvents, TypeInv
  <1> HIDE DEF d, e, r
  <1>7. CASE old.status = "SCHED" /\ Journal(id, s, n, "start", "RUN")
    <2>1. r("start", "RUN") \in FluxJob
      BY <1>2, <1>3, <1>4, <1>5, <1>6, <1>7 DEF FluxJob, Told, FluxStatus, FluxActive
    <2> QED
      BY <1>1, <1>2, <1>3, <1>6, <1>7, <2>1 DEF FluxActive
  <1>8. CASE old.status = "RUN" /\ Journal(id, s, n, "finish", "CLEANUP")
    <2>1. r("finish", "CLEANUP") \in FluxJob
      BY <1>2, <1>3, <1>4, <1>5, <1>6, <1>8 DEF FluxJob, Told, FluxStatus, FluxActive
    <2> QED
      BY <1>1, <1>2, <1>3, <1>6, <1>8, <2>1 DEF FluxActive
  <1>9. CASE old.status = "CLEANUP" /\ Journal(id, s, n, "clean", "COMPLETED")
    <2>1. r("clean", "COMPLETED") \in FluxJob
      BY <1>2, <1>3, <1>4, <1>5, <1>6, <1>9 DEF FluxJob, Told, FluxStatus, FluxActive
    <2> QED
      BY <1>1, <1>2, <1>3, <1>6, <1>9, <2>1 DEF FluxActive
  <1>10. CASE old.status = "KILLED" /\ Journal(id, s, n, "clean", "CANCELED")
    <2>1. r("clean", "CANCELED") \in FluxJob
      BY <1>2, <1>3, <1>4, <1>5, <1>6, <1>10 DEF FluxJob, Told, FluxStatus, FluxActive
    <2> QED
      BY <1>1, <1>2, <1>3, <1>6, <1>10, <2>1 DEF FluxActive
  <1>11. CASE old.status = "CLEANUP" /\ Journal(id, s, n, "clean", "FAILED")
    <2>1. r("clean", "FAILED") \in FluxJob
      BY <1>2, <1>3, <1>4, <1>5, <1>6, <1>11 DEF FluxJob, Told, FluxStatus, FluxActive
    <2> QED
      BY <1>1, <1>2, <1>3, <1>6, <1>11, <2>1 DEF FluxActive
  <1>12. CASE old.status \in {"SCHED", "RUN"} /\ Journal(id, s, n, "exception", "KILLED")
    <2>1. r("exception", "KILLED") \in FluxJob
      BY <1>2, <1>3, <1>4, <1>5, <1>6, <1>12 DEF FluxJob, Told, FluxStatus, FluxActive
    <2> QED
      BY <1>1, <1>2, <1>3, <1>6, <1>12, <2>1 DEF FluxActive
  <1> QED
    BY <1>7, <1>8, <1>9, <1>10, <1>11, <1>12 DEF JobRuns, JobFails, JobException

(* An event is handed over.                                                *)
LEMMA DeliveredFacts ==
    ASSUME TypeInv, NEW id \in JobIds, NEW s \in Steps, NEW n \in Copies(id, s),
           jobs[id][s][n].pending > 0
    PROVE  LET job == jobs[id][s][n]
               r == [job EXCEPT !.pending = @ - 1]
           IN  r.status = job.status /\ r.pending = job.pending - 1
               /\ r \in FluxJob /\ Delivered(id, s, n) = Put(jobs, id, s, n, r)
  <1>1. jobs[id][s][n] \in FluxJob
    BY DEF TypeInv, SequenceJobs, Copies
  <1> DEFINE job == jobs[id][s][n]
             r == [job EXCEPT !.pending = @ - 1]
  <1>2. /\ r \in FluxFields /\ r.status = job.status /\ r.events = job.events
        /\ r.pending = job.pending - 1 /\ Told(job)
    BY <1>1 DEF FluxJob, FluxFields
  <1>3. r \in FluxJob
    BY <1>2 DEF FluxJob, Told
  <1>4. Delivered(id, s, n) = Put(jobs, id, s, n, [jobs[id][s][n] EXCEPT !.pending = @ - 1])
    BY DEF Delivered, Put
  <1> QED
    BY <1>2, <1>3, <1>4

(* A new consumer is told of every job that has started.                   *)
LEMMA ReplayFacts ==
    ASSUME TypeInv, Watch, ~ watching
    PROVE  /\ jobs' \in [JobIds -> SequenceJobs]
           /\ \A id \in JobIds, s \in Steps :
                 /\ DOMAIN jobs'[id][s] = Copies(id, s)
                 /\ \A n \in Copies(id, s) :
                       /\ jobs'[id][s][n].status = jobs[id][s][n].status
                       /\ jobs'[id][s][n].pending = jobs[id][s][n].events
                       /\ Told(jobs[id][s][n])
  <1> DEFINE r(id, s, n) == Replayed(jobs[id][s][n])
             q(id, s) == [n \in Copies(id, s) |-> r(id, s, n)]
  <1>1. jobs' = [id \in JobIds |-> [s \in Steps |-> q(id, s)]]
    BY DEF Watch
  <1>2. ASSUME NEW id \in JobIds, NEW s \in Steps
        PROVE  /\ q(id, s) \in Seq(FluxJob)
               /\ \A n \in Copies(id, s) :
                     /\ q(id, s)[n].status = jobs[id][s][n].status
                     /\ q(id, s)[n].pending = jobs[id][s][n].events
                     /\ Told(jobs[id][s][n])
    <2>1. jobs[id][s] \in Seq(FluxJob)
      BY DEF TypeInv, SequenceJobs
    <2>2. ASSUME NEW n \in Copies(id, s)
          PROVE  /\ r(id, s, n) \in FluxJob
                 /\ r(id, s, n).status = jobs[id][s][n].status
                 /\ r(id, s, n).pending = jobs[id][s][n].events
                 /\ Told(jobs[id][s][n])
      <3>1. jobs[id][s][n] \in FluxJob
        BY <2>1 DEF Copies
      <3>2. /\ r(id, s, n) \in FluxFields
            /\ r(id, s, n).status = jobs[id][s][n].status
            /\ r(id, s, n).events = jobs[id][s][n].events
            /\ r(id, s, n).pending = jobs[id][s][n].events
            /\ Told(jobs[id][s][n])
        BY <3>1 DEF FluxJob, FluxFields, Replayed
      <3> QED
        BY <3>2 DEF FluxJob, Told
    <2> HIDE DEF r
    <2>3. /\ Len(jobs[id][s]) \in Nat /\ Copies(id, s) = 1 .. Len(jobs[id][s])
      BY <2>1 DEF Copies
    <2>4. q(id, s) \in [1 .. Len(jobs[id][s]) -> FluxJob]
      BY <2>2, <2>3
    <2>5. q(id, s) \in Seq(FluxJob)
      BY <2>3, <2>4
    <2> QED
      BY <2>2, <2>5
  <1>3. \A id \in JobIds, s \in Steps : DOMAIN q(id, s) = Copies(id, s)
    OBVIOUS
  <1> HIDE DEF q
  <1> QED
    BY <1>1, <1>2, <1>3 DEF SequenceJobs

-----------------------------------------------------------------------------
(* Types.                                                                  *)

LEMMA NewMachineType == NewMachine \in Machine /\ NewMachine.repeat = {} /\ NewMachine.current = 0
                        /\ NewMachine.success = {}
  BY NumStepsAssumption DEF NewMachine, Machine, Start, Complete

LEMMA RunningType ==
    ASSUME NEW s \in Steps
    PROVE  LET m == MarkRunning(NewMachine, s) IN
           m \in Machine /\ m.repeat = {} /\ m.current = 0 /\ (NamesMatch = FALSE => m.success = {})
  <1>1. 1 .. (s - 1) \subseteq Steps
    BY NumStepsAssumption DEF Steps
  <1> QED
    BY <1>1, NewMachineType, NamesMatchAssumption DEF MarkRunning, Machine

(* The machine of a step that has ended, before it changes.                *)
LEMMA SucceededType ==
    ASSUME TypeInv, NEW id \in JobIds
    PROVE  LET m == MarkSucceeded(sm[id]) IN
           /\ m \in Machine /\ m.repeat = {} /\ m.current = sm[id].current
           /\ m.success = sm[id].success \cup ({sm[id].current} \cap Steps)
  <1>1. sm[id] \in Machine /\ sm[id].repeat = {}
    BY DEF TypeInv
  <1> QED
    BY <1>1 DEF MarkSucceeded, IsRepeating, Machine

(* Which actions enter a step, and from which machine.                     *)
LEMMA ResumeFacts ==
    ASSUME TypeInv, NEW id \in JobIds, NEW s \in Steps, ResumeSequence(id, s)
    PROVE  /\ EnterNext(id, MarkRunning(NewMachine, s), jobs)
           /\ pc = "resume" /\ tracked' = tracked \cup {id} /\ UNCHANGED <<pc, watching>>
  BY DEF ResumeSequence

LEMMA TypeStep == TypeInv /\ [Next]_vars => TypeInv'
  <1> SUFFICES ASSUME TypeInv, [Next]_vars PROVE TypeInv'
    OBVIOUS
  <1>0. /\ jobs \in [JobIds -> SequenceJobs] /\ tracked \subseteq JobIds
        /\ sm \in [JobIds -> Machine] /\ \A id \in JobIds : sm[id].repeat = {}
        /\ watching \in BOOLEAN
        /\ pc = "watch" => watching
        /\ pc = "down" => ~ watching
    BY DEF TypeInv
  <1>1. ASSUME NEW id \in JobIds, NEW m \in Machine, m.repeat = {},
               NEW j \in [JobIds -> SequenceJobs], EnterNext(id, m, j)
        PROVE  /\ jobs' \in [JobIds -> SequenceJobs] /\ sm' \in [JobIds -> Machine]
               /\ \A i \in JobIds : sm'[i].repeat = {}
    BY <1>0, <1>1, EnterFacts
  <1>2. CASE InitState
    <2>1. ASSUME NEW id \in JobIds
          PROVE  sm'[id] \in Machine /\ sm'[id].repeat = {}
      <3> DEFINE live == {s \in Steps : Has(id, s, {"SCHED", "RUN"})}
                 f == UNION {MarkRunning(NewMachine, s).success : s \in live}
      <3>1. sm'[id] = [NewMachine EXCEPT !.success = f]
        BY <1>2 DEF InitState
      <3>2. \A s \in Steps : MarkRunning(NewMachine, s).success \subseteq Steps
        BY RunningType DEF Machine
      <3>3. f \subseteq Steps
        BY <3>2
      <3> HIDE DEF f
      <3> QED
        BY <3>1, <3>3, NewMachineType DEF Machine
    <2>2. sm' = [id \in JobIds |-> sm'[id]]
      BY <1>2 DEF InitState
    <2>3. sm' \in [JobIds -> Machine]
      BY <2>1, <2>2
    <2> QED
      BY <1>0, <1>2, <2>1, <2>3 DEF InitState, TypeInv
  <1>3. ASSUME NEW id \in JobIds, NEW s \in Steps, ResumeSequence(id, s) PROVE TypeInv'
    <2>1. /\ jobs' \in [JobIds -> SequenceJobs] /\ sm' \in [JobIds -> Machine]
          /\ \A i \in JobIds : sm'[i].repeat = {}
      BY <1>0, <1>1, <1>3, ResumeFacts, RunningType
    <2> QED
      BY <1>0, <1>3, <2>1 DEF ResumeSequence, TypeInv
  <1>4. CASE ResumeDone \/ CheckComplete \/ NewJobs
    BY <1>0, <1>4 DEF ResumeDone, CheckComplete, NewJobs, machineVars, TypeInv
  <1>5. ASSUME NEW id \in JobIds, SubmitSequence(id) PROVE TypeInv'
    <2>1. /\ jobs' \in [JobIds -> SequenceJobs] /\ sm' \in [JobIds -> Machine]
          /\ \A i \in JobIds : sm'[i].repeat = {}
      BY <1>0, <1>1, <1>5, NewMachineType DEF SubmitSequence
    <2> QED
      BY <1>0, <1>5, <2>1 DEF SubmitSequence, TypeInv
  <1>6. CASE Watch
    <2>1. jobs' \in [JobIds -> SequenceJobs]
      BY <1>0, <1>6, ReplayFacts DEF Watch
    <2> QED
      BY <1>0, <1>6, <2>1 DEF Watch, machineVars, TypeInv
  <1>7. ASSUME NEW id \in JobIds, NEW s \in Steps, NEW n \in Copies(id, s),
               JobRuns(id, s, n) \/ JobFails(id, s, n) \/ JobException(id, s, n)
        PROVE  TypeInv'
    <2>1. UNCHANGED <<pc, watching, tracked, sm>>
      BY <1>7, JournalFacts
    <2>2. PICK r \in FluxJob : jobs' = Put(jobs, id, s, n, r)
      BY <1>7, JournalFacts
    <2>3. jobs' \in [JobIds -> SequenceJobs]
      BY <1>0, <2>2, PutFacts DEF Copies
    <2> QED
      BY <1>0, <2>1, <2>3 DEF TypeInv
  <1>8. ASSUME NEW id \in JobIds, NEW s \in Steps, NEW n \in Copies(id, s),
               jobs[id][s][n].pending > 0
        PROVE  Delivered(id, s, n) \in [JobIds -> SequenceJobs]
    <2>1. PICK r \in FluxJob : Delivered(id, s, n) = Put(jobs, id, s, n, r)
      BY <1>8, DeliveredFacts
    <2>2. n \in DOMAIN jobs[id][s]
      BY DEF Copies
    <2> QED
      BY <1>0, <2>1, <2>2, PutFacts
  <1>9. ASSUME NEW id \in JobIds, NEW s \in Steps, NEW n \in Copies(id, s), IgnoreEvent(id, s, n)
        PROVE  TypeInv'
    BY <1>0, <1>8, <1>9 DEF IgnoreEvent, machineVars, TypeInv
  <1>10. ASSUME NEW id \in JobIds, NEW s \in Steps, NEW n \in Copies(id, s), HandleEvent(id, s, n)
         PROVE  TypeInv'
    <2>1. /\ Delivered(id, s, n) \in [JobIds -> SequenceJobs]
          /\ pc' = "check" /\ watching' = watching /\ tracked' \subseteq tracked
      BY <1>8, <1>10 DEF HandleEvent
    <2>2. CASE EnterNext(id, MarkSucceeded(sm[id]), Delivered(id, s, n))
      BY <1>0, <1>1, <2>1, <2>2, SucceededType DEF TypeInv
    <2>3. CASE jobs' = Delivered(id, s, n) /\ (sm' = sm \/ sm' = [sm EXCEPT ![id] = NewMachine])
      BY <1>0, <2>1, <2>3, NewMachineType DEF TypeInv
    <2> QED
      BY <1>10, <2>2, <2>3 DEF HandleEvent
  <1>11. CASE Restart
    BY <1>0, <1>11, NewMachineType DEF Restart, TypeInv
  <1>12. CASE UNCHANGED vars
    BY <1>0, <1>12 DEF vars, machineVars, TypeInv
  <1> QED
    BY <1>2, <1>3, <1>4, <1>5, <1>6, <1>7, <1>9, <1>10, <1>11, <1>12
       DEF Next, Step, Receive, Progress

LEMMA TypeHolds == Spec => []TypeInv
  <1>1. Init => TypeInv
    <2> SUFFICES ASSUME Init PROVE TypeInv
      OBVIOUS
    <2>1. << >> \in Seq(FluxJob)
      OBVIOUS
    <2> QED
      BY <2>1, NewMachineType DEF Init, TypeInv, SequenceJobs
  <1> QED
    BY <1>1, TypeStep, PTL DEF Spec

-----------------------------------------------------------------------------
(* What moves a machine on.                                                *)

\* python-statemachine's State does not equal its id.
MovePremise == NamesMatch = FALSE

\* A step that the machine has yet to enter is not flagged as done.
FlagsBehind == \A id \in JobIds : \A s \in sm[id].success : s < sm[id].current

InMotion(id) ==
    \E s \in Steps : \E n \in Copies(id, s) :
        FluxActive(jobs[id][s][n].status) \/ jobs[id][s][n].pending > 0

\* While the journal is not read, any job will do: it is told of at the next start.
OnItsWay(id) ==
    \/ sm[id].current = Complete
    \/ watching /\ InMotion(id)
    \/ ~ watching /\ \E s \in Steps : Copies(id, s) # {}

MoveInv == FlagsBehind /\ \A id \in tracked : OnItsWay(id)

(* A machine that changes is through, or has a new job.                    *)
LEMMA EnterMoves ==
    ASSUME TypeInv, NEW j \in [JobIds -> SequenceJobs], NEW id \in JobIds, NEW m \in Machine,
           m.repeat = {}, EnterNext(id, m, j),
           \A s \in m.success : s <= m.current,
           \A i \in JobIds : i # id => j[i] = jobs[i],
           watching' = watching, MoveInv, tracked' \subseteq tracked \cup {id}
    PROVE  MoveInv'
  <1> DEFINE c == m.current + 1
  <1>1. /\ \A i \in JobIds : i # id => sm'[i] = sm[i]
        /\ sm'[id].current = c /\ sm'[id].success = m.success
        /\ jobs' = IF c \in Steps \ m.success THEN Submitted(id, c, j) ELSE j
        /\ sm' \in [JobIds -> Machine] /\ jobs' \in [JobIds -> SequenceJobs]
    BY EnterFacts
  <1>2. m.current \in Nat /\ m.success \subseteq Steps /\ c \in 0 .. Complete
    <2>1. sm'[id] \in Machine /\ m \in Machine
      BY <1>1
    <2> QED
      BY <1>1, <2>1, NumStepsAssumption DEF Machine, Start, Complete
  <1>3. FlagsBehind'
    <2>1. ASSUME NEW i \in JobIds, NEW s \in sm'[i].success PROVE s < sm'[i].current
      <3>1. CASE i = id
        <4>1. s \in m.success /\ s \in Nat
          BY <1>1, <1>2, <2>1, <3>1 DEF Steps
        <4> QED
          BY <1>1, <1>2, <3>1, <4>1
      <3>2. CASE i # id
        BY <1>1, <2>1, <3>2 DEF MoveInv, FlagsBehind
      <3> QED
        BY <3>1, <3>2
    <2> QED
      BY <2>1 DEF FlagsBehind
  <1>4. sm'[id].current = Complete \/ InMotion(id)'
    <2>1. CASE c \in Steps
      <3>1. c \notin m.success
        BY <1>2, <2>1 DEF Steps
      <3>2. jobs' = Submitted(id, c, j)
        BY <1>1, <2>1, <3>1
      <3>3. PICK n \in DOMAIN jobs'[id][c] : jobs'[id][c][n] = Fresh
        BY <2>1, <3>2, AddFacts
      <3>4. FluxActive(jobs'[id][c][n].status)
        BY <3>3 DEF Fresh, FluxActive
      <3> QED
        BY <2>1, <3>3, <3>4 DEF InMotion, Copies
    <2>2. CASE c \notin Steps
      BY <1>1, <1>2, <2>2, NumStepsAssumption DEF Steps, Complete
    <2> QED
      BY <2>1, <2>2
  <1>5. OnItsWay(id)'
    <2>1. InMotion(id)' => \E s \in Steps : Copies(id, s)' # {}
      BY DEF InMotion
    <2> QED
      BY <1>4, <2>1 DEF OnItsWay, TypeInv
  <1>6. ASSUME NEW i \in JobIds, i # id, OnItsWay(i) PROVE OnItsWay(i)'
    <2>1. \A t \in Steps : /\ DOMAIN jobs[i][t] \subseteq DOMAIN jobs'[i][t]
                           /\ \A n \in DOMAIN jobs[i][t] : jobs'[i][t][n] = jobs[i][t][n]
      <3>1. CASE jobs' = j
        BY <1>6, <3>1
      <3>2. CASE c \in Steps /\ jobs' = Submitted(id, c, j)
        BY <1>6, <3>2, AddFacts
      <3> QED
        BY <1>1, <3>1, <3>2
    <2>2. sm'[i] = sm[i]
      BY <1>1, <1>6
    <2>3. InMotion(i) => InMotion(i)'
      BY <2>1 DEF InMotion, Copies
    <2>4. (\E s \in Steps : Copies(i, s) # {}) => (\E s \in Steps : Copies(i, s)' # {})
      BY <2>1 DEF Copies
    <2> QED
      BY <1>6, <2>2, <2>3, <2>4 DEF OnItsWay
  <1>7. ASSUME NEW i \in tracked' PROVE OnItsWay(i)'
    <2>1. i = id \/ (i \in tracked /\ i \in JobIds)
      BY <1>7 DEF TypeInv
    <2> QED
      BY <1>5, <1>6, <2>1 DEF MoveInv
  <1> QED
    BY <1>3, <1>7 DEF MoveInv

(* One job changes, and is in motion afterwards if it was and the journal  *)
(* is read.                                                                *)
LEMMA PutMoves ==
    ASSUME TypeInv, MoveInv, NEW id \in JobIds, NEW s \in Steps, NEW n \in Copies(id, s),
           NEW r \in FluxJob, jobs' = Put(jobs, id, s, n, r),
           watching' = watching, tracked' \subseteq tracked, FlagsBehind',
           \A i \in tracked' : sm'[i] = sm[i],
           watching /\ id \in tracked' => \/ sm[id].current = Complete
                                          \/ FluxActive(r.status) \/ r.pending > 0
    PROVE  MoveInv'
  <1>1. \A i \in JobIds, t \in Steps :
           /\ DOMAIN jobs'[i][t] = DOMAIN jobs[i][t]
           /\ \A k \in DOMAIN jobs[i][t] :
                 jobs'[i][t][k] = IF i = id /\ t = s /\ k = n THEN r ELSE jobs[i][t][k]
    <2>1. jobs \in [JobIds -> SequenceJobs] /\ n \in DOMAIN jobs[id][s]
      BY DEF TypeInv, Copies
    <2> QED
      BY <2>1, PutFacts
  <1>2. ASSUME NEW i \in tracked' PROVE OnItsWay(i)'
    <2>1. i \in JobIds /\ OnItsWay(i) /\ sm'[i] = sm[i] /\ watching' = watching
      BY <1>2 DEF TypeInv, MoveInv
    <2>2. (\E t \in Steps : Copies(i, t) # {}) => (\E t \in Steps : Copies(i, t)' # {})
      BY <1>1, <2>1 DEF Copies
    <2>3. CASE i # id
      <3>1. InMotion(i) => InMotion(i)'
        BY <1>1, <2>1, <2>3 DEF InMotion, Copies
      <3> QED
        BY <2>1, <2>2, <3>1 DEF OnItsWay
    <2>4. CASE i = id
      <3>1. n \in Copies(id, s)' /\ jobs'[id][s][n] = r
        BY <1>1 DEF Copies
      <3>2. FluxActive(r.status) \/ r.pending > 0 => InMotion(i)'
        BY <2>4, <3>1 DEF InMotion
      <3> QED
        BY <1>2, <2>1, <2>2, <2>4, <3>2 DEF OnItsWay
    <2> QED
      BY <2>3, <2>4
  <1> QED
    BY <1>2 DEF MoveInv

LEMMA MoveStep ==
    ASSUME MovePremise, TypeInv, MoveInv, [Next]_vars
    PROVE  MoveInv'
  <1>0. /\ jobs \in [JobIds -> SequenceJobs] /\ tracked \subseteq JobIds
        /\ FlagsBehind /\ \A id \in tracked : OnItsWay(id)
        /\ watching \in BOOLEAN
    BY DEF TypeInv, MoveInv
  <1>1. CASE InitState
    <2>1. pc = "down" /\ ~ watching /\ UNCHANGED <<jobs, watching>>
      BY <1>1 DEF InitState, TypeInv
    <2>2. ASSUME NEW id \in JobIds PROVE sm'[id].success = {}
      <3> DEFINE live == {s \in Steps : Has(id, s, {"SCHED", "RUN"})}
                 f == UNION {MarkRunning(NewMachine, s).success : s \in live}
      <3>1. sm'[id] = [NewMachine EXCEPT !.success = f]
        BY <1>1 DEF InitState
      <3>2. \A s \in Steps : MarkRunning(NewMachine, s).success = {}
        BY RunningType DEF MovePremise
      <3>3. f = {}
        BY <3>2
      <3> HIDE DEF f
      <3> QED
        BY <3>1, <3>3, NewMachineType DEF Machine
    <2>3. ASSUME NEW id \in tracked' PROVE OnItsWay(id)'
      <3>1. PICK s \in Steps : Has(id, s, {"SCHED", "RUN"})
        BY <1>1, <2>3 DEF InitState
      <3> QED
        BY <2>1, <3>1 DEF Has, OnItsWay, Copies
    <2> QED
      BY <2>2, <2>3 DEF MoveInv, FlagsBehind
  <1>2. ASSUME NEW id \in JobIds, NEW s \in Steps, ResumeSequence(id, s) PROVE MoveInv'
    <2> DEFINE m == MarkRunning(NewMachine, s)
    <2>1. m \in Machine /\ m.repeat = {} /\ m.success = {}
      BY RunningType DEF MovePremise
    <2>2. EnterNext(id, m, jobs) /\ tracked' = tracked \cup {id} /\ watching' = watching
      BY <1>2, ResumeFacts
    <2> HIDE DEF m
    <2> QED
      BY <1>0, <2>1, <2>2, EnterMoves
  <1>3. ASSUME NEW id \in JobIds, SubmitSequence(id) PROVE MoveInv'
    <2>1. EnterNext(id, NewMachine, jobs) /\ tracked' = tracked \cup {id} /\ watching' = watching
      BY <1>3 DEF SubmitSequence
    <2> QED
      BY <1>0, <2>1, NewMachineType, EnterMoves
  <1>4. ASSUME UNCHANGED <<jobs, tracked, sm, watching>> PROVE MoveInv'
    BY <1>0, <1>4 DEF MoveInv, FlagsBehind, OnItsWay, InMotion, Copies
  <1>5. CASE CheckComplete
    <2>1. UNCHANGED <<jobs, tracked, sm>> /\ (watching' => watching)
      BY <1>0, <1>5 DEF CheckComplete, machineVars
    <2>2. ASSUME NEW id \in tracked, InMotion(id) PROVE \E s \in Steps : Copies(id, s) # {}
      BY <2>2 DEF InMotion
    <2>3. \A id \in tracked : OnItsWay(id)'
      BY <1>0, <2>1, <2>2 DEF OnItsWay, InMotion, Copies
    <2> QED
      BY <1>0, <2>1, <2>3 DEF MoveInv, FlagsBehind
  <1>6. CASE Watch
    <2>1. UNCHANGED <<tracked, sm>> /\ watching'
      BY <1>6 DEF Watch, machineVars
    <2>2. CASE watching
      BY <1>4, <1>6, <2>1, <2>2 DEF Watch
    <2>3. CASE ~ watching
      <3>1. ASSUME NEW id \in tracked, NEW s \in Steps, Copies(id, s) # {} PROVE InMotion(id)'
        <4>1. PICK n \in Copies(id, s) : TRUE
          BY <3>1
        <4>2. /\ n \in Copies(id, s)'
              /\ jobs'[id][s][n].status = jobs[id][s][n].status
              /\ jobs'[id][s][n].pending = jobs[id][s][n].events
              /\ Told(jobs[id][s][n])
          BY <1>0, <1>6, <2>3, ReplayFacts DEF Copies
        <4> QED
          BY <4>2 DEF InMotion, Told
      <3>2. \A id \in tracked : OnItsWay(id)'
        BY <1>0, <2>1, <2>3, <3>1 DEF OnItsWay
      <3> QED
        BY <1>0, <2>1, <3>2 DEF MoveInv, FlagsBehind
    <2> QED
      BY <2>2, <2>3
  <1>7. ASSUME NEW id \in JobIds, NEW s \in Steps, NEW n \in Copies(id, s),
               JobRuns(id, s, n) \/ JobFails(id, s, n) \/ JobException(id, s, n)
        PROVE  MoveInv'
    <2>1. UNCHANGED <<pc, watching, tracked, sm>>
      BY <1>7, JournalFacts
    <2>2. PICK r \in FluxJob :
             /\ jobs' = Put(jobs, id, s, n, r)
             /\ watching => FluxActive(r.status) \/ r.pending > 0
      BY <1>7, JournalFacts
    <2>3. FlagsBehind'
      BY <1>0, <2>1 DEF FlagsBehind
    <2> QED
      BY <1>0, <2>1, <2>2, <2>3, PutMoves
  <1>8. ASSUME NEW id \in JobIds, NEW s \in Steps, NEW n \in Copies(id, s), IgnoreEvent(id, s, n)
        PROVE  MoveInv'
    <2> DEFINE r == [jobs[id][s][n] EXCEPT !.pending = @ - 1]
    <2>1. /\ r \in FluxJob /\ jobs' = Put(jobs, id, s, n, r)
          /\ UNCHANGED <<tracked, sm, watching>>
          /\ id \notin tracked \/ FluxActive(r.status)
      BY <1>8, DeliveredFacts DEF IgnoreEvent, machineVars
    <2>2. FlagsBehind'
      BY <1>0, <2>1 DEF FlagsBehind
    <2> HIDE DEF r
    <2> QED
      BY <1>0, <2>1, <2>2, PutMoves
  <1>9. ASSUME NEW id \in JobIds, NEW s \in Steps, NEW n \in Copies(id, s), HandleEvent(id, s, n)
        PROVE  MoveInv'
    <2> DEFINE j == Delivered(id, s, n)
    <2>0. jobs[id][s][n].pending > 0
      BY <1>9 DEF HandleEvent
    <2>1. PICK r \in FluxJob : j = Put(jobs, id, s, n, r)
      <3>1. LET r == [jobs[id][s][n] EXCEPT !.pending = @ - 1]
            IN  r \in FluxJob /\ Delivered(id, s, n) = Put(jobs, id, s, n, r)
        BY <2>0, DeliveredFacts
      <3> QED
        BY <3>1
    <2>2. n \in DOMAIN jobs[id][s]
      BY DEF Copies
    <2>3. /\ j \in [JobIds -> SequenceJobs]
          /\ \A i \in JobIds : i # id => j[i] = jobs[i]
      <3>1. j \in [JobIds -> SequenceJobs]
        BY <1>0, <2>1, <2>2, PutFacts
      <3>2. \A i \in JobIds : i # id => j[i] = jobs[i]
        BY <1>0, <2>1 DEF Put
      <3> QED
        BY <3>1, <3>2
    <2>4. watching' = watching
      BY <1>9 DEF HandleEvent
    <2> HIDE DEF j
    <2>5. CASE EnterNext(id, MarkSucceeded(sm[id]), j) /\ tracked' = tracked
      <3> DEFINE m == MarkSucceeded(sm[id])
      <3>1. /\ m \in Machine /\ m.repeat = {} /\ m.current = sm[id].current
            /\ m.success = sm[id].success \cup ({sm[id].current} \cap Steps)
        BY SucceededType
      <3>2. \A x \in m.success : x <= m.current
        <4>1. \A x \in m.success : x \in Nat /\ m.current \in Nat
          BY <3>1, NumStepsAssumption DEF Machine, Steps, Start, Complete
        <4>2. \A x \in m.success : x < m.current \/ x = m.current
          BY <1>0, <3>1 DEF FlagsBehind
        <4> QED
          BY <4>1, <4>2
      <3> HIDE DEF m
      <3> QED
        BY <1>0, <2>3, <2>4, <2>5, <3>1, <3>2, EnterMoves DEF m
    <2>6. CASE jobs' = j /\ sm[id].current = Complete /\ UNCHANGED <<sm, tracked>>
      <3>1. FlagsBehind'
        BY <1>0, <2>6 DEF FlagsBehind
      <3> QED
        BY <1>0, <2>1, <2>4, <2>6, <3>1, PutMoves
    <2>7. CASE jobs' = j /\ tracked' = tracked \ {id} /\ sm' = [sm EXCEPT ![id] = NewMachine]
      <3>0. sm \in [JobIds -> Machine]
        BY DEF TypeInv
      <3>1. FlagsBehind'
        BY <1>0, <2>7, <3>0, NewMachineType DEF FlagsBehind
      <3>2. id \notin tracked' /\ \A i \in tracked' : sm'[i] = sm[i]
        BY <1>0, <2>7, <3>0
      <3> QED
        BY <1>0, <2>1, <2>4, <2>7, <3>1, <3>2, PutMoves
    <2> QED
      BY <1>9, <2>5, <2>6, <2>7 DEF HandleEvent, j
  <1>10. CASE Restart
    BY <1>10, NewMachineType DEF Restart, MoveInv, FlagsBehind
  <1>11. CASE ResumeDone \/ NewJobs \/ UNCHANGED vars
    BY <1>4, <1>11 DEF ResumeDone, NewJobs, vars, machineVars
  <1> QED
    BY <1>1, <1>2, <1>3, <1>5, <1>6, <1>7, <1>8, <1>9, <1>10, <1>11
       DEF Next, Step, Receive, Progress

(***************************************************************************)
(* No completion is lost on Flux, whatever fails, is canceled or restarts, *)
(* and however late the journal's events are: whenever the manager waits,  *)
(* every sequence it tracks is through its steps, or has a job that has    *)
(* not ended or an event still to be handled.                              *)
(***************************************************************************)
THEOREM MovingHolds ==
    ASSUME MovePremise
    PROVE  Spec => []Moving
  <1>1. Init => MoveInv
    BY NewMachineType DEF Init, MoveInv, FlagsBehind
  <1>2. TypeInv /\ MoveInv /\ [Next]_vars => MoveInv'
    BY MoveStep
  <1>3. TypeInv /\ MoveInv => Moving
    BY DEF TypeInv, MoveInv, OnItsWay, InMotion, Moving
  <1> QED
    BY <1>1, <1>2, <1>3, TypeHolds, PTL DEF Spec

-----------------------------------------------------------------------------
(* How far a machine can be.                                               *)

CompletedOf(q) ==
    UNION {{<<s, n>> : n \in {k \in DOMAIN q[s] : q[s][k].status = "COMPLETED"}} : s \in Steps}

\* The events of completed jobs that have been handled: of the two, the second
\* is handled first.
Spent(q) == {p \in CompletedOf(q) \X {1, 2} : q[p[1][1]][p[1][2]].pending < p[2]}

\* The journal speaks twice of a job that completes, and once of its start.
PendingBound ==
    \A id \in JobIds, s \in Steps : \A n \in Copies(id, s) :
        LET job == jobs[id][s][n] IN
        /\ job.status = "SCHED" => job.pending = 0
        /\ job.status \in {"RUN", "CLEANUP"} => job.pending <= 1
        /\ job.status = "COMPLETED" => job.pending <= 2

AheadInv ==
    /\ PendingBound
    /\ \A id \in tracked :
          /\ sm[id].current <= 1 + Cardinality(Spent(jobs[id]))
          /\ ~ watching /\ pc # "exited" => sm[id].current <= 1

(* Completed jobs are finitely many, and so are their events.              *)
LEMMA CompletedFinite ==
    ASSUME NEW q \in SequenceJobs
    PROVE  /\ IsFiniteSet(CompletedOf(q)) /\ IsFiniteSet(Spent(q))
           /\ Cardinality(Spent(q)) \in Nat
           /\ Cardinality(Spent(q)) <= 2 * Cardinality(CompletedOf(q))
  <1> DEFINE A(s) == {k \in DOMAIN q[s] : q[s][k].status = "COMPLETED"}
             C(s) == {<<s, n>> : n \in A(s)}
             T == {C(s) : s \in Steps}
             f == [s \in Steps |-> C(s)]
  <1>1. IsFiniteSet(Steps)
    BY NumStepsAssumption, FS_Interval DEF Steps
  <1>2. ASSUME NEW s \in Steps PROVE IsFiniteSet(C(s))
    <2>1. q[s] \in Seq(FluxJob)
      BY DEF SequenceJobs
    <2>2. Len(q[s]) \in Nat /\ DOMAIN q[s] = 1 .. Len(q[s])
      BY <2>1
    <2>3. IsFiniteSet(1 .. Len(q[s]))
      BY <2>2, FS_Interval
    <2>4. IsFiniteSet(A(s))
      BY <2>2, <2>3, FS_Subset
    <2>5. IsFiniteSet({s})
      BY FS_Singleton
    <2>6. IsFiniteSet({s} \X A(s))
      BY <2>4, <2>5, FS_Product
    <2>7. C(s) = {s} \X A(s)
      OBVIOUS
    <2> QED
      BY <2>6, <2>7
  <1> HIDE DEF C
  <1>3. f \in Surjection(Steps, T)
    BY DEF Surjection
  <1>4. IsFiniteSet(T)
    BY <1>1, <1>3, FS_Surjection
  <1>5. IsFiniteSet(UNION T)
    BY <1>2, <1>4, FS_UNION
  <1>6. CompletedOf(q) = UNION T
    BY DEF CompletedOf, C
  <1>7. IsFiniteSet(CompletedOf(q))
    BY <1>5, <1>6
  <1>8. IsFiniteSet({1, 2}) /\ Cardinality({1, 2}) = 2
    <2>1. {1, 2} = {1} \cup {2}
      OBVIOUS
    <2>2. IsFiniteSet({1}) /\ Cardinality({1}) = 1
      BY FS_Singleton
    <2>3. IsFiniteSet({1} \cup {2}) /\ Cardinality({1} \cup {2}) = 2
      BY <2>2, FS_AddElement
    <2> QED
      BY <2>1, <2>3
  <1>9. /\ IsFiniteSet(CompletedOf(q) \X {1, 2})
        /\ Cardinality(CompletedOf(q) \X {1, 2}) = Cardinality(CompletedOf(q)) * 2
    BY <1>7, <1>8, FS_Product
  <1>10. Spent(q) \subseteq CompletedOf(q) \X {1, 2}
    BY DEF Spent
  <1>11. /\ IsFiniteSet(Spent(q))
         /\ Cardinality(Spent(q)) <= Cardinality(CompletedOf(q) \X {1, 2})
    BY <1>9, <1>10, FS_Subset
  <1>12. Cardinality(Spent(q)) \in Nat /\ Cardinality(CompletedOf(q)) \in Nat
    BY <1>7, <1>11, FS_CardinalityType
  <1> QED
    BY <1>7, <1>9, <1>11, <1>12

(* A completed job stays, and its events only get fewer.                   *)
LEMMA SpentGrows ==
    ASSUME NEW q \in SequenceJobs, NEW r \in SequenceJobs,
           \A s \in Steps : \A n \in DOMAIN q[s] : q[s][n].status = "COMPLETED" =>
               /\ n \in DOMAIN r[s] /\ r[s][n].status = "COMPLETED"
               /\ r[s][n].pending <= q[s][n].pending
    PROVE  /\ Spent(q) \subseteq Spent(r)
           /\ Cardinality(Spent(q)) <= Cardinality(Spent(r))
  <1>1. ASSUME NEW s \in Steps, NEW n \in DOMAIN q[s], q[s][n].status = "COMPLETED"
        PROVE  <<s, n>> \in CompletedOf(r)
    BY <1>1 DEF CompletedOf
  <1>2. ASSUME NEW p \in Spent(q) PROVE p \in Spent(r)
    <2>1. /\ p \in CompletedOf(q) \X {1, 2}
          /\ q[p[1][1]][p[1][2]].pending < p[2]
      BY <1>2 DEF Spent
    <2>0. PICK s \in Steps : \E n \in DOMAIN q[s] :
             p[1] = <<s, n>> /\ q[s][n].status = "COMPLETED"
      BY <2>1 DEF CompletedOf
    <2>2. PICK n \in DOMAIN q[s] : p[1] = <<s, n>> /\ q[s][n].status = "COMPLETED"
      BY <2>0
    <2>3. PICK k \in {1, 2} : p = <<<<s, n>>, k>>
      BY <2>1, <2>2
    <2>4. /\ n \in DOMAIN r[s] /\ r[s][n].pending <= q[s][n].pending
          /\ q[s][n].pending < k
      BY <2>1, <2>2, <2>3
    <2>5. q[s][n].pending \in Nat /\ r[s][n].pending \in Nat
      <3>1. q[s] \in Seq(FluxJob) /\ r[s] \in Seq(FluxJob)
        BY DEF SequenceJobs
      <3>2. q[s][n] \in FluxJob /\ r[s][n] \in FluxJob
        BY <2>2, <2>4, <3>1
      <3> QED
        BY <3>2 DEF FluxJob, FluxFields
    <2>6. r[s][n].pending < k
      BY <2>3, <2>4, <2>5
    <2> QED
      BY <1>1, <2>2, <2>3, <2>6 DEF Spent
  <1>3. Spent(q) \subseteq Spent(r)
    BY <1>2
  <1> QED
    BY <1>3, CompletedFinite, FS_Subset

(* Handling an event of a completed job spends one more.                   *)
LEMMA SpentOne ==
    ASSUME NEW q \in SequenceJobs, NEW r \in SequenceJobs,
           \A s \in Steps : \A n \in DOMAIN q[s] : q[s][n].status = "COMPLETED" =>
               /\ n \in DOMAIN r[s] /\ r[s][n].status = "COMPLETED"
               /\ r[s][n].pending <= q[s][n].pending,
           NEW x \in Steps, NEW k \in DOMAIN q[x], q[x][k].status = "COMPLETED",
           q[x][k].pending \in {1, 2}, r[x][k].pending = q[x][k].pending - 1
    PROVE  Cardinality(Spent(q)) + 1 <= Cardinality(Spent(r))
  <1> DEFINE p == <<<<x, k>>, q[x][k].pending>>
  <1>1. Spent(q) \subseteq Spent(r)
    BY SpentGrows
  <1>2. p \notin Spent(q)
    BY DEF Spent
  <1>3. p \in Spent(r)
    <2>1. <<x, k>> \in CompletedOf(r)
      BY DEF CompletedOf
    <2>2. r[x][k].pending < q[x][k].pending
      OBVIOUS
    <2> QED
      BY <2>1, <2>2 DEF Spent
  <1> HIDE DEF p
  <1>4. Spent(q) \cup {p} \in SUBSET Spent(r)
    BY <1>1, <1>3
  <1>5. Cardinality(Spent(q) \cup {p}) = Cardinality(Spent(q)) + 1
    BY <1>2, CompletedFinite, FS_AddElement
  <1>6. Cardinality(Spent(q) \cup {p}) <= Cardinality(Spent(r))
    BY <1>4, CompletedFinite, FS_Subset
  <1> QED
    BY <1>5, <1>6

KeepsCompleted ==
    \A id \in JobIds, s \in Steps : \A n \in Copies(id, s) :
        jobs[id][s][n].status = "COMPLETED" =>
            /\ n \in DOMAIN jobs'[id][s] /\ jobs'[id][s][n].status = "COMPLETED"
            /\ jobs'[id][s][n].pending <= jobs[id][s][n].pending

(* Where completed jobs keep what was spent, only a machine that moves has *)
(* to be looked at.                                                        *)
LEMMA AheadFrame ==
    ASSUME TypeInv, TypeInv', AheadInv, KeepsCompleted, PendingBound',
           ~ watching' /\ pc' # "exited" => ~ watching /\ pc # "exited",
           \A id \in tracked' :
              \/ id \in tracked /\ sm'[id] = sm[id]
              \/ sm'[id].current <= 1
              \/ watching' /\ sm'[id].current <= 1 + Cardinality(Spent(jobs'[id]))
    PROVE  AheadInv'
  <1>1. ASSUME NEW id \in tracked'
        PROVE  /\ sm'[id].current <= 1 + Cardinality(Spent(jobs'[id]))
               /\ ~ watching' /\ pc' # "exited" => sm'[id].current <= 1
    <2>1. /\ id \in JobIds /\ jobs[id] \in SequenceJobs /\ jobs'[id] \in SequenceJobs
          /\ sm'[id] \in Machine
      BY <1>1 DEF TypeInv
    <2>2. /\ Cardinality(Spent(jobs[id])) \in Nat /\ Cardinality(Spent(jobs'[id])) \in Nat
          /\ sm'[id].current \in Nat
      BY <2>1, CompletedFinite, NumStepsAssumption DEF Machine, Start, Complete
    <2>3. Cardinality(Spent(jobs[id])) <= Cardinality(Spent(jobs'[id]))
      BY <2>1, SpentGrows DEF KeepsCompleted, Copies
    <2>4. CASE id \in tracked /\ sm'[id] = sm[id]
      <3>1. /\ sm[id].current <= 1 + Cardinality(Spent(jobs[id]))
            /\ ~ watching /\ pc # "exited" => sm[id].current <= 1
        BY <2>4 DEF AheadInv
      <3>2. sm'[id].current <= 1 + Cardinality(Spent(jobs[id]))
        BY <2>4, <3>1
      <3>3. sm'[id].current <= 1 + Cardinality(Spent(jobs'[id]))
        BY <2>2, <2>3, <3>2
      <3> QED
        BY <2>4, <3>1, <3>3
    <2>5. CASE sm'[id].current <= 1
      BY <2>2, <2>5
    <2>6. CASE watching' /\ sm'[id].current <= 1 + Cardinality(Spent(jobs'[id]))
      BY <2>6
    <2> QED
      BY <1>1, <2>4, <2>5, <2>6
  <1> QED
    BY <1>1 DEF AheadInv

(* One job changes; one that had completed only loses an event.            *)
LEMMA AheadPut ==
    ASSUME TypeInv, AheadInv, NEW id \in JobIds, NEW s \in Steps, NEW n \in Copies(id, s),
           NEW r \in FluxJob,
           jobs[id][s][n].status = "COMPLETED" =>
               r.status = "COMPLETED" /\ r.pending <= jobs[id][s][n].pending,
           /\ r.status = "SCHED" => r.pending = 0
           /\ r.status \in {"RUN", "CLEANUP"} => r.pending <= 1
           /\ r.status = "COMPLETED" => r.pending <= 2,
           jobs' = Put(jobs, id, s, n, r)
    PROVE  KeepsCompleted /\ PendingBound'
  <1>1. jobs \in [JobIds -> SequenceJobs] /\ n \in DOMAIN jobs[id][s]
    BY DEF TypeInv, Copies
  <1>2. \A i \in JobIds, t \in Steps :
           /\ DOMAIN jobs'[i][t] = DOMAIN jobs[i][t]
           /\ \A k \in DOMAIN jobs[i][t] :
                 jobs'[i][t][k] = IF i = id /\ t = s /\ k = n THEN r ELSE jobs[i][t][k]
    BY <1>1, PutFacts
  <1>3. \A i \in JobIds, t \in Steps : \A k \in DOMAIN jobs[i][t] : jobs[i][t][k].pending \in Nat
    <2>1. ASSUME NEW i \in JobIds, NEW t \in Steps, NEW k \in DOMAIN jobs[i][t]
          PROVE  jobs[i][t][k].pending \in Nat
      <3>1. jobs[i][t] \in Seq(FluxJob)
        BY <1>1 DEF SequenceJobs
      <3>2. jobs[i][t][k] \in FluxJob
        BY <3>1
      <3> QED
        BY <3>2 DEF FluxJob, FluxFields
    <2> QED
      BY <2>1
  <1>4. KeepsCompleted
    BY <1>1, <1>2, <1>3 DEF KeepsCompleted, Copies
  <1>5. PendingBound'
    BY <1>1, <1>2 DEF AheadInv, PendingBound, Copies
  <1> QED
    BY <1>4, <1>5

(* A step is entered: a new job has no event yet.                          *)
LEMMA AheadEnter ==
    ASSUME TypeInv, AheadInv, NEW j \in [JobIds -> SequenceJobs],
           NEW id \in JobIds, NEW m \in Machine, m.repeat = {}, EnterNext(id, m, j),
           \A i \in JobIds, t \in Steps : \A k \in DOMAIN j[i][t] :
              /\ j[i][t][k].status = "SCHED" => j[i][t][k].pending = 0
              /\ j[i][t][k].status \in {"RUN", "CLEANUP"} => j[i][t][k].pending <= 1
              /\ j[i][t][k].status = "COMPLETED" => j[i][t][k].pending <= 2
    PROVE  /\ PendingBound'
           /\ \A i \in JobIds, t \in Steps : \A k \in DOMAIN j[i][t] :
                 k \in DOMAIN jobs'[i][t] /\ jobs'[i][t][k] = j[i][t][k]
  <1>1. jobs' = j \/ \E e \in Steps : jobs' = Submitted(id, e, j)
    BY EnterFacts
  <1>2. CASE jobs' = j
    BY <1>2 DEF PendingBound, Copies
  <1>3. ASSUME NEW e \in Steps, jobs' = Submitted(id, e, j)
        PROVE  /\ PendingBound'
               /\ \A i \in JobIds, t \in Steps : \A k \in DOMAIN j[i][t] :
                     k \in DOMAIN jobs'[i][t] /\ jobs'[i][t][k] = j[i][t][k]
    <2>1. \A i \in JobIds, t \in Steps :
             /\ DOMAIN j[i][t] \subseteq DOMAIN jobs'[i][t]
             /\ \A k \in DOMAIN jobs'[i][t] :
                   jobs'[i][t][k] = IF k \in DOMAIN j[i][t] THEN j[i][t][k] ELSE Fresh
      BY <1>3, AddFacts
    <2>2. Fresh.status = "SCHED" /\ Fresh.pending = 0
      BY DEF Fresh
    <2>3. PendingBound'
      BY <2>1, <2>2 DEF PendingBound, Copies
    <2> QED
      BY <2>1, <2>3
  <1> QED
    BY <1>1, <1>2, <1>3

(* An event is handled: a machine that moves spends an event of a job that *)
(* has completed.                                                          *)
LEMMA AheadHandle ==
    ASSUME TypeInv, TypeInv', AheadInv, NEW id \in JobIds, NEW s \in Steps,
           NEW n \in Copies(id, s), HandleEvent(id, s, n)
    PROVE  AheadInv'
  <1> DEFINE j == Delivered(id, s, n)
             old == jobs[id][s][n]
  <1>0. /\ jobs \in [JobIds -> SequenceJobs] /\ n \in DOMAIN jobs[id][s]
        /\ sm \in [JobIds -> Machine] /\ tracked \subseteq JobIds
        /\ pc = "watch" /\ watching /\ watching' /\ old.pending > 0
    BY DEF HandleEvent, TypeInv, Copies
  <1>1. PICK p \in Nat : p = old.pending - 1
    <2>1. jobs[id][s] \in Seq(FluxJob)
      BY <1>0 DEF SequenceJobs
    <2>2. old \in FluxJob
      BY <1>0, <2>1
    <2> QED
      BY <1>0, <2>2 DEF FluxJob, FluxFields
  <1> DEFINE r == [old EXCEPT !.pending = @ - 1]
  <1>2. r \in FluxJob /\ j = Put(jobs, id, s, n, r) /\ r.status = old.status /\ r.pending = p
    BY <1>0, <1>1, DeliveredFacts
  <1> HIDE DEF j, r, old
  <1>3. /\ j \in [JobIds -> SequenceJobs]
        /\ \A i \in JobIds, t \in Steps :
              /\ DOMAIN j[i][t] = DOMAIN jobs[i][t]
              /\ \A k \in DOMAIN jobs[i][t] :
                    j[i][t][k] = IF i = id /\ t = s /\ k = n THEN r ELSE jobs[i][t][k]
    BY <1>0, <1>2, PutFacts
  <1>4. \A i \in JobIds, t \in Steps : \A k \in DOMAIN jobs[i][t] : jobs[i][t][k].pending \in Nat
    <2>1. ASSUME NEW i \in JobIds, NEW t \in Steps, NEW k \in DOMAIN jobs[i][t]
          PROVE  jobs[i][t][k].pending \in Nat
      <3>1. jobs[i][t] \in Seq(FluxJob)
        BY <1>0 DEF SequenceJobs
      <3>2. jobs[i][t][k] \in FluxJob
        BY <3>1
      <3> QED
        BY <3>2 DEF FluxJob, FluxFields
    <2> QED
      BY <2>1
  <1>5. \A i \in JobIds, t \in Steps : \A k \in DOMAIN j[i][t] :
           /\ j[i][t][k].status = "SCHED" => j[i][t][k].pending = 0
           /\ j[i][t][k].status \in {"RUN", "CLEANUP"} => j[i][t][k].pending <= 1
           /\ j[i][t][k].status = "COMPLETED" => j[i][t][k].pending <= 2
    <2>1. \A i \in JobIds, t \in Steps : \A k \in DOMAIN jobs[i][t] :
             /\ jobs[i][t][k].status = "SCHED" => jobs[i][t][k].pending = 0
             /\ jobs[i][t][k].status \in {"RUN", "CLEANUP"} => jobs[i][t][k].pending <= 1
             /\ jobs[i][t][k].status = "COMPLETED" => jobs[i][t][k].pending <= 2
      BY DEF AheadInv, PendingBound, Copies
    <2>2. /\ r.status = "SCHED" => r.pending = 0
          /\ r.status \in {"RUN", "CLEANUP"} => r.pending <= 1
          /\ r.status = "COMPLETED" => r.pending <= 2
      <3>1. /\ old.status = "SCHED" => old.pending = 0
            /\ old.status \in {"RUN", "CLEANUP"} => old.pending <= 1
            /\ old.status = "COMPLETED" => old.pending <= 2
            /\ old.pending \in Nat
        BY <1>0, <1>4, <2>1 DEF old
      <3> QED
        BY <1>0, <1>1, <1>2, <3>1
    <2> QED
      BY <1>3, <2>1, <2>2
  <1>6. \A i \in JobIds, t \in Steps : \A k \in DOMAIN jobs[i][t] :
           /\ k \in DOMAIN j[i][t] /\ j[i][t][k].status = jobs[i][t][k].status
           /\ j[i][t][k].pending <= jobs[i][t][k].pending
    BY <1>1, <1>2, <1>3, <1>4 DEF old
  <1>7. CASE EnterNext(id, MarkSucceeded(sm[id]), j) /\ tracked' = tracked
             /\ old.status = "COMPLETED"
    <2> DEFINE m == MarkSucceeded(sm[id])
    <2>1. m \in Machine /\ m.repeat = {} /\ m.current = sm[id].current
      BY SucceededType
    <2> HIDE DEF m
    <2>2. EnterNext(id, m, j)
      BY <1>7 DEF m
    <2>3. /\ PendingBound'
          /\ \A i \in JobIds, t \in Steps : \A k \in DOMAIN j[i][t] :
                k \in DOMAIN jobs'[i][t] /\ jobs'[i][t][k] = j[i][t][k]
      BY <1>3, <1>5, <2>1, <2>2, AheadEnter
    <2>4. /\ \A i \in JobIds : i # id => sm'[i] = sm[i]
          /\ sm'[id].current = sm[id].current + 1
      BY <1>3, <2>1, <2>2, EnterFacts
    <2>5. KeepsCompleted
      BY <1>6, <2>3 DEF KeepsCompleted, Copies
    <2>6. Cardinality(Spent(jobs[id])) + 1 <= Cardinality(Spent(jobs'[id]))
      <3>1. jobs[id] \in SequenceJobs /\ jobs'[id] \in SequenceJobs
        BY DEF TypeInv
      <3>2. jobs'[id][s][n] = r
        BY <1>0, <1>3, <2>3
      <3>3. old.pending \in {1, 2}
        <4>1. old.pending <= 2 /\ old.pending \in Nat
          BY <1>0, <1>4, <1>7 DEF AheadInv, PendingBound, Copies, old
        <4> QED
          BY <1>0, <4>1
      <3> QED
        BY <1>0, <1>1, <1>2, <1>7, <2>5, <3>1, <3>2, <3>3, SpentOne
           DEF KeepsCompleted, Copies, old
    <2>7. id \in tracked => sm'[id].current <= 1 + Cardinality(Spent(jobs'[id]))
      <3>1. id \in tracked => sm[id].current <= 1 + Cardinality(Spent(jobs[id]))
        BY DEF AheadInv
      <3>2. /\ Cardinality(Spent(jobs[id])) \in Nat /\ Cardinality(Spent(jobs'[id])) \in Nat
            /\ sm[id].current \in Nat
        <4>1. jobs[id] \in SequenceJobs /\ jobs'[id] \in SequenceJobs /\ sm[id] \in Machine
          BY DEF TypeInv
        <4> QED
          BY <4>1, CompletedFinite, NumStepsAssumption DEF Machine, Start, Complete
      <3> QED
        BY <2>4, <2>6, <3>1, <3>2
    <2>8. \A i \in tracked' : \/ i \in tracked /\ sm'[i] = sm[i]
                              \/ sm'[i].current <= 1
                              \/ watching' /\ sm'[i].current <= 1 + Cardinality(Spent(jobs'[i]))
      BY <1>0, <1>7, <2>4, <2>7
    <2> QED
      BY <1>0, <2>3, <2>5, <2>8, AheadFrame
  <1>8. CASE jobs' = j /\ \A i \in tracked' : i \in tracked /\ sm'[i] = sm[i]
    <2>1. KeepsCompleted
      BY <1>6, <1>8 DEF KeepsCompleted, Copies
    <2>2. PendingBound'
      BY <1>5, <1>8 DEF PendingBound, Copies
    <2> QED
      BY <1>0, <1>8, <2>1, <2>2, AheadFrame
  <1>9. CASE jobs' = j /\ tracked' = tracked \ {id} /\ sm' = [sm EXCEPT ![id] = NewMachine]
    <2>1. \A i \in tracked' : i \in tracked /\ sm'[i] = sm[i]
      BY <1>0, <1>9
    <2> QED
      BY <1>8, <1>9, <2>1
  <1>10. CASE jobs' = j /\ UNCHANGED <<sm, tracked>>
    BY <1>8, <1>10
  <1> QED
    BY <1>7, <1>9, <1>10 DEF HandleEvent, FluxSucceeded, j, old

LEMMA AheadStep ==
    ASSUME TypeInv, TypeInv', AheadInv, [Next]_vars
    PROVE  AheadInv'
  <1>0. /\ jobs \in [JobIds -> SequenceJobs] /\ tracked \subseteq JobIds
        /\ sm \in [JobIds -> Machine] /\ PendingBound
        /\ pc = "watch" => watching
    BY DEF TypeInv, AheadInv
  <1>1. ASSUME NEW id \in JobIds, NEW m \in Machine, m.repeat = {}, m.current = 0,
               EnterNext(id, m, jobs), UNCHANGED <<pc, watching>>, tracked' = tracked \cup {id}
        PROVE  AheadInv'
    <2>1. /\ PendingBound'
          /\ \A i \in JobIds, t \in Steps : \A k \in DOMAIN jobs[i][t] :
                k \in DOMAIN jobs'[i][t] /\ jobs'[i][t][k] = jobs[i][t][k]
      BY <1>0, <1>1, AheadEnter DEF PendingBound, Copies
    <2>2. KeepsCompleted
      <3>1. ASSUME NEW i \in JobIds, NEW t \in Steps, NEW k \in DOMAIN jobs[i][t]
            PROVE  jobs[i][t][k].pending \in Nat
        <4>1. jobs[i][t] \in Seq(FluxJob)
          BY <1>0 DEF SequenceJobs
        <4>2. jobs[i][t][k] \in FluxJob
          BY <4>1
        <4> QED
          BY <4>2 DEF FluxJob, FluxFields
      <3> QED
        BY <2>1, <3>1 DEF KeepsCompleted, Copies
    <2>3. /\ \A i \in JobIds : i # id => sm'[i] = sm[i]
          /\ sm'[id].current = 1
      BY <1>0, <1>1, EnterFacts
    <2>4. \A i \in tracked' : (i \in tracked /\ sm'[i] = sm[i]) \/ sm'[i].current <= 1
      BY <1>0, <1>1, <2>3
    <2> QED
      BY <1>1, <2>1, <2>2, <2>4, AheadFrame
  <1>2. ASSUME NEW id \in JobIds, NEW s \in Steps, ResumeSequence(id, s) PROVE AheadInv'
    <2>1. /\ EnterNext(id, MarkRunning(NewMachine, s), jobs)
          /\ tracked' = tracked \cup {id} /\ UNCHANGED <<pc, watching>>
      BY <1>2, ResumeFacts
    <2>2. PICK m \in Machine : /\ m.repeat = {} /\ m.current = 0
                               /\ m = MarkRunning(NewMachine, s)
      BY RunningType
    <2> QED
      BY <1>1, <2>1, <2>2
  <1>3. ASSUME NEW id \in JobIds, SubmitSequence(id) PROVE AheadInv'
    BY <1>1, <1>3, NewMachineType DEF SubmitSequence
  <1>4. CASE InitState
    <2>1. \A id \in JobIds : sm'[id].current = 0
      BY <1>4, NewMachineType DEF InitState, NewMachine
    <2>2. jobs' = jobs /\ tracked' \subseteq JobIds
      BY <1>4 DEF InitState
    <2>3. \A id \in JobIds : Cardinality(Spent(jobs'[id])) \in Nat
      BY <1>0, <2>2, CompletedFinite
    <2>4. PendingBound'
      BY <1>0, <2>2 DEF PendingBound, Copies
    <2>5. \A id \in tracked' : 0 <= 1 + Cardinality(Spent(jobs'[id]))
      BY <2>2, <2>3
    <2> QED
      BY <2>1, <2>2, <2>4, <2>5 DEF AheadInv
  <1>5. ASSUME UNCHANGED <<jobs, tracked, sm>>,
               ~ watching' /\ pc' # "exited" => ~ watching /\ pc # "exited"
        PROVE  AheadInv'
    BY <1>5 DEF AheadInv, PendingBound, Copies
  <1>6. CASE ResumeDone \/ CheckComplete \/ NewJobs \/ UNCHANGED vars
    <2>1. UNCHANGED <<jobs, tracked, sm>>
      BY <1>6 DEF ResumeDone, CheckComplete, NewJobs, vars, machineVars
    <2>2. ~ watching' /\ pc' # "exited" => ~ watching /\ pc # "exited"
      BY <1>6 DEF ResumeDone, CheckComplete, NewJobs, vars, TypeInv
    <2> QED
      BY <1>5, <2>1, <2>2
  <1>7. CASE Watch
    <2>1. UNCHANGED <<tracked, sm>> /\ watching' /\ pc = "submit"
      BY <1>7 DEF Watch, machineVars
    <2>2. CASE watching
      BY <1>5, <1>7, <2>1, <2>2 DEF Watch
    <2>3. CASE ~ watching
      <3>1. \A id \in JobIds, s \in Steps :
               /\ DOMAIN jobs'[id][s] = Copies(id, s)
               /\ \A n \in Copies(id, s) :
                     /\ jobs'[id][s][n].status = jobs[id][s][n].status
                     /\ jobs'[id][s][n].pending = jobs[id][s][n].events
                     /\ Told(jobs[id][s][n])
        BY <1>7, <2>3, ReplayFacts
      <3>2. PendingBound'
        BY <3>1 DEF PendingBound, Copies, Told
      <3>3. ASSUME NEW id \in tracked
            PROVE  sm[id].current <= 1 + Cardinality(Spent(jobs'[id]))
        <4>1. sm[id].current <= 1 /\ sm[id].current \in Nat
          BY <1>0, <2>1, <2>3, NumStepsAssumption DEF AheadInv, Machine, Start, Complete
        <4>2. Cardinality(Spent(jobs'[id])) \in Nat
          BY <1>0, CompletedFinite DEF TypeInv
        <4> QED
          BY <4>1, <4>2
      <3> QED
        BY <2>1, <3>2, <3>3 DEF AheadInv
    <2> QED
      BY <2>2, <2>3
  <1>8. ASSUME NEW id \in JobIds, NEW s \in Steps, NEW n \in Copies(id, s),
               JobRuns(id, s, n) \/ JobFails(id, s, n) \/ JobException(id, s, n)
        PROVE  AheadInv'
    <2>1. UNCHANGED <<pc, watching, tracked, sm>>
      BY <1>8, JournalFacts
    <2>2. PICK r \in FluxJob :
             LET job == jobs[id][s][n] IN
             /\ jobs' = Put(jobs, id, s, n, r)
             /\ FluxActive(job.status)
             /\ r.pending = job.pending \/ r.pending = job.pending + 1
             /\ \/ r.status = "RUN" /\ job.status = "SCHED"
                \/ r.status = "CLEANUP" /\ job.status = "RUN" /\ r.pending = job.pending
                \/ r.status = "COMPLETED" /\ job.status = "CLEANUP"
                \/ r.status \in {"KILLED", "CANCELED", "FAILED"}
      BY <1>8, JournalFacts
    <2>3. LET job == jobs[id][s][n] IN
          /\ job.status = "SCHED" => job.pending = 0
          /\ job.status \in {"RUN", "CLEANUP"} => job.pending <= 1
      BY <1>0 DEF PendingBound
    <2>4. jobs[id][s][n].pending \in Nat
      <3>1. jobs[id][s] \in Seq(FluxJob)
        BY <1>0 DEF SequenceJobs
      <3>2. jobs[id][s][n] \in FluxJob
        BY <3>1 DEF Copies
      <3> QED
        BY <3>2 DEF FluxJob, FluxFields
    <2>5. /\ r.status # "SCHED"
          /\ r.status \in {"RUN", "CLEANUP"} => r.pending <= 1
          /\ r.status = "COMPLETED" => r.pending <= 2
      BY <2>2, <2>3, <2>4
    <2>6. jobs[id][s][n].status # "COMPLETED"
      BY <2>2 DEF FluxActive
    <2>7. KeepsCompleted /\ PendingBound'
      BY <2>2, <2>5, <2>6, AheadPut
    <2> QED
      BY <2>1, <2>7, AheadFrame
  <1>9. ASSUME NEW id \in JobIds, NEW s \in Steps, NEW n \in Copies(id, s), IgnoreEvent(id, s, n)
        PROVE  AheadInv'
    <2> DEFINE job == jobs[id][s][n]
               r == [job EXCEPT !.pending = @ - 1]
    <2>1. /\ r \in FluxJob /\ r.status = job.status /\ r.pending = job.pending - 1
          /\ jobs' = Put(jobs, id, s, n, r)
          /\ UNCHANGED <<tracked, sm, watching, pc>>
      BY <1>9, DeliveredFacts DEF IgnoreEvent, machineVars
    <2>2. job.pending \in Nat /\ r.pending \in Nat
      <3>1. jobs[id][s] \in Seq(FluxJob)
        BY <1>0 DEF SequenceJobs
      <3>2. job \in FluxJob
        BY <3>1 DEF Copies
      <3> QED
        BY <2>1, <3>2 DEF FluxJob, FluxFields
    <2>3. /\ job.status = "SCHED" => job.pending = 0
          /\ job.status \in {"RUN", "CLEANUP"} => job.pending <= 1
          /\ job.status = "COMPLETED" => job.pending <= 2
      BY <1>0 DEF PendingBound
    <2> HIDE DEF r
    <2>4. /\ r.status = "SCHED" => r.pending = 0
          /\ r.status \in {"RUN", "CLEANUP"} => r.pending <= 1
          /\ r.status = "COMPLETED" => r.pending <= 2
          /\ r.pending <= job.pending
      BY <2>1, <2>2, <2>3
    <2>5. KeepsCompleted /\ PendingBound'
      BY <2>1, <2>4, AheadPut
    <2> QED
      BY <2>1, <2>5, AheadFrame
  <1>10. ASSUME NEW id \in JobIds, NEW s \in Steps, NEW n \in Copies(id, s), HandleEvent(id, s, n)
         PROVE  AheadInv'
    BY <1>10, AheadHandle
  <1>11. CASE Restart
    BY <1>0, <1>11 DEF Restart, AheadInv, PendingBound, Copies
  <1> QED
    BY <1>2, <1>3, <1>4, <1>6, <1>7, <1>8, <1>9, <1>10, <1>11
       DEF Next, Step, Receive, Progress

(***************************************************************************)
(* A start event that is handled late finds its job completed and moves    *)
(* the machine, and so does the clean event, but nothing else does: no     *)
(* machine is further than two moves per completed job of its sequence,    *)
(* across restarts that replay the journal and run steps again.            *)
(***************************************************************************)
THEOREM AheadBoundHolds == Spec => []AheadBound
  <1>1. Init => AheadInv
    <2> SUFFICES ASSUME Init PROVE AheadInv
      OBVIOUS
    <2>1. \A id \in JobIds, s \in Steps : Copies(id, s) = {}
      BY DEF Init, Copies
    <2> QED
      BY <2>1 DEF Init, AheadInv, PendingBound
  <1>2. TypeInv /\ TypeInv' /\ AheadInv /\ [Next]_vars => AheadInv'
    BY AheadStep
  <1>3. TypeInv /\ AheadInv => AheadBound
    <2> SUFFICES ASSUME TypeInv, AheadInv, NEW id \in tracked
                 PROVE  sm[id].current <= 1 + 2 * Cardinality(CompletedJobs(id))
      BY DEF AheadBound
    <2>1. jobs[id] \in SequenceJobs /\ sm[id].current \in Nat
      BY NumStepsAssumption DEF TypeInv, Machine, Start, Complete
    <2>2. sm[id].current <= 1 + Cardinality(Spent(jobs[id]))
      BY DEF AheadInv
    <2>3. /\ Cardinality(Spent(jobs[id])) \in Nat
          /\ Cardinality(Spent(jobs[id])) <= 2 * Cardinality(CompletedOf(jobs[id]))
          /\ Cardinality(CompletedOf(jobs[id])) \in Nat
      BY <2>1, CompletedFinite, FS_CardinalityType
    <2>4. CompletedJobs(id) = CompletedOf(jobs[id])
      BY DEF CompletedJobs, CompletedOf, Copies
    <2> QED
      BY <2>1, <2>2, <2>3, <2>4
  <1> QED
    BY <1>1, <1>2, <1>3, TypeHolds, PTL DEF Spec
=============================================================================
