--------------------------- MODULE StepOrder_proofs ---------------------------
(***************************************************************************)
(* StepOrder is an invariant of WorkflowManager when no event is delivered *)
(* twice, no rule repeats a step and no id is drawn twice: for every       *)
(* number of sequences and steps, and however often the manager crashes,   *)
(* Jobs fail and submissions go wrong.                                     *)
(***************************************************************************)
EXTENDS WorkflowManager_proofs

Premise ==
    /\ MaxTouches = 0
    /\ FreshIds
    /\ \A r \in Rules : r.action # "repeat"

-----------------------------------------------------------------------------
(* A queue of statuses, before and after one is taken or added.            *)

(* Taking the head off a queue whose success is last.                      *)
LEMMA TailQueue ==
    ASSUME NEW q \in Seq(Listed), q # << >>, SuccessIsLast(q)
    PROVE  /\ SuccessIsLast(Tail(q))
           /\ Head(q) = "succeeded" => ~ HasSuccess(Tail(q)) /\ HasSuccess(q)
           /\ Head(q) # "succeeded" => (HasSuccess(Tail(q)) <=> HasSuccess(q))
  <1>1. /\ Len(q) \in Nat \ {0}
        /\ DOMAIN q = 1 .. Len(q)
        /\ DOMAIN Tail(q) = 1 .. (Len(q) - 1)
        /\ Len(Tail(q)) = Len(q) - 1
        /\ Head(q) = q[1]
    OBVIOUS
  <1>2. \A i \in 1 .. (Len(q) - 1) : Tail(q)[i] = q[i + 1]
    OBVIOUS
  <1>3. \A i \in 2 .. Len(q) : i - 1 \in 1 .. (Len(q) - 1) /\ q[i] = Tail(q)[i - 1]
    BY <1>1, <1>2
  <1>4. SuccessIsLast(Tail(q))
    BY <1>1, <1>2 DEF SuccessIsLast
  <1>5. ASSUME Head(q) = "succeeded"
        PROVE  ~ HasSuccess(Tail(q)) /\ HasSuccess(q)
    BY <1>1, <1>5 DEF SuccessIsLast, HasSuccess
  <1>6. ASSUME Head(q) # "succeeded"
        PROVE  HasSuccess(Tail(q)) <=> HasSuccess(q)
    <2>1. ASSUME HasSuccess(Tail(q)) PROVE HasSuccess(q)
      <3>1. PICK i \in 1 .. (Len(q) - 1) : Tail(q)[i] = "succeeded"
        BY <1>1, <2>1 DEF HasSuccess
      <3>2. q[i + 1] = "succeeded" /\ i + 1 \in DOMAIN q
        BY <1>1, <1>2, <3>1
      <3> QED
        BY <3>2 DEF HasSuccess
    <2>2. ASSUME HasSuccess(q) PROVE HasSuccess(Tail(q))
      <3>1. PICK i \in 1 .. Len(q) : q[i] = "succeeded"
        BY <1>1, <2>2 DEF HasSuccess
      <3>2. i \in 2 .. Len(q)
        BY <1>1, <1>6, <3>1
      <3>3. Tail(q)[i - 1] = "succeeded" /\ i - 1 \in DOMAIN Tail(q)
        BY <1>1, <1>3, <3>1, <3>2
      <3> QED
        BY <3>3 DEF HasSuccess
    <2> QED
      BY <2>1, <2>2
  <1> QED
    BY <1>4, <1>5, <1>6

(* Adding a status to a queue without a success.                           *)
LEMMA AppendQueue ==
    ASSUME NEW q \in Seq(Listed), NEW st \in Listed, ~ HasSuccess(q)
    PROVE  /\ SuccessIsLast(Append(q, st))
           /\ HasSuccess(Append(q, st)) <=> st = "succeeded"
  <1>1. /\ Len(q) \in Nat
        /\ DOMAIN q = 1 .. Len(q)
        /\ DOMAIN Append(q, st) = 1 .. (Len(q) + 1)
        /\ Len(Append(q, st)) = Len(q) + 1
        /\ \A i \in 1 .. Len(q) : Append(q, st)[i] = q[i]
        /\ Append(q, st)[Len(q) + 1] = st
    OBVIOUS
  <1> QED
    BY <1>1 DEF SuccessIsLast, HasSuccess

(* The empty queue holds no success.                                       *)
LEMMA EmptyQueue == ~ HasSuccess(<< >>) /\ SuccessIsLast(<< >>)
  BY DEF HasSuccess, SuccessIsLast

(* A queue of one status, what the replay of the watch holds for a Job.    *)
LEMMA SingleQueue ==
    ASSUME NEW st
    PROVE  SuccessIsLast(<<st>>) /\ (HasSuccess(<<st>>) <=> st = "succeeded")
  <1>1. DOMAIN <<st>> = {1} /\ <<st>>[1] = st /\ Len(<<st>>) = 1
    OBVIOUS
  <1> QED
    BY <1>1 DEF HasSuccess, SuccessIsLast

-----------------------------------------------------------------------------
(* Counting steps.                                                         *)

(* Sets of steps are finite.                                               *)
LEMMA StepSets ==
    ASSUME NEW A \in SUBSET Steps
    PROVE  IsFiniteSet(A) /\ Cardinality(A) \in Nat
  <1>1. 1 \in Int /\ NumSteps \in Int
    BY NumStepsAssumption
  <1>2. IsFiniteSet(1 .. NumSteps)
    BY <1>1, FS_Interval
  <1>3. IsFiniteSet(A)
    BY <1>2, FS_Subset DEF Steps
  <1> QED
    BY <1>3, FS_CardinalityType

(* A subset of a set of steps is no larger.                                *)
LEMMA SubsetCount ==
    ASSUME NEW A \in SUBSET Steps, NEW B \in SUBSET A
    PROVE  Cardinality(B) <= Cardinality(A)
  BY StepSets, FS_Subset

(* A subset that lacks an element is smaller.                              *)
LEMMA ProperCount ==
    ASSUME NEW A \in SUBSET Steps, NEW x \in A, NEW B \in SUBSET (A \ {x})
    PROVE  Cardinality(B) + 1 <= Cardinality(A)
  <1>1. Cardinality(A \ {x}) = Cardinality(A) - 1
    BY StepSets, FS_RemoveElement
  <1>2. Cardinality(B) <= Cardinality(A \ {x})
    BY SubsetCount
  <1> QED
    BY <1>1, <1>2, StepSets

(* One more step adds at most one, and exactly one if it is new.           *)
LEMMA AddedCount ==
    ASSUME NEW A \in SUBSET Steps, NEW x \in Steps, NEW B \in SUBSET (A \cup {x})
    PROVE  /\ Cardinality(B) <= Cardinality(A) + 1
           /\ x \notin A => Cardinality(A \cup {x}) = Cardinality(A) + 1
  <1>1. Cardinality(A \cup {x}) = IF x \in A THEN Cardinality(A) ELSE Cardinality(A) + 1
    BY StepSets, FS_AddElement
  <1>2. Cardinality(B) <= Cardinality(A \cup {x})
    BY SubsetCount
  <1> QED
    BY <1>1, <1>2, StepSets

(* A set of steps that holds every step below its own holds every step up  *)
(* to its size.                                                            *)
LEMMA PrefixCount ==
    ASSUME NEW D \in SUBSET Steps, \A s \in D, t \in Steps : t < s => t \in D,
           NEW c \in Steps, c <= Cardinality(D)
    PROVE  c \in D
  <1> SUFFICES ASSUME c \notin D PROVE FALSE
    OBVIOUS
  <1>1. D \subseteq 1 .. (c - 1)
    BY NumStepsAssumption DEF Steps
  <1>2. IsFiniteSet(1 .. (c - 1)) /\ Cardinality(1 .. (c - 1)) = c - 1
    <2>1. c - 1 \in Nat /\ 1 \in Int /\ c - 1 \in Int
      BY NumStepsAssumption DEF Steps
    <2> QED
      BY <2>1, FS_Interval
  <1>3. Cardinality(D) <= c - 1
    BY <1>1, <1>2, FS_Subset
  <1> QED
    BY <1>3, StepSets, NumStepsAssumption DEF Steps

(* The numbers of CreditBound, in this state and in the next.              *)
LEMMA Counts ==
    ASSUME NEW id \in JobIds
    PROVE  /\ TypeOK => /\ done[id] \in SUBSET Steps /\ Credit(id) \in SUBSET Steps
                        /\ Cardinality(done[id]) \in Nat /\ Cardinality(Credit(id)) \in Nat
                        /\ sm[id].current \in Nat
           /\ TypeOK' => /\ done'[id] \in SUBSET Steps /\ Credit(id)' \in SUBSET Steps
                         /\ Cardinality(done'[id]) \in Nat /\ Cardinality(Credit(id)') \in Nat
                         /\ sm'[id].current \in Nat
  <1>0. \A m \in Machine : m.current \in Nat
    BY NumStepsAssumption DEF Machine, Start, Complete
  <1>1. ASSUME TypeOK
        PROVE  /\ done[id] \in SUBSET Steps /\ Credit(id) \in SUBSET Steps
               /\ sm[id].current \in Nat
    <2>1. done[id] \in SUBSET Steps /\ sm[id] \in Machine
      BY <1>1 DEF TypeOK
    <2>2. Credit(id) \subseteq done[id]
      BY DEF Credit
    <2> QED
      BY <1>0, <2>1, <2>2
  <1>2. ASSUME TypeOK'
        PROVE  /\ done'[id] \in SUBSET Steps /\ Credit(id)' \in SUBSET Steps
               /\ sm'[id].current \in Nat
    <2>1. done'[id] \in SUBSET Steps /\ sm'[id] \in Machine
      BY <1>2 DEF TypeOK
    <2>2. Credit(id)' \subseteq done'[id]
      BY DEF Credit
    <2> QED
      BY <1>0, <2>1, <2>2
  <1> QED
    BY <1>1, <1>2, StepSets

-----------------------------------------------------------------------------
(* Steps that leave a sequence's Jobs alone.                               *)

Ended == {"exited", "finished"}

(* A sequence none of whose state changes keeps its invariant.             *)
LEMMA Frame ==
    ASSUME NEW j \in JobIds, SequenceInv(j),
           cluster'[j] = cluster[j], stream'[j] = stream[j], done'[j] = done[j],
           sm'[j] = sm[j], j \in tracked' => j \in tracked, j \in used => j \in used',
           ~ watching' => ~ watching,
           ~ watching' /\ pc' \notin Ended => pc \notin Ended
    PROVE  SequenceInv(j)'
  <1>1. InOrder(j)' /\ DoneIsPrefix(j)' /\ FreshIsBlank(j)' /\ sm'[j].repeat = {}
    BY DEF SequenceInv, InOrder, DoneIsPrefix, FreshIsBlank
  <1>2. Undelivered(j)' = Undelivered(j)
    BY DEF Undelivered
  <1>3. CompletionIsLast(j)'
    BY <1>2 DEF SequenceInv, CompletionIsLast
  <1>4. QuietStart(j)'
    BY DEF SequenceInv, QuietStart, Ended
  <1>5. Credit(j)' = Credit(j)
    BY <1>2 DEF Credit
  <1>6. CreditBound(j)'
    BY <1>5 DEF SequenceInv, CreditBound
  <1> QED
    BY <1>1, <1>3, <1>4, <1>6 DEF SequenceInv

(* The manager starts, stops or opens the watch: what was in the stream is *)
(* gone, and the watch replays the status of every Job.                    *)
LEMMA Restream ==
    ASSUME TypeOK, TypeOK', NEW j \in JobIds, SequenceInv(j),
           cluster'[j] = cluster[j], done'[j] = done[j], used' = used,
           \A x \in Steps :
              \/ stream'[j][x] = << >>
              \/ /\ stream'[j][x] = <<cluster[j][x]>>
                 /\ watching' /\ cluster[j][x] # "none",
           sm'[j].repeat = {},
           \/ j \notin tracked'
           \/ sm'[j].current <= 1
           \/ /\ sm'[j].current = sm[j].current
              /\ j \in tracked
              /\ pc' \in Ended
              /\ \A x \in Steps : stream'[j][x] = << >>
    PROVE  SequenceInv(j)'
  <1>1. InOrder(j)' /\ DoneIsPrefix(j)' /\ sm'[j].repeat = {}
    BY DEF SequenceInv, InOrder, DoneIsPrefix
  <1>2. FreshIsBlank(j)'
    BY DEF SequenceInv, FreshIsBlank
  <1>3. \A x \in Steps :
           SuccessIsLast(stream'[j][x])
           /\ (HasSuccess(stream'[j][x]) => cluster[j][x] = "succeeded")
    BY EmptyQueue, SingleQueue
  <1>4. \A x \in Undelivered(j)' : cluster[j][x] = "succeeded" /\ x \in done[j]
    BY <1>3 DEF Undelivered, SequenceInv, DoneIsPrefix
  <1>5. CompletionIsLast(j)'
    BY <1>3, <1>4 DEF CompletionIsLast
  <1>6. QuietStart(j)'
    BY DEF QuietStart, Ended
  <1>7. CreditBound(j)'
    <2> SUFFICES ASSUME j \in tracked'
                 PROVE  sm'[j].current + Cardinality(Credit(j)') <= Cardinality(done[j]) + 1
      BY DEF CreditBound
    <2>0. done[j] \in SUBSET Steps /\ sm'[j].current \in Nat
      BY Counts
    <2>1. Credit(j)' \subseteq done[j]
      BY DEF Credit
    <2>2. Cardinality(Credit(j)') \in Nat /\ Cardinality(done[j]) \in Nat
      BY <2>0, <2>1, StepSets
    <2>3. CASE sm'[j].current <= 1
      <3>1. Cardinality(Credit(j)') <= Cardinality(done[j])
        BY <2>0, <2>1, SubsetCount
      <3> QED
        BY <2>0, <2>2, <2>3, <3>1
    <2>4. CASE /\ sm'[j].current = sm[j].current
               /\ j \in tracked
               /\ \A x \in Steps : stream'[j][x] = << >>
      <3>1. Undelivered(j)' = {}
        BY <2>4, EmptyQueue DEF Undelivered
      <3>2. Credit(j)' \subseteq Credit(j) /\ Credit(j) \in SUBSET Steps
        BY <2>0, <2>4, <3>1 DEF Credit
      <3>3. Cardinality(Credit(j)') <= Cardinality(Credit(j)) /\ Cardinality(Credit(j)) \in Nat
        BY <3>2, SubsetCount, StepSets
      <3>4. sm[j].current + Cardinality(Credit(j)) <= Cardinality(done[j]) + 1
        BY <2>4 DEF SequenceInv, CreditBound
      <3> QED
        BY <2>0, <2>2, <2>4, <3>3, <3>4
    <2> QED
      BY <2>3, <2>4
  <1> QED
    BY <1>1, <1>2, <1>5, <1>6, <1>7 DEF SequenceInv

-----------------------------------------------------------------------------
(* One event leaves the stream.                                            *)

(* Taking an event off the stream takes at most one completion, its own.   *)
LEMMA Delivered ==
    ASSUME TypeOK, NEW id \in JobIds, NEW s \in Steps, stream[id][s] # << >>,
           SequenceInv(id)
    PROVE  /\ \A j \in JobIds \ {id} : Deliver(id, s)[j] = stream[j]
           /\ \A x \in Steps \ {s} : Deliver(id, s)[id][x] = stream[id][x]
           /\ Deliver(id, s)[id][s] = Tail(stream[id][s])
           /\ SuccessIsLast(Deliver(id, s)[id][s])
           /\ HasSuccess(Deliver(id, s)[id][s]) =>
                 Head(stream[id][s]) # "succeeded" /\ s \in Undelivered(id)
           /\ Head(stream[id][s]) = "succeeded" => s \in Undelivered(id)
           /\ watching /\ id \in used
  <1>1. stream \in Streams
    BY TypeOKParts DEF ClusterOK
  <1>2. stream[id][s] \in Seq(Listed)
    BY <1>1 DEF Streams
  <1>3. SuccessIsLast(stream[id][s])
    BY DEF SequenceInv, CompletionIsLast
  <1>4. watching /\ id \in used
    BY DEF SequenceInv, QuietStart, FreshIsBlank
  <1>5. /\ SuccessIsLast(Tail(stream[id][s]))
        /\ HasSuccess(Tail(stream[id][s])) =>
              Head(stream[id][s]) # "succeeded" /\ HasSuccess(stream[id][s])
        /\ Head(stream[id][s]) = "succeeded" => HasSuccess(stream[id][s])
    BY <1>2, <1>3, TailQueue
  <1>6. /\ \A j \in JobIds \ {id} : Deliver(id, s)[j] = stream[j]
        /\ \A x \in Steps \ {s} : Deliver(id, s)[id][x] = stream[id][x]
        /\ Deliver(id, s)[id][s] = Tail(stream[id][s])
    BY <1>1 DEF Deliver, Streams
  <1> QED
    BY <1>4, <1>5, <1>6 DEF Undelivered

(* An event that moves no machine: ignored, of a Job that neither          *)
(* succeeded nor failed, or the end of a sequence's tracking.              *)
LEMMA DeliverOnly ==
    ASSUME TypeOK, TypeOK', NEW id \in JobIds, NEW s \in Steps, stream[id][s] # << >>,
           SequenceInv(id), cluster' = cluster, done' = done, used' = used,
           stream' = Deliver(id, s), watching' = watching, sm'[id].repeat = {},
           id \in tracked' => id \in tracked /\ sm'[id].current = sm[id].current
    PROVE  SequenceInv(id)'
  <1>0. watching /\ id \in used
    BY Delivered
  <1>1. InOrder(id)' /\ DoneIsPrefix(id)' /\ FreshIsBlank(id)' /\ QuietStart(id)'
    BY <1>0 DEF SequenceInv, InOrder, DoneIsPrefix, FreshIsBlank, QuietStart
  <1>2. Undelivered(id)' \subseteq Undelivered(id)
    <2> SUFFICES ASSUME NEW x \in Steps, HasSuccess(stream'[id][x])
                 PROVE  x \in Undelivered(id)
      BY DEF Undelivered
    <2>1. CASE x = s
      BY <2>1, Delivered
    <2>2. CASE x # s
      BY <2>2, Delivered DEF Undelivered
    <2> QED
      BY <2>1, <2>2
  <1>3. \A x \in Steps : SuccessIsLast(stream'[id][x])
    <2> TAKE x \in Steps
    <2>1. CASE x = s
      BY <2>1, Delivered
    <2>2. CASE x # s
      BY <2>2, Delivered DEF SequenceInv, CompletionIsLast
    <2> QED
      BY <2>1, <2>2
  <1>4. CompletionIsLast(id)'
    BY <1>2, <1>3 DEF SequenceInv, CompletionIsLast
  <1>5. CreditBound(id)'
    <2> SUFFICES ASSUME id \in tracked'
                 PROVE  sm[id].current + Cardinality(Credit(id)') <= Cardinality(done[id]) + 1
      BY DEF CreditBound
    <2>1. Credit(id)' \subseteq Credit(id) /\ Credit(id) \in SUBSET Steps
      BY <1>2 DEF Credit, TypeOK
    <2>2. /\ Cardinality(Credit(id)') <= Cardinality(Credit(id))
          /\ Cardinality(Credit(id)) \in Nat /\ Cardinality(Credit(id)') \in Nat
      BY <2>1, SubsetCount, StepSets
    <2>3. sm[id].current \in Nat /\ Cardinality(done[id]) \in Nat
      BY Counts
    <2> QED
      BY <2>2, <2>3 DEF SequenceInv, CreditBound
  <1> QED
    BY <1>1, <1>4, <1>5 DEF SequenceInv

-----------------------------------------------------------------------------
(* The Job controller.                                                     *)

(* A Job's change of status: a success of a step not done before raises    *)
(* the steps done and the completions outstanding by one each.             *)
LEMMA ProgressInv ==
    ASSUME TypeOK, TypeOK', NEW id \in JobIds, NEW s \in Steps, SequenceInv(id),
           JobProgress(id, s)
    PROVE  SequenceInv(id)'
  <1> DEFINE old == cluster[id][s]
  <1>1. PICK st \in Successors(old) : SetStatus(id, s, st, stream)
    BY DEF JobProgress
  <1>2. /\ old \notin {"none", "succeeded"}
        /\ st \in Status /\ st # "none"
    BY <1>1 DEF Successors, Status
  <1> HIDE DEF old
  <1>3. UNCHANGED <<pc, watching, tracked, sm, used>>
    BY DEF JobProgress, machineVars
  <1>4. /\ cluster'[id][s] = st
        /\ \A x \in Steps \ {s} : cluster'[id][x] = cluster[id][x]
    BY <1>1 DEF SetStatus, TypeOK
  <1>5. done'[id] = IF st = "succeeded" THEN done[id] \cup {s} ELSE done[id]
    BY <1>1 DEF SetStatus, TypeOK
  <1>6. s \notin Undelivered(id) /\ id \in used
    BY <1>2 DEF SequenceInv, CompletionIsLast, FreshIsBlank, old
  <1>7. \A x \in Steps \ {s} : stream'[id][x] = stream[id][x]
    BY <1>1 DEF SetStatus, TypeOK
  <1>8. /\ SuccessIsLast(stream'[id][s])
        /\ HasSuccess(stream'[id][s]) => st = "succeeded"
    <2>1. stream \in Streams
      BY TypeOKParts DEF ClusterOK
    <2>2. stream[id][s] \in Seq(Listed) /\ ~ HasSuccess(stream[id][s])
      BY <1>6, <2>1 DEF Streams, Undelivered
    <2>3. CASE watching /\ IsListed(st)
      <3>1. stream'[id][s] = Append(stream[id][s], st) /\ st \in Listed
        BY <1>1, <1>2, <2>1, <2>3 DEF SetStatus, Streams, Listed
      <3> QED
        BY <2>2, <3>1, AppendQueue
    <2>4. CASE ~ (watching /\ IsListed(st))
      BY <1>1, <2>2, <2>4 DEF SetStatus, SequenceInv, CompletionIsLast
    <2> QED
      BY <2>3, <2>4
  <1>9. ~ watching => stream' = stream
    BY <1>1 DEF SetStatus
  <1>10. InOrder(id)'
    BY <1>2, <1>4, <1>5 DEF SequenceInv, InOrder, old
  <1>11. DoneIsPrefix(id)'
    <2>1. \A t \in Steps : t < s => t \in done[id]
      <3> SUFFICES ASSUME NEW t \in Steps, t < s PROVE t \in done[id]
        OBVIOUS
      <3>1. s > 1 /\ s - 1 \in Steps /\ (t = s - 1 \/ t < s - 1)
        BY NumStepsAssumption DEF Steps
      <3>2. s - 1 \in done[id]
        BY <1>2, <3>1 DEF SequenceInv, InOrder, old
      <3> QED
        BY <3>1, <3>2 DEF SequenceInv, DoneIsPrefix
    <2> QED
      BY <1>4, <1>5, <2>1 DEF SequenceInv, DoneIsPrefix
  <1>12. \A x \in Undelivered(id)' :
            (x = s => st = "succeeded") /\ (x # s => x \in Undelivered(id))
    <2> SUFFICES ASSUME NEW x \in Steps, HasSuccess(stream'[id][x])
                 PROVE  (x = s => st = "succeeded") /\ (x # s => x \in Undelivered(id))
      BY DEF Undelivered
    <2>1. CASE x = s
      BY <1>8, <2>1
    <2>2. CASE x # s
      BY <1>7, <2>2 DEF Undelivered
    <2> QED
      BY <2>1, <2>2
  <1>13. CompletionIsLast(id)'
    <2>1. \A x \in Steps : SuccessIsLast(stream'[id][x])
      BY <1>7, <1>8 DEF SequenceInv, CompletionIsLast
    <2>2. ASSUME NEW x \in Steps, x \in Undelivered(id)'
          PROVE  /\ x \in done'[id]
                 /\ cluster'[id][x] \in {"none", "succeeded"}
                 /\ id \in tracked' /\ cluster'[id][x] = "none" => x <= sm'[id].current
      <3>1. CASE x = s
        BY <1>4, <1>5, <1>12, <2>2, <3>1
      <3>2. CASE x # s
        BY <1>3, <1>4, <1>5, <1>12, <2>2, <3>2 DEF SequenceInv, CompletionIsLast
      <3> QED
        BY <3>1, <3>2
    <2> QED
      BY <2>1, <2>2 DEF CompletionIsLast
  <1>14. QuietStart(id)' /\ FreshIsBlank(id)' /\ sm'[id].repeat = {}
    BY <1>3, <1>6, <1>9 DEF SequenceInv, QuietStart, FreshIsBlank
  <1>15. CreditBound(id)'
    <2> SUFFICES ASSUME id \in tracked
                 PROVE  sm[id].current + Cardinality(Credit(id)') <= Cardinality(done'[id]) + 1
      BY <1>3 DEF CreditBound
    <2>1. /\ Credit(id) \in SUBSET Steps /\ done[id] \in SUBSET Steps
          /\ Credit(id)' \in SUBSET Steps /\ done'[id] \in SUBSET Steps
      BY Counts
    <2>2. /\ Cardinality(Credit(id)) \in Nat /\ Cardinality(done[id]) \in Nat
          /\ Cardinality(Credit(id)') \in Nat /\ Cardinality(done'[id]) \in Nat
          /\ sm[id].current \in Nat
      BY Counts
    <2>3. sm[id].current + Cardinality(Credit(id)) <= Cardinality(done[id]) + 1
      BY DEF SequenceInv, CreditBound
    <2>4. Credit(id)' \subseteq Credit(id) \cup {s}
      <3> SUFFICES ASSUME NEW x \in Credit(id)', x # s PROVE x \in Credit(id)
        OBVIOUS
      <3>1. x \in Steps /\ x \in done[id] /\ cluster'[id][x] = cluster[id][x]
        BY <1>4, <1>5, <2>1 DEF Credit
      <3> QED
        BY <1>3, <1>12, <3>1 DEF Credit
    <2>5. CASE st = "succeeded" /\ s \notin done[id]
      <3>1. Cardinality(done'[id]) = Cardinality(done[id]) + 1
        BY <1>5, <2>1, <2>5, AddedCount
      <3>2. Cardinality(Credit(id)') <= Cardinality(Credit(id)) + 1
        BY <2>1, <2>4, AddedCount
      <3> QED
        BY <2>2, <2>3, <3>1, <3>2
    <2>6. CASE ~ (st = "succeeded" /\ s \notin done[id])
      <3>1. done'[id] = done[id]
        BY <1>5, <2>6
      <3>2. s \in done[id] => s \in Credit(id)
        BY <1>2 DEF Credit, old
      <3>3. Credit(id)' \subseteq Credit(id)
        BY <2>4, <3>1, <3>2 DEF Credit
      <3>4. Cardinality(Credit(id)') <= Cardinality(Credit(id))
        BY <2>1, <3>3, SubsetCount
      <3> QED
        BY <2>2, <2>3, <3>1, <3>4
    <2> QED
      BY <2>5, <2>6
  <1> QED
    BY <1>10, <1>11, <1>13, <1>14, <1>15 DEF SequenceInv

-----------------------------------------------------------------------------
(* change(): the machine enters a step and its Job is submitted.           *)

(* The Job of step e of sequence id is created, deleted or left as it is,  *)
(* and nothing else changes in the cluster; q is the stream before.        *)
Submitted(id, e, q) ==
    /\ done' = done
    /\ \A j \in JobIds \ {id} : cluster'[j] = cluster[j] /\ stream'[j] = q[j]
    /\ \A x \in Steps \ {e} : cluster'[id][x] = cluster[id][x] /\ stream'[id][x] = q[id][x]
    /\ e \in Steps =>
         \/ /\ cluster[id][e] = "none"
            /\ cluster'[id][e] \in {"queued", "requested"}
            /\ \/ stream'[id][e] = q[id][e]
               \/ watching /\ stream'[id][e] = Append(q[id][e], "queued")
         \/ /\ cluster'[id][e] = cluster[id][e] \/ cluster'[id][e] = "none"
            /\ stream'[id][e] = q[id][e]

(* submit_job of a step that is not repeated, however the API server       *)
(* answers.                                                                *)
LEMMA SubmitEffect ==
    ASSUME TypeOK, NEW id \in JobIds, NEW e \in Steps, NEW q \in Streams,
           SubmitJob(id, e, FALSE, q)
    PROVE  Submitted(id, e, q)
  <1>0. cluster \in [JobIds -> [Steps -> Status]]
    BY DEF TypeOK
  <1>1. CASE SubmitOK(id, e, FALSE, q)
    <2>1. cluster[id][e] = "none"
      BY <1>1 DEF SubmitOK
    <2>2. PICK st \in {"queued", "requested"} : SetStatus(id, e, st, q)
      BY <1>1 DEF SubmitOK, FirstStatus
    <2>3. cluster' = [cluster EXCEPT ![id][e] = st] /\ done' = done
      BY <2>2 DEF SetStatus
    <2>4. CASE watching /\ IsListed(st)
      <3>1. stream' = [q EXCEPT ![id][e] = Append(@, st)] /\ st = "queued"
        BY <2>2, <2>4 DEF SetStatus, IsListed
      <3> QED
        BY <1>0, <2>1, <2>3, <2>4, <3>1 DEF Submitted, Streams
    <2>5. CASE ~ (watching /\ IsListed(st))
      <3>1. stream' = q
        BY <2>2, <2>5 DEF SetStatus
      <3> QED
        BY <1>0, <2>1, <2>3, <3>1 DEF Submitted, Streams
    <2> QED
      BY <2>4, <2>5
  <1>2. CASE \/ DeleteJob(id, e, q)
             \/ stream' = q /\ UNCHANGED <<cluster, done>>
    BY <1>0, <1>2 DEF DeleteJob, Submitted
  <1> QED
    BY <1>1, <1>2 DEF SubmitJob, SubmitConflict, SubmitError

(* change() on a machine without a repeat flag: it moves to the next       *)
(* state, and at most that step's Job is touched.                          *)
LEMMA EnterEffect ==
    ASSUME TypeOK, NEW id \in JobIds, NEW m \in Machine, m.repeat = {}, NEW q \in Streams,
           EnterNext(id, m, q)
    PROVE  /\ Submitted(id, m.current + 1, q)
           /\ sm'[id].current = m.current + 1
           /\ sm'[id].repeat = {}
           /\ \A j \in JobIds \ {id} : sm'[j] = sm[j]
  <1> DEFINE e == Change(m)
  <1>1. e.current = m.current + 1 /\ e.repeat = {} /\ ~ IsRepeating(e)
    BY DEF Change, IsRepeating, Machine
  <1>2. /\ UnmarkRepeatable(e).current = e.current
        /\ UnmarkRepeatable(e).repeat = {}
    BY <1>1 DEF UnmarkRepeatable, Change, Machine
  <1>3. sm \in [JobIds -> Machine] /\ cluster \in [JobIds -> [Steps -> Status]]
    BY DEF TypeOK
  <1>4. CASE Submits(e)
    <2>1. e.current \in Steps
      BY <1>4 DEF Submits
    <2>2. SubmitJob(id, e.current, IsRepeating(e), q) /\ sm' = [sm EXCEPT ![id] = UnmarkRepeatable(e)]
      BY <1>4 DEF EnterNext
    <2> HIDE DEF e
    <2>3. IsRepeating(e) = FALSE
      BY <1>1 DEF IsRepeating
    <2>4. SubmitJob(id, e.current, FALSE, q)
      BY <2>2, <2>3
    <2>5. Submitted(id, e.current, q)
      BY <2>1, <2>4, SubmitEffect
    <2> QED
      BY <1>1, <1>2, <1>3, <2>2, <2>5
  <1>5. CASE ~ Submits(e)
    <2>1. /\ sm' = [sm EXCEPT ![id] = e]
          /\ stream' = q
          /\ UNCHANGED <<cluster, script, done, faults>>
      BY <1>5 DEF EnterNext
    <2> HIDE DEF e
    <2>2. Submitted(id, m.current + 1, q)
      BY <2>1 DEF Submitted
    <2> QED
      BY <1>1, <1>3, <2>1, <2>2
  <1> QED
    BY <1>4, <1>5

(* A machine enters the first step: a sequence resumed before the watch    *)
(* opens, or one under an id never used.                                   *)
LEMMA FirstStep ==
    ASSUME TypeOK, TypeOK', NEW id \in JobIds, SequenceInv(id), Submitted(id, 1, stream),
           watching' = watching, sm'[id].current = 1, sm'[id].repeat = {}, id \in used',
           ~ watching \/ id \notin used
    PROVE  SequenceInv(id)'
  <1>0. 1 \in Steps
    BY NumStepsAssumption DEF Steps
  <1>1. /\ \A x \in Steps \ {1} :
              cluster'[id][x] = cluster[id][x] /\ stream'[id][x] = stream[id][x]
        /\ \/ cluster'[id][1] \in {"queued", "requested", "none"}
           \/ cluster'[id][1] = cluster[id][1]
        /\ done' = done
    BY <1>0 DEF Submitted
  <1>2. \A x \in Steps : stream[id][x] = << >>
    BY DEF SequenceInv, QuietStart, FreshIsBlank
  <1>3. /\ stream'[id][1] = << >> \/ stream'[id][1] = Append(<< >>, "queued")
        /\ ~ watching => stream'[id][1] = << >>
    BY <1>0, <1>2 DEF Submitted
  <1>4. SuccessIsLast(stream'[id][1]) /\ ~ HasSuccess(stream'[id][1])
    <2>1. << >> \in Seq(Listed) /\ "queued" \in Listed
      BY DEF Listed, Status, IsListed
    <2> QED
      BY <1>3, <2>1, EmptyQueue, AppendQueue
  <1>5. \A x \in Steps : SuccessIsLast(stream'[id][x]) /\ ~ HasSuccess(stream'[id][x])
    BY <1>1, <1>2, <1>4, EmptyQueue
  <1>6. Undelivered(id)' = {}
    BY <1>5 DEF Undelivered
  <1>7. InOrder(id)'
    BY <1>1 DEF SequenceInv, InOrder
  <1>8. DoneIsPrefix(id)' /\ CompletionIsLast(id)' /\ FreshIsBlank(id)'
    BY <1>1, <1>5, <1>6 DEF SequenceInv, DoneIsPrefix, CompletionIsLast, FreshIsBlank
  <1>9. QuietStart(id)'
    BY <1>1, <1>2, <1>3 DEF QuietStart
  <1>10. CreditBound(id)'
    <2>1. Credit(id)' \subseteq done'[id]
      BY DEF Credit
    <2>2. Cardinality(Credit(id)') <= Cardinality(done'[id])
      BY <2>1, Counts, SubsetCount
    <2> QED
      BY <2>2, Counts DEF CreditBound
  <1> QED
    BY <1>7, <1>8, <1>9, <1>10 DEF SequenceInv

(***************************************************************************)
(* A completion is delivered and the machine moves from c to c + 1.  The   *)
(* event's own step leaves Credit, so the bound allows the move; and since *)
(* the event was in Credit, c itself is done: step c + 1 is in its turn.   *)
(***************************************************************************)
LEMMA AdvanceInv ==
    ASSUME TypeOK, TypeOK', NEW id \in JobIds, NEW s \in Steps, stream[id][s] # << >>,
           SequenceInv(id), id \in tracked, Head(stream[id][s]) = "succeeded",
           Submitted(id, sm[id].current + 1, Deliver(id, s)),
           sm'[id].current = sm[id].current + 1, sm'[id].repeat = {},
           watching' = watching, used' = used
    PROVE  SequenceInv(id)'
  <1> DEFINE c == sm[id].current
             e == c + 1
             q == Deliver(id, s)
  <1>0. c \in Nat
    BY Counts
  <1>1. /\ watching /\ id \in used
        /\ s \in Undelivered(id)
        /\ \A x \in Steps \ {s} : q[id][x] = stream[id][x]
        /\ SuccessIsLast(q[id][s]) /\ ~ HasSuccess(q[id][s])
    BY Delivered
  <1>2. /\ \A x \in Steps : SuccessIsLast(q[id][x])
        /\ \A x \in Steps : HasSuccess(q[id][x]) <=> x # s /\ x \in Undelivered(id)
    BY <1>1 DEF SequenceInv, CompletionIsLast, Undelivered
  <1>3. /\ done' = done
        /\ \A x \in Steps \ {e} : cluster'[id][x] = cluster[id][x] /\ stream'[id][x] = q[id][x]
        /\ e \in Steps =>
             \/ /\ cluster[id][e] = "none"
                /\ cluster'[id][e] \in {"queued", "requested"}
                /\ stream'[id][e] = q[id][e] \/ stream'[id][e] = Append(q[id][e], "queued")
             \/ /\ cluster'[id][e] = cluster[id][e] \/ cluster'[id][e] = "none"
                /\ stream'[id][e] = q[id][e]
    BY DEF Submitted
  <1>4. \A x \in Undelivered(id) :
           x \in done[id] /\ (cluster[id][x] = "succeeded" \/ (cluster[id][x] = "none" /\ x <= c))
    <2> SUFFICES ASSUME NEW x \in Steps, x \in Undelivered(id)
                 PROVE  /\ x \in done[id]
                        /\ cluster[id][x] = "succeeded" \/ (cluster[id][x] = "none" /\ x <= c)
      BY DEF Undelivered
    <2>1. /\ x \in done[id]
          /\ cluster[id][x] \in {"none", "succeeded"}
          /\ cluster[id][x] = "none" => x <= sm[id].current
      BY DEF SequenceInv, CompletionIsLast
    <2> QED
      BY <2>1
  <1>5. q[id][s] \in Seq(Listed) /\ \A x \in Steps : q[id][x] \in Seq(Listed)
    BY DeliverType DEF Streams
  <1> HIDE DEF q
  <1>6. e \in Steps /\ cluster[id][e] = "none" => ~ HasSuccess(q[id][e])
    BY <1>0, <1>2, <1>4, NumStepsAssumption DEF Steps
  <1>7. \A x \in Steps : /\ SuccessIsLast(stream'[id][x])
                         /\ HasSuccess(stream'[id][x]) <=> HasSuccess(q[id][x])
    <2> TAKE x \in Steps
    <2>1. CASE stream'[id][x] = q[id][x]
      BY <1>2, <2>1
    <2>2. CASE x = e /\ cluster[id][e] = "none" /\ stream'[id][e] = Append(q[id][e], "queued")
      <3>1. "queued" \in Listed /\ ~ HasSuccess(q[id][e])
        BY <1>6, <2>2 DEF Listed, Status, IsListed
      <3> QED
        BY <1>5, <2>2, <3>1, AppendQueue
    <2> QED
      BY <1>3, <2>1, <2>2
  <1>8. Undelivered(id)' = Undelivered(id) \ {s}
    BY <1>2, <1>7 DEF Undelivered
  <1>9. s \in Credit(id)
    BY <1>1, <1>4 DEF Credit
  <1>10. c >= 1 => c \in done[id]
    <2> SUFFICES ASSUME c >= 1 PROVE c \in done[id]
      OBVIOUS
    <2>1. Cardinality(Credit(id)) >= 1
      <3>1. {} \in SUBSET (Credit(id) \ {s})
        OBVIOUS
      <3>2. Cardinality({}) + 1 <= Cardinality(Credit(id))
        BY <1>9, <3>1, Counts, ProperCount
      <3> QED
        BY <3>2, Counts, FS_EmptySet
    <2>2. c <= Cardinality(done[id])
      BY <1>0, <2>1, Counts DEF SequenceInv, CreditBound
    <2>3. c \in Steps
      <3>1. sm'[id].current \in 0 .. (NumSteps + 1)
        BY DEF TypeOK, Machine, Start, Complete
      <3> QED
        BY <1>0, <3>1, NumStepsAssumption DEF Steps
    <2>4. \A x \in done[id], t \in Steps : t < x => t \in done[id]
      BY Counts DEF SequenceInv, DoneIsPrefix
    <2> QED
      BY <2>2, <2>3, <2>4, Counts, PrefixCount
  <1>11. InOrder(id)'
    <2> SUFFICES ASSUME NEW x \in Steps, x > 1, cluster'[id][x] # "none"
                 PROVE  x - 1 \in done[id]
      BY <1>3 DEF InOrder
    <2>1. CASE cluster[id][x] # "none"
      BY <2>1 DEF SequenceInv, InOrder
    <2>2. CASE cluster[id][x] = "none"
      <3>1. x = e
        BY <1>3, <2>2
      <3>2. x - 1 = c /\ c >= 1
        BY <1>0, <3>1, NumStepsAssumption DEF Steps
      <3> QED
        BY <1>10, <3>2
    <2> QED
      BY <2>1, <2>2
  <1>12. DoneIsPrefix(id)'
    <2>1. \A x \in Steps : cluster'[id][x] = "succeeded" => cluster[id][x] = "succeeded"
      BY <1>3
    <2> QED
      BY <1>3, <2>1 DEF SequenceInv, DoneIsPrefix
  <1>13. CompletionIsLast(id)'
    <2> SUFFICES ASSUME NEW x \in Steps, x \in Undelivered(id)'
                 PROVE  /\ x \in done[id]
                        /\ cluster'[id][x] \in {"none", "succeeded"}
                        /\ cluster'[id][x] = "none" => x <= e
      BY <1>3, <1>7 DEF CompletionIsLast
    <2>1. x \in done[id] /\ (cluster[id][x] = "succeeded" \/ (cluster[id][x] = "none" /\ x <= c))
      BY <1>4, <1>8
    <2>2. CASE x = e
      BY <1>0, <1>3, <2>1, <2>2
    <2>3. CASE x # e
      BY <1>0, <1>3, <2>1, <2>3, NumStepsAssumption DEF Steps
    <2> QED
      BY <2>2, <2>3
  <1>14. QuietStart(id)' /\ FreshIsBlank(id)'
    BY <1>1 DEF QuietStart, FreshIsBlank
  <1>15. Credit(id)' \subseteq Credit(id) \ {s}
    <2> SUFFICES ASSUME NEW x \in Credit(id)' PROVE x \in Credit(id) /\ x # s
      OBVIOUS
    <2>1. x \in done[id] /\ x \in Steps
      BY <1>3, Counts DEF Credit
    <2>2. \/ x \in Undelivered(id) /\ x # s
          \/ cluster'[id][x] \notin {"none", "succeeded"}
          \/ x > e /\ cluster'[id][x] = "none"
      BY <1>8 DEF Credit
    <2>3. CASE x # e
      <3>1. cluster'[id][x] = cluster[id][x]
        BY <1>3, <2>1, <2>3
      <3>2. x \in Credit(id)
        BY <1>0, <2>1, <2>2, <3>1, NumStepsAssumption DEF Credit, Steps
      <3>3. x # s
        BY <1>0, <1>1, <1>4, <2>2, <3>1, NumStepsAssumption DEF Steps
      <3> QED
        BY <3>2, <3>3
    <2>4. CASE x = e
      <3>1. (x \in Undelivered(id) /\ x # s) \/ cluster'[id][x] \notin {"none", "succeeded"}
        BY <1>0, <2>2, <2>4
      <3>2. x \in Credit(id)
        BY <1>0, <1>3, <2>1, <2>4, <3>1 DEF Credit
      <3>3. x # s
        BY <1>0, <1>1, <1>3, <1>4, <2>4, <3>1, NumStepsAssumption DEF Steps
      <3> QED
        BY <3>2, <3>3
    <2> QED
      BY <2>3, <2>4
  <1>16. CreditBound(id)'
    <2>1. Cardinality(Credit(id)') + 1 <= Cardinality(Credit(id))
      BY <1>9, <1>15, Counts, ProperCount
    <2>2. c + Cardinality(Credit(id)) <= Cardinality(done[id]) + 1
      BY DEF SequenceInv, CreditBound
    <2> QED
      BY <1>0, <1>3, <2>1, <2>2, Counts DEF CreditBound
  <1> QED
    BY <1>11, <1>12, <1>13, <1>14, <1>16 DEF SequenceInv

-----------------------------------------------------------------------------
(* One lemma for each kind of step.                                        *)

(* init_state and its loop over the finished Jobs.                         *)
LEMMA StartInv ==
    ASSUME TypeOK, TypeOK', StepInv
    PROVE  /\ InitState => StepInv'
           /\ \A id \in JobIds, s \in Steps :
                 ResumeSequence(id, s) \/ ResumeFails(id, s) => StepInv'
           /\ ResumeDone => StepInv'
  <1>1. ASSUME InitState PROVE StepInv'
    <2>1. /\ pc = "down" /\ pc' = "resume" /\ tracked = {} /\ ~ watching
          /\ UNCHANGED <<cluster, stream, done, watching, used>>
      BY <1>1 DEF InitState, StepInv, clusterVars
    <2>2. \A j \in JobIds : sm'[j].current = 0 /\ sm'[j].repeat = {}
      BY <1>1 DEF InitState, NewMachine, Start
    <2>3. ASSUME NEW j \in JobIds PROVE SequenceInv(j)'
      <3>1. SequenceInv(j) /\ \A x \in Steps : stream'[j][x] = << >>
        BY <2>1 DEF StepInv, SequenceInv, QuietStart
      <3> QED
        BY <2>1, <2>2, <3>1, Restream
    <2>4. ASSUME NEW p \in resume' PROVE p[1] \in used'
      <3>1. p[1] \in JobIds /\ p[2] \in Steps /\ InSuccess(cluster[p[1]][p[2]])
        BY <1>1, <2>4 DEF InitState
      <3> QED
        BY <2>1, <3>1 DEF InSuccess, IsCompleted, StepInv, SequenceInv, FreshIsBlank
    <2> QED
      BY <2>1, <2>3, <2>4 DEF StepInv
  <1>2. ASSUME NEW id \in JobIds, NEW s \in Steps, ResumeSequence(id, s) PROVE StepInv'
    <2>1. /\ pc = "resume" /\ ~ watching
          /\ tracked' = tracked \cup {id} /\ resume' \subseteq resume
          /\ UNCHANGED <<pc, watching, used>>
      BY <1>2 DEF ResumeSequence, StepInv
    <2>2. <<id, s>> \in resume /\ EnterNext(id, MarkRunning(NewMachine, s), stream)
      BY <1>2 DEF ResumeSequence
    <2> DEFINE m == MarkRunning(NewMachine, s)
    <2>3. m \in Machine /\ m.current = 0 /\ m.repeat = {}
      <3>1. NewMachine \in Machine
        BY NumStepsAssumption DEF NewMachine, Machine, Start, Complete
      <3> QED
        BY <3>1, MachineTypes DEF MarkRunning, NewMachine, Start
    <2>4. stream \in Streams
      BY TypeOKParts DEF ClusterOK
    <2> HIDE DEF m
    <2>5. EnterNext(id, m, stream)
      BY <2>2 DEF m
    <2>6. /\ Submitted(id, 1, stream)
          /\ sm'[id].current = 1 /\ sm'[id].repeat = {}
          /\ \A j \in JobIds \ {id} : sm'[j] = sm[j]
      BY <2>3, <2>4, <2>5, EnterEffect
    <2>7. id \in used
      BY <2>2 DEF StepInv
    <2>8. SequenceInv(id)'
      BY <2>1, <2>6, <2>7, FirstStep DEF StepInv
    <2>9. ASSUME NEW j \in JobIds \ {id} PROVE SequenceInv(j)'
      <3>1. cluster'[j] = cluster[j] /\ stream'[j] = stream[j] /\ done'[j] = done[j]
        BY <2>6 DEF Submitted
      <3> QED
        BY <2>1, <2>6, <3>1, Frame DEF StepInv
    <2> QED
      BY <2>1, <2>8, <2>9 DEF StepInv
  <1>3. ASSUME NEW id \in JobIds, NEW s \in Steps, ResumeFails(id, s) PROVE StepInv'
    <2>1. /\ UNCHANGED <<cluster, stream, done, pc, watching, tracked, sm, used>>
          /\ resume' \subseteq resume
      BY <1>3 DEF ResumeFails, machineVars
    <2>2. \A j \in JobIds : SequenceInv(j)'
      BY <2>1, Frame DEF StepInv
    <2> QED
      BY <2>1, <2>2 DEF StepInv
  <1>4. ASSUME ResumeDone PROVE StepInv'
    <2>1. /\ pc = "resume" /\ pc' = "check"
          /\ UNCHANGED <<cluster, stream, done, watching, tracked, sm, used, resume>>
      BY <1>4 DEF ResumeDone, clusterVars, machineVars, loopVars
    <2>2. \A j \in JobIds : SequenceInv(j)'
      BY <2>1, Frame DEF StepInv, Ended
    <2> QED
      BY <2>1, <2>2 DEF StepInv
  <1> QED
    BY <1>1, <1>2, <1>3, <1>4

(* The manager ends, by check_complete or by a rule.                       *)
LEMMA ExitInv ==
    ASSUME TypeOK, TypeOK', StepInv, NEW how \in Ended, Exit(how)
    PROVE  StepInv'
  <1>1. /\ pc' = how /\ ~ watching'
        /\ stream' = NoStream
        /\ UNCHANGED <<cluster, done, tracked, sm, used, resume>>
    BY DEF Exit, machineVars
  <1>2. ASSUME NEW j \in JobIds PROVE SequenceInv(j)'
    <2>1. SequenceInv(j) /\ sm[j].repeat = {} /\ \A x \in Steps : stream'[j][x] = << >>
      BY <1>1 DEF StepInv, SequenceInv, NoStream
    <2> QED
      BY <1>1, <2>1, Restream
  <1> QED
    BY <1>1, <1>2 DEF StepInv, Ended

(* The manager's process is lost, by a crash or an error nothing catches.  *)
LEMMA LostInv ==
    ASSUME TypeOK, TypeOK', StepInv, ProcessLost, pc' \in {"down", "died"}
    PROVE  StepInv'
  <1>1. /\ ~ watching' /\ resume' = {} /\ tracked' = {} /\ stream' = NoStream
        /\ sm' = [id \in JobIds |-> NewMachine]
        /\ UNCHANGED <<cluster, done, used>>
    BY DEF ProcessLost
  <1>2. ASSUME NEW j \in JobIds PROVE SequenceInv(j)'
    <2>1. /\ SequenceInv(j) /\ sm'[j].repeat = {}
          /\ \A x \in Steps : stream'[j][x] = << >>
      BY <1>1 DEF StepInv, NoStream, NewMachine
    <2> QED
      BY <1>1, <2>1, Restream
  <1> QED
    BY <1>1, <1>2 DEF StepInv

(* check_complete, the workflow rules, new_jobs and the way back to the    *)
(* stream.                                                                 *)
LEMMA LoopInv ==
    ASSUME TypeOK, TypeOK', StepInv, FreshIds
    PROVE  /\ CheckComplete \/ RulesDone \/ NewJobs \/ Watch => StepInv'
           /\ \A r \in Rules : EvaluateRule(r) => StepInv'
           /\ \A id \in JobIds : SubmitSequence(id) => StepInv'
  <1>1. ASSUME /\ pc \in {"check", "rules", "new"}
               /\ pc' \in {"rules", "new", "submit", "watch"}
               /\ UNCHANGED <<cluster, stream, done, watching, tracked, sm, used, resume>>
        PROVE  StepInv'
    <2>1. \A j \in JobIds : SequenceInv(j)'
      BY <1>1, Frame DEF StepInv, Ended
    <2> QED
      BY <1>1, <2>1 DEF StepInv
  <1>2. ASSUME CheckComplete PROVE StepInv'
    <2>1. CASE Exit("exited")
      BY <2>1, ExitInv DEF Ended
    <2>2. CASE ~ Exit("exited")
      BY <1>1, <1>2, <2>2 DEF CheckComplete, clusterVars, machineVars
    <2> QED
      BY <2>1, <2>2
  <1>3. ASSUME RulesDone \/ NewJobs PROVE StepInv'
    BY <1>1, <1>3 DEF RulesDone, NewJobs, clusterVars, machineVars, loopVars
  <1>4. ASSUME Watch PROVE StepInv'
    <2>1. /\ pc = "submit" /\ pc' = "watch" /\ watching'
          /\ UNCHANGED <<cluster, done, tracked, sm, used, resume>>
      BY <1>4 DEF Watch, machineVars, loopVars
    <2>2. ASSUME NEW j \in JobIds, watching PROVE SequenceInv(j)'
      BY <1>4, <2>1, <2>2, Frame DEF Watch, StepInv
    <2>3. ASSUME NEW j \in JobIds, ~ watching PROVE SequenceInv(j)'
      <3>1. \A x \in Steps :
               \/ stream'[j][x] = << >>
               \/ stream'[j][x] = <<cluster[j][x]>> /\ cluster[j][x] # "none"
        BY <1>4, <2>3 DEF Watch, IsListed
      <3>2. SequenceInv(j) /\ sm'[j].repeat = {} /\ (j \in tracked' => sm'[j].current <= 1)
        BY <2>1, <2>3 DEF StepInv, SequenceInv, QuietStart
      <3> QED
        BY <2>1, <3>1, <3>2, Restream
    <2> QED
      BY <2>1, <2>2, <2>3 DEF StepInv
  <1>5. ASSUME NEW r \in Rules, EvaluateRule(r) PROVE StepInv'
    <2>1. CASE Exit("finished")
      BY <2>1, ExitInv DEF Ended
    <2>2. CASE ProcessLost /\ pc' = "died"
      BY <2>2, LostInv
    <2>3. CASE ~ Exit("finished") /\ ~ (ProcessLost /\ pc' = "died")
      <3>1. UNCHANGED <<cluster, stream, done, pc, watching, tracked, sm, used, resume>>
        BY <1>5, <2>3 DEF EvaluateRule, clusterVars, machineVars
      <3>2. \A j \in JobIds : SequenceInv(j)'
        BY <3>1, Frame DEF StepInv
      <3> QED
        BY <3>1, <3>2 DEF StepInv
    <2> QED
      BY <2>1, <2>2, <2>3
  <1>6. ASSUME NEW id \in JobIds, SubmitSequence(id) PROVE StepInv'
    <2>1. /\ pc = "submit" /\ id \notin used
          /\ tracked' = tracked \cup {id} /\ used' = used \cup {id}
          /\ EnterNext(id, NewMachine, stream)
          /\ UNCHANGED <<pc, watching, resume>>
      BY <1>6 DEF SubmitSequence
    <2>2. NewMachine \in Machine /\ NewMachine.current = 0 /\ NewMachine.repeat = {}
      BY NumStepsAssumption DEF NewMachine, Machine, Start, Complete
    <2>3. stream \in Streams
      BY TypeOKParts DEF ClusterOK
    <2>4. /\ Submitted(id, 1, stream)
          /\ sm'[id].current = 1 /\ sm'[id].repeat = {}
          /\ \A j \in JobIds \ {id} : sm'[j] = sm[j]
      BY <2>1, <2>2, <2>3, EnterEffect
    <2>5. SequenceInv(id)'
      BY <2>1, <2>4, FirstStep DEF StepInv
    <2>6. ASSUME NEW j \in JobIds \ {id} PROVE SequenceInv(j)'
      <3>1. cluster'[j] = cluster[j] /\ stream'[j] = stream[j] /\ done'[j] = done[j]
        BY <2>4 DEF Submitted
      <3> QED
        BY <2>1, <2>4, <3>1, Frame DEF StepInv
    <2> QED
      BY <2>1, <2>5, <2>6 DEF StepInv
  <1> QED
    BY <1>2, <1>3, <1>4, <1>5, <1>6

(* One event of the watch.                                                 *)
LEMMA ReceiveInv ==
    ASSUME TypeOK, TypeOK', StepInv, \A r \in Rules : r.action # "repeat",
           NEW id \in JobIds, NEW s \in Steps, Receive(id, s)
    PROVE  StepInv'
  <1> DEFINE q == Deliver(id, s)
  <1>0. /\ pc = "watch" /\ pc' \in {"watch", "check"} /\ stream[id][s] # << >>
        /\ UNCHANGED <<watching, used, resume>>
    BY DEF Receive, IgnoreEvent, HandleEvent, loopVars
  <1>1. SequenceInv(id) /\ sm[id].repeat = {} /\ sm[id] \in Machine
    BY DEF StepInv, SequenceInv, TypeOK
  <1>2. \A j \in JobIds \ {id} : q[j] = stream[j]
    BY <1>0, <1>1, Delivered
  <1>3. q \in Streams
    BY <1>0, DeliverType
  <1> HIDE DEF q
  <1>4. ASSUME SequenceInv(id)',
               \A j \in JobIds \ {id} : /\ cluster'[j] = cluster[j] /\ stream'[j] = q[j]
                                        /\ done'[j] = done[j] /\ sm'[j] = sm[j]
                                        /\ j \in tracked' => j \in tracked
        PROVE  StepInv'
    <2>1. ASSUME NEW j \in JobIds \ {id} PROVE SequenceInv(j)'
      BY <1>0, <1>2, <1>4, Frame DEF StepInv, Ended
    <2> QED
      BY <1>0, <1>4, <2>1 DEF StepInv
  <1>5. ASSUME cluster' = cluster, done' = done, stream' = q,
               \A j \in JobIds \ {id} : sm'[j] = sm[j],
               tracked' \subseteq tracked, sm'[id].repeat = {},
               id \in tracked' => sm'[id].current = sm[id].current
        PROVE  StepInv'
    <2>1. SequenceInv(id)'
      BY <1>0, <1>1, <1>5, DeliverOnly DEF q
    <2> QED
      BY <1>4, <1>5, <2>1
  <1>6. CASE IgnoreEvent(id, s)
    BY <1>1, <1>5, <1>6 DEF IgnoreEvent, machineVars, q
  <1>7. CASE HandleEvent(id, s)
    <2> DEFINE st == Head(stream[id][s])
               m == sm[id]
    <2>1. RepeatRules(s) = {}
      BY DEF RepeatRules
    <2>2. /\ id \in tracked
          /\ \/ /\ IsSucceeded(st) \/ IsFailed(st)
                /\ SucceedJob(id, m, st, q) /\ UNCHANGED tracked
             \/ FailJob(id, q)
             \/ /\ sm' = [sm EXCEPT ![id] = m]
                /\ stream' = q
                /\ UNCHANGED <<cluster, script, done, faults, tracked>>
      BY <1>7, <2>1 DEF HandleEvent, Ignored, q
    <2>3. sm \in [JobIds -> Machine] /\ NewMachine.repeat = {}
      BY DEF TypeOK, NewMachine
    <2>4. /\ MarkSucceeded(m) \in Machine
          /\ MarkSucceeded(m).current = m.current
          /\ MarkSucceeded(m).repeat = {}
      BY <1>1, MachineTypes DEF MarkSucceeded, IsRepeating, Machine
    <2> HIDE DEF m
    <2>5. CASE FailJob(id, q)
      BY <1>5, <2>3, <2>5 DEF FailJob
    <2>6. CASE /\ sm' = [sm EXCEPT ![id] = m]
               /\ stream' = q
               /\ UNCHANGED <<cluster, script, done, faults, tracked>>
      BY <1>1, <1>5, <2>3, <2>6 DEF m
    <2>7. CASE SucceedJob(id, m, st, q) /\ UNCHANGED tracked
      <3>1. CASE ~ (IsSucceeded(st) /\ m.current # Complete)
        <4>1. /\ sm' = [sm EXCEPT ![id] = MarkSucceeded(m)]
              /\ stream' = q
              /\ UNCHANGED <<cluster, script, done, faults>>
          BY <2>7, <3>1 DEF SucceedJob
        <4> QED
          BY <1>5, <2>3, <2>4, <2>7, <4>1 DEF m
      <3>2. CASE IsSucceeded(st) /\ m.current # Complete
        <4>1. st = "succeeded" /\ EnterNext(id, MarkSucceeded(m), q)
          BY <2>7, <3>2 DEF SucceedJob, IsSucceeded, IsCompleted, HasFailedPods
        <4>2. /\ Submitted(id, sm[id].current + 1, q)
              /\ sm'[id].current = sm[id].current + 1
              /\ sm'[id].repeat = {}
              /\ \A j \in JobIds \ {id} : sm'[j] = sm[j]
          BY <1>3, <2>4, <4>1, EnterEffect DEF m
        <4>3. SequenceInv(id)'
          BY <1>0, <1>1, <2>2, <4>1, <4>2, AdvanceInv DEF q
        <4> QED
          BY <1>4, <2>7, <4>2, <4>3 DEF Submitted
      <3> QED
        BY <3>1, <3>2
    <2> QED
      BY <2>2, <2>5, <2>6, <2>7
  <1> QED
    BY <1>6, <1>7 DEF Receive

(* The cluster, and the crash of the manager.                              *)
LEMMA EnvironmentInv ==
    ASSUME TypeOK, TypeOK', StepInv
    PROVE  /\ \A id \in JobIds, s \in Steps : JobProgress(id, s) => StepInv'
           /\ Crash \/ UncaughtError => StepInv'
  <1>1. ASSUME NEW id \in JobIds, NEW s \in Steps, JobProgress(id, s) PROVE StepInv'
    <2>1. UNCHANGED <<pc, watching, tracked, sm, used, resume>>
      BY <1>1 DEF JobProgress, machineVars, loopVars
    <2>2. SequenceInv(id)'
      BY <1>1, ProgressInv DEF StepInv
    <2>3. ASSUME NEW j \in JobIds \ {id} PROVE SequenceInv(j)'
      <3>1. cluster'[j] = cluster[j] /\ stream'[j] = stream[j] /\ done'[j] = done[j]
        BY <1>1 DEF JobProgress, SetStatus, TypeOK
      <3> QED
        BY <2>1, <3>1, Frame DEF StepInv
    <2> QED
      BY <2>1, <2>2, <2>3 DEF StepInv
  <1>2. ASSUME Crash \/ UncaughtError PROVE StepInv'
    BY <1>2, LostInv DEF Crash, UncaughtError
  <1> QED
    BY <1>1, <1>2

(* The inductive invariant holds at the start.                             *)
LEMMA InitInv == Init => StepInv
  <1> SUFFICES ASSUME Init PROVE StepInv
    OBVIOUS
  <1>1. ASSUME NEW j \in JobIds PROVE SequenceInv(j)
    <2>1. /\ done[j] = {} /\ tracked = {} /\ sm[j].repeat = {}
          /\ \A x \in Steps : cluster[j][x] = "none" /\ stream[j][x] = << >>
      BY DEF Init, NoStream, NewMachine
    <2>2. Undelivered(j) = {} /\ \A x \in Steps : SuccessIsLast(stream[j][x])
      BY <2>1, EmptyQueue DEF Undelivered
    <2> QED
      BY <2>1, <2>2 DEF SequenceInv, InOrder, DoneIsPrefix, CompletionIsLast, QuietStart,
                        FreshIsBlank, CreditBound
  <1> QED
    BY <1>1 DEF Init, StepInv

(* Every step keeps the inductive invariant, under Premise.                *)
LEMMA NextInv ==
    ASSUME Premise, TypeOK, StepInv, [Next]_vars
    PROVE  StepInv'
  <1>0. TypeOK'
    BY StepType
  <1>1. CASE Step
    BY <1>0, <1>1, StartInv, LoopInv DEF Step, Premise
  <1>2. ASSUME NEW id \in JobIds, NEW s \in Steps,
               Receive(id, s) \/ JobProgress(id, s) \/ Touch(id, s)
        PROVE  StepInv'
    <2>1. ~ Touch(id, s)
      BY DEF Touch, Premise, TypeOK
    <2> QED
      BY <1>0, <1>2, <2>1, ReceiveInv, EnvironmentInv DEF Premise
  <1>3. CASE Crash \/ UncaughtError
    BY <1>0, <1>3, EnvironmentInv
  <1>4. CASE UNCHANGED vars
    <2>1. UNCHANGED <<cluster, stream, done, pc, watching, tracked, sm, used, resume>>
      BY <1>4 DEF vars, clusterVars, machineVars, loopVars
    <2>2. \A j \in JobIds : SequenceInv(j)'
      BY <2>1, Frame DEF StepInv
    <2> QED
      BY <2>1, <2>2 DEF StepInv
  <1> QED
    BY <1>1, <1>2, <1>3, <1>4 DEF Next, SleepInfinity

(***************************************************************************)
(* The bound on what may still move a machine, with the order of the       *)
(* Jobs, the prefix of succeeded steps and the quiet start it rests on,    *)
(* survives every step the manager, the cluster or a fault takes.          *)
(***************************************************************************)
THEOREM StepInvHolds ==
    ASSUME Premise
    PROVE  Spec => []StepInv
  <1>1. Init => TypeOK /\ StepInv
    BY InitType, InitInv
  <1>2. TypeOK /\ StepInv /\ [Next]_vars => TypeOK' /\ StepInv'
    BY StepType, NextInv
  <1> QED
    BY <1>1, <1>2, PTL DEF Spec

(***************************************************************************)
(* If the watch never redelivers an event, no rule repeats a step and no   *)
(* id is drawn twice, no step's Job ever exists before the Job of the step *)
(* before it has succeeded: for any number of sequences and steps, and     *)
(* through every crash, failed Job and failed submission.                  *)
(***************************************************************************)
THEOREM StepOrderHolds ==
    ASSUME Premise
    PROVE  Spec => []StepOrder
  <1>1. StepInv => StepOrder
    BY DEF StepInv, SequenceInv, StepOrder
  <1> QED
    BY <1>1, StepInvHolds, PTL

-----------------------------------------------------------------------------
(* What the manager leaves when check_complete ends it.                    *)

\* A completion has all its steps behind it: the Job of the last step exists,
\* so the step before it is done, and with it every earlier one.
LEMMA CompletionFinished ==
    ASSUME TypeOK, StepInv
    PROVE  Completions(cluster) \subseteq Finished
  <1> SUFFICES ASSUME NEW id \in JobIds, IsCompleted(cluster[id][NumSteps]), NEW s \in Steps
               PROVE  s \in done[id] \/ IsCompleted(cluster[id][s])
    BY DEF Completions, InSuccess, Finished
  <1>1. InOrder(id) /\ DoneIsPrefix(id)
    BY DEF StepInv, SequenceInv
  <1>2. CASE s = NumSteps
    BY <1>2
  <1>3. CASE s # NumSteps
    <2>1. /\ NumSteps \in Steps /\ NumSteps > 1
          /\ NumSteps - 1 \in Steps
          /\ s = NumSteps - 1 \/ s < NumSteps - 1
      BY <1>3, NumStepsAssumption DEF Steps
    <2>2. NumSteps - 1 \in done[id]
      BY <1>1, <2>1 DEF InOrder, IsCompleted
    <2> QED
      BY <1>1, <2>1, <2>2 DEF DoneIsPrefix
  <1> QED
    BY <1>2, <1>3

\* A finished sequence stays finished as Jobs go on: no Job leaves a completed status.
LEMMA ProgressFinished ==
    ASSUME TypeOK, NEW id \in JobIds, NEW s \in Steps, JobProgress(id, s) \/ Touch(id, s)
    PROVE  Finished \subseteq Finished'
  <1>1. PICK st : /\ SetStatus(id, s, st, stream)
                  /\ IsCompleted(cluster[id][s]) => IsCompleted(st)
    BY DEF JobProgress, Touch, Successors, IsCompleted
  <1>2. \A j \in JobIds, x \in Steps : IsCompleted(cluster[j][x]) => IsCompleted(cluster'[j][x])
    BY <1>1 DEF SetStatus, TypeOK
  <1>3. \A j \in JobIds : done[j] \subseteq done'[j]
    BY <1>1 DEF SetStatus, TypeOK
  <1> QED
    BY <1>2, <1>3 DEF Finished

\* Only check_complete ends the manager with "exited", and nothing it leaves is undone.
LEMMA ExitSoundStep ==
    ASSUME TypeOK, StepInv, ExitSound, [Next]_vars
    PROVE  ExitSound'
  <1> SUFFICES ASSUME pc' = "exited"
               PROVE  Cardinality(Finished') >= CompletionsNeeded
    BY DEF ExitSound
  <1>1. ASSUME NEW A \in SUBSET Finished', Cardinality(A) >= CompletionsNeeded
        PROVE  Cardinality(Finished') >= CompletionsNeeded
    <2>1. IsFiniteSet(Finished')
      BY JobIdsAssumption, FS_Subset DEF Finished
    <2>2. /\ Cardinality(A) <= Cardinality(Finished')
          /\ Cardinality(A) \in Nat /\ Cardinality(Finished') \in Nat
      BY <2>1, FS_Subset, FS_CardinalityType
    <2> QED
      BY <1>1, <2>2, SizesAssumption
  <1>2. CASE pc = "exited"
    <2>1. Finished \subseteq Finished'
      <3>1. \/ \E id \in JobIds, s \in Steps : JobProgress(id, s) \/ Touch(id, s)
            \/ UNCHANGED <<cluster, done>>
        BY <1>2 DEF Next, Step, InitState, ResumeSequence, ResumeFails, SubmitSequence,
              ResumeDone, CheckComplete, EvaluateRule, RulesDone, NewJobs, Watch, Receive,
              IgnoreEvent, HandleEvent, Crash, UncaughtError, SleepInfinity, vars, clusterVars
      <3> QED
        BY <3>1, ProgressFinished DEF Finished
    <2> QED
      BY <1>1, <1>2, <2>1 DEF ExitSound
  <1>3. CASE pc # "exited"
    <2>1. /\ Cardinality(Completions(cluster)) >= CompletionsNeeded
          /\ UNCHANGED <<cluster, done>>
      BY <1>3 DEF Next, Step, InitState, ResumeSequence, ResumeFails, SubmitSequence,
            ResumeDone, CheckComplete, Exit, EvaluateRule, RulesDone, NewJobs, Watch, Receive,
            IgnoreEvent, HandleEvent, JobProgress, Touch, Crash, UncaughtError, SleepInfinity, vars
    <2>2. Completions(cluster) \subseteq Finished'
      BY <2>1, CompletionFinished DEF Finished
    <2> QED
      BY <1>1, <2>1, <2>2
  <1> QED
    BY <1>2, <1>3

(***************************************************************************)
(* Under the same premises the manager never ends by check_complete before *)
(* enough sequences have run all of their steps, although check_complete   *)
(* looks at the last step of each only.                                    *)
(***************************************************************************)
THEOREM ExitSoundHolds ==
    ASSUME Premise
    PROVE  Spec => []ExitSound
  <1>1. Init => ExitSound
    BY DEF Init, ExitSound
  <1>2. TypeOK /\ StepInv /\ ExitSound /\ [Next]_vars => ExitSound'
    BY ExitSoundStep
  <1> QED
    BY <1>1, <1>2, TypeCorrect, StepInvHolds, PTL DEF Spec
=============================================================================
