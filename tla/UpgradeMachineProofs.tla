------------------------ MODULE UpgradeMachineProofs ------------------------
(***************************************************************************)
(* Proofs about the release upgrade, for any number of runs, failures,     *)
(* kills and power losses in one operation directory.                      *)
(*                                                                         *)
(* What a run has begun is read off the length of its checkpoint: a plan   *)
(* has each stage once, and the completed ones are its first.  A mutation  *)
(* was preceded by a durable checkpoint, which every later run finds; it   *)
(* then stops.  So only the one run that found no checkpoint mutates, and  *)
(* within a run a stage that was passed is not performed again.            *)
(***************************************************************************)
EXTENDS UpgradeMachine, TLAPS

Pcs == {"off", "perform", "step", "sql", "completed", "assess", "finish", "rollback", "cleanup", "end"}
Helms == {Original, Target, RolledBack, Broken}
StageNames == {"verify", "backup", "dry_run", "replace_database", "apply", "observe"}
Checkpoint == [completed : Seq(StageNames), pending : StageNames \cup {"", "none"}, applied : BOOLEAN,
               replaced : BOOLEAN, rollback : BOOLEAN]
Results == [result : {"", "passed", "failed", "cleanup_failed", "outcome_unknown", "resume_assessment_required"},
            resumed : BOOLEAN, rollbackFailed : BOOLEAN, cleanupFailed : BOOLEAN]
Stores == [file : Checkpoint, durable : Checkpoint, left : BOOLEAN, last : Checkpoint]
Drivers == [temp : {"absent", "bound", "attempted"}, captured : BOOLEAN, quiescing : BOOLEAN]
Worlds == [helm : Helms, live : {"original", "restored", "none"}, temp : BOOLEAN,
           sql : {"off", "running", "bound", "dropped", "finished", "failed"}, up : BOOLEAN]
Counts == [apply : Nat, replace : Nat, rollback : Nat, early : BOOLEAN]
Outcomes == [known : BOOLEAN, applied : BOOLEAN, replaced : BOOLEAN]

Shape ==
  /\ plan \in Plans /\ runs \in Nat /\ runs <= MaxRuns /\ pc \in Pcs
  /\ state \in Checkpoint /\ result \in Results /\ store \in Stores
  /\ driver \in Drivers /\ world \in Worlds /\ count \in Counts
  /\ pc = "sql" => state.pending = "replace_database"

(***************************************************************************)
(* A checkpoint whose completed stages are the first ones of the plan.     *)
(***************************************************************************)
ApplyAt == IF plan = "replace" THEN 4 ELSE 3
SoundIn(p, stages, at, st) ==
  LET n == Len(st.completed) IN
  /\ n <= Len(stages) /\ \A i \in 1..n : st.completed[i] = stages[i]
  /\ st.pending # "" => n < Len(stages) /\ st.pending = stages[n + 1]
  /\ st.applied => p # "preview" /\ (n > at \/ (n = at /\ st.pending = "apply"))
  /\ p # "preview" /\ n > at => st.applied
  /\ st.replaced => p = "replace" /\ (n > 3 \/ (n = 3 /\ st.pending = "replace_database"))
  /\ p = "replace" /\ n > 3 => st.replaced
  /\ st.rollback => st.applied \/ st.pending = "apply"
Sound(st) == SoundIn(plan, Stages, ApplyAt, st)

Advancing == {"perform", "step", "completed"}
Running == Pcs \ {"off", "end"}

Checkpointed ==
  /\ store.file # None => Sound(store.file)
  /\ store.durable # None => Sound(store.durable)
  /\ pc \in Running => Sound(state)
  /\ pc \in {"step", "sql"} => state.pending # ""
  /\ pc \in {"perform", "completed"} => state.pending = ""
  /\ pc = "assess" => state.pending \in {"apply", "replace_database"}
  /\ pc \in Advancing \cup {"sql"} => ~state.rollback
  /\ pc = "rollback" => state.applied /\ state.rollback

(* The mutations begun are behind the run, and behind what is durable. *)
Tracked ==
  /\ store.durable # None => store.file # None
  /\ count.replace # 0 \/ count.apply # 0 \/ count.rollback # 0 => store.durable # None
  /\ count.replace # 0 => plan = "replace"
  /\ count.replace <= 1 /\ count.apply <= 1 /\ count.rollback <= 1
  /\ pc \in Running \ {"cleanup"} => count.rollback = 0
  /\ pc \in Advancing => (count.replace # 0 => Len(state.completed) > 3)
  /\ pc \in Advancing \cup {"sql"} => (count.apply # 0 => Len(state.completed) > ApplyAt)
  /\ pc \in {"step", "sql", "rollback"} => store.durable = state
  /\ pc = "perform" => Len(state.completed) = 0 \/ store.durable = state

-----------------------------------------------------------------------------
(* The plan's stages, and checkpoints. *)

LEMMA StagesAre ==
  ASSUME Shape
  PROVE  /\ plan \in {"preview", "execute", "replace"}
         /\ Stages \in Seq(StageNames)
         /\ Stages[1] = "verify" /\ Stages[2] = "backup" /\ Stages[3] = "dry_run"
         /\ plan = "preview" => Len(Stages) = 3
         /\ plan = "execute" => Len(Stages) = 5 /\ Stages[4] = "apply" /\ Stages[5] = "observe"
         /\ plan = "replace" => /\ Len(Stages) = 6 /\ Stages[4] = "replace_database"
                                /\ Stages[5] = "apply" /\ Stages[6] = "observe"
<1>1. plan \in {"preview", "execute", "replace"}
  BY UpgradeConstants DEF Shape
<1>2. CASE plan = "preview"
  <2>1. Stages = <<"verify", "backup", "dry_run">>
    BY <1>2 DEF Stages, Verify
  <2> QED
    BY <2>1, <1>2 DEF StageNames
<1>3. CASE plan = "execute"
  <2>1. Stages = <<"verify", "backup", "dry_run", "apply", "observe">>
    BY <1>3 DEF Stages, Verify
  <2> QED
    BY <2>1, <1>3 DEF StageNames
<1>4. CASE plan = "replace"
  <2>1. Stages = <<"verify", "backup", "dry_run", "replace_database", "apply", "observe">>
    BY <1>4 DEF Stages, Verify
  <2> QED
    BY <2>1, <1>4 DEF StageNames
<1> QED
  BY <1>1, <1>2, <1>3, <1>4

LEMMA StageIs ==
  ASSUME Shape, NEW i \in 1..Len(Stages)
  PROVE  /\ Stages[i] = "apply" <=> plan # "preview" /\ i = ApplyAt + 1
         /\ Stages[i] = "replace_database" <=> plan = "replace" /\ i = 4
         /\ Stages[i] = "backup" <=> i = 2
         /\ Stages[i] = "observe" <=> plan # "preview" /\ i = Len(Stages)
         /\ Stages[i] # "" /\ Stages[i] # "none"
<1>1. CASE plan = "preview"
  <2>1. Len(Stages) = 3
    BY <1>1, StagesAre
  <2>2. i = 1 \/ i = 2 \/ i = 3
    BY <2>1
  <2>3. ApplyAt = 3
    BY <1>1 DEF ApplyAt
  <2>4. /\ Stages[1] = "verify"
        /\ Stages[2] = "backup"
        /\ Stages[3] = "dry_run"
    BY <1>1, StagesAre
  <2> QED
    BY <1>1, <2>1, <2>2, <2>3, <2>4, Zenon
<1>2. CASE plan = "execute"
  <2>1. Len(Stages) = 5
    BY <1>2, StagesAre
  <2>2. i = 1 \/ i = 2 \/ i = 3 \/ i = 4 \/ i = 5
    BY <2>1
  <2>3. ApplyAt = 3
    BY <1>2 DEF ApplyAt
  <2>4. /\ Stages[1] = "verify"
        /\ Stages[2] = "backup"
        /\ Stages[3] = "dry_run"
        /\ Stages[4] = "apply"
        /\ Stages[5] = "observe"
    BY <1>2, StagesAre
  <2>5. Stages[i] = "apply" <=> plan # "preview" /\ i = ApplyAt + 1
    BY <1>2, <2>1, <2>2, <2>3, <2>4
  <2>6. Stages[i] = "replace_database" <=> plan = "replace" /\ i = 4
    BY <1>2, <2>1, <2>2, <2>3, <2>4
  <2>7. Stages[i] = "backup" <=> i = 2
    BY <1>2, <2>1, <2>2, <2>3, <2>4
  <2>8. Stages[i] = "observe" <=> plan # "preview" /\ i = Len(Stages)
    BY <1>2, <2>1, <2>2, <2>3, <2>4
  <2>9. Stages[i] # "" /\ Stages[i] # "none"
    BY <1>2, <2>1, <2>2, <2>3, <2>4, Zenon
  <2> QED
    BY <2>5, <2>6, <2>7, <2>8, <2>9, Zenon
<1>3. CASE plan = "replace"
  <2>1. Len(Stages) = 6
    BY <1>3, StagesAre
  <2>2. i = 1 \/ i = 2 \/ i = 3 \/ i = 4 \/ i = 5 \/ i = 6
    BY <2>1
  <2>3. ApplyAt = 4
    BY <1>3 DEF ApplyAt
  <2>4. /\ Stages[1] = "verify"
        /\ Stages[2] = "backup"
        /\ Stages[3] = "dry_run"
        /\ Stages[4] = "replace_database"
        /\ Stages[5] = "apply"
        /\ Stages[6] = "observe"
    BY <1>3, StagesAre
  <2>5. Stages[i] = "apply" <=> plan # "preview" /\ i = ApplyAt + 1
    BY <1>3, <2>1, <2>2, <2>3, <2>4
  <2>6. Stages[i] = "replace_database" <=> plan = "replace" /\ i = 4
    BY <1>3, <2>1, <2>2, <2>3, <2>4
  <2>7. Stages[i] = "backup" <=> i = 2
    BY <1>3, <2>1, <2>2, <2>3, <2>4
  <2>8. Stages[i] = "observe" <=> plan # "preview" /\ i = Len(Stages)
    BY <1>3, <2>1, <2>2, <2>3, <2>4
  <2>9. Stages[i] # "" /\ Stages[i] # "none"
    BY <1>3, <2>1, <2>2, <2>3, <2>4, Zenon
  <2> QED
    BY <2>5, <2>6, <2>7, <2>8, <2>9, Zenon
<1> QED
  BY <1>1, <1>2, <1>3, StagesAre, Zenon

LEMMA SamePlan == UNCHANGED plan => Stages' = Stages /\ ApplyAt' = ApplyAt
BY DEF Stages, ApplyAt

LEMMA DoneIs ==
  ASSUME Shape, NEW st \in Checkpoint, Len(st.completed) <= Len(Stages),
         \A i \in 1..Len(st.completed) : st.completed[i] = Stages[i]
  PROVE  /\ Done(st, "apply") <=> plan # "preview" /\ Len(st.completed) > ApplyAt
         /\ Done(st, "replace_database") <=> plan = "replace" /\ Len(st.completed) > 3
<1>1. st.completed \in Seq(StageNames)
  BY Zenon DEF Checkpoint
<1>3. \A x : Done(st, x) <=> \E i \in 1..Len(st.completed) : Stages[i] = x
  BY DEF Done
<1>4. Len(st.completed) \in Nat /\ Len(Stages) \in Nat
  BY <1>1, StagesAre
<1>5. ApplyAt \in Nat /\ (plan = "replace" => Len(Stages) = 6) /\ (plan # "preview" => Len(Stages) = ApplyAt + 2)
  BY StagesAre DEF ApplyAt
<1>6. \A i \in 1..Len(st.completed) : i \in 1..Len(Stages)
  BY <1>4
<1>7. Done(st, "apply") <=> plan # "preview" /\ Len(st.completed) > ApplyAt
  <2>1. \A i \in 1..Len(st.completed) : Stages[i] = "apply" <=> plan # "preview" /\ i = ApplyAt + 1
    BY <1>6, StageIs, Zenon
  <2>2. Done(st, "apply") <=> \E i \in 1..Len(st.completed) : plan # "preview" /\ i = ApplyAt + 1
    BY <1>3, <2>1
  <2> QED
    BY <1>4, <1>5, <2>2
<1>8. Done(st, "replace_database") <=> plan = "replace" /\ Len(st.completed) > 3
  <2>1. \A i \in 1..Len(st.completed) : Stages[i] = "replace_database" <=> plan = "replace" /\ i = 4
    BY <1>6, StageIs, Zenon
  <2>2. Done(st, "replace_database") <=> \E i \in 1..Len(st.completed) : plan = "replace" /\ i = 4
    BY <1>3, <2>1
  <2> QED
    BY <1>4, <2>2
<1> QED
  BY <1>7, <1>8

(* What a pending stage says of the stages before it. *)
LEMMA PendingIs ==
  ASSUME Shape, NEW n \in Nat, n < Len(Stages)
  PROVE  /\ Stages[n + 1] = "apply" <=> plan # "preview" /\ n = ApplyAt
         /\ Stages[n + 1] = "replace_database" <=> plan = "replace" /\ n = 3
         /\ Stages[n + 1] = "backup" <=> n = 1
         /\ Stages[n + 1] = "observe" <=> plan # "preview" /\ n + 1 = Len(Stages)
         /\ Stages[n + 1] # "" /\ Stages[n + 1] # "none"
<1>1. Len(Stages) \in Nat /\ ApplyAt \in Nat
  BY StagesAre DEF ApplyAt
<1>2. n + 1 \in 1..Len(Stages)
  BY <1>1
<1>3. /\ n + 1 = ApplyAt + 1 <=> n = ApplyAt
      /\ n + 1 = 4 <=> n = 3
      /\ n + 1 = 2 <=> n = 1
  BY <1>1
<1> QED
  BY <1>2, <1>3, StageIs, Zenon

(* validateCheckpoint in numbers. *)
LEMMA ValidIsSound ==
  ASSUME Shape, NEW st \in Checkpoint
  PROVE  /\ validateCheckpoint(st) <=> Sound(st)
         /\ Sound(st) => st # None
<1>0. st.completed \in Seq(StageNames)
  BY Zenon DEF Checkpoint
<1>1. st.completed \in Seq(StageNames) /\ Len(st.completed) \in Nat
  BY <1>0
<1>3. ASSUME st.pending # "" => Len(st.completed) < Len(Stages) /\ st.pending = Stages[Len(st.completed) + 1]
      PROVE  /\ st.pending = "apply" => plan # "preview" /\ Len(st.completed) = ApplyAt
             /\ st.pending = "replace_database" => plan = "replace" /\ Len(st.completed) = 3
             /\ st.pending # "none"
  BY <1>1, <1>3, PendingIs, Zenon
<1>4. validateCheckpoint(st) => Sound(st)
  BY <1>1, <1>3, DoneIs, Zenon DEF validateCheckpoint, Sound, SoundIn
<1>5. Sound(st) => validateCheckpoint(st)
  BY <1>1, <1>3, DoneIs, Zenon DEF validateCheckpoint, Sound, SoundIn
<1>6. Sound(st) => st.pending # "none"
  BY <1>3, Zenon DEF Sound, SoundIn
<1> QED
  BY <1>4, <1>5, <1>6, Zenon DEF None, Fresh

-----------------------------------------------------------------------------
(* What the steps do, field by field. *)

LEMMA Constants ==
  /\ Fresh \in Checkpoint /\ None \in Checkpoint /\ Fresh.completed = <<>> /\ Len(Fresh.completed) = 0
  /\ Fresh.pending = "" /\ ~Fresh.applied /\ ~Fresh.replaced /\ ~Fresh.rollback
  /\ NoResult \in Results /\ NoResult.result = "" /\ ~NoResult.resumed
  /\ NewDriver \in Drivers
<1>1. <<>> \in Seq(StageNames) /\ Len(<<>>) = 0
  OBVIOUS
<1> QED
  BY <1>1, Zenon DEF Fresh, None, Checkpoint, NoResult, Results, NewDriver, Drivers

LEMMA Saved ==
  ASSUME Shape, NEW st \in Checkpoint, Save(st)
  PROVE  store' \in Stores /\ Sound(st) /\ store'.file = st /\ store'.durable = st
BY ValidIsSound, Zenon DEF Save, Acceptable, Shape, Stores

LEMMA NotSaved ==
  ASSUME Shape, NEW st \in Checkpoint, SaveFails(st)
  PROVE  /\ store' \in Stores
         /\ \/ store'.file = store.file /\ store'.durable = store.durable
            \/ Sound(st) /\ store'.file = st /\ store'.durable \in {st, store.durable}
<1>0. store \in Stores
  BY DEF Shape
<1>1. CASE UNCHANGED store
  BY <1>0, <1>1
<1>2. CASE Acceptable(st) /\ store' = [store EXCEPT !.left = TRUE]
  BY <1>0, <1>2, Zenon DEF Stores
<1>3. ASSUME Acceptable(st), NEW d \in {st, store.durable},
             store' = [store EXCEPT !.file = st, !.last = st, !.durable = d]
      PROVE  store' \in Stores /\ Sound(st) /\ store'.file = st /\ store'.durable \in {st, store.durable}
  <2>1. Sound(st)
    BY <1>3, ValidIsSound DEF Acceptable
  <2>2. d \in Checkpoint
    BY <1>0, <1>3 DEF Stores
  <2> QED
    BY <1>0, <1>3, <2>1, <2>2, Zenon DEF Stores
<1> QED
  BY <1>1, <1>2, <1>3 DEF SaveFails

LEMMA Reported == \A r \in {"passed", "failed", "outcome_unknown"} :
  Report(r) => result' \in Results /\ result'.result = r /\ ~result'.resumed
BY Zenon DEF Report, NoResult, Results

LEMMA OutcomesAre ==
  /\ Known \in Outcomes /\ Known.known /\ ~Known.applied /\ ~Known.replaced
  /\ Unknown \in Outcomes /\ ~Unknown.known
  /\ [Known EXCEPT !.applied = TRUE] \in Outcomes /\ [Known EXCEPT !.applied = TRUE].known
  /\ [Known EXCEPT !.applied = TRUE].applied /\ ~[Known EXCEPT !.applied = TRUE].replaced
  /\ [Known EXCEPT !.replaced = TRUE] \in Outcomes /\ [Known EXCEPT !.replaced = TRUE].known
  /\ [Known EXCEPT !.replaced = TRUE].replaced /\ ~[Known EXCEPT !.replaced = TRUE].applied
BY Zenon DEF Known, Unknown, Outcomes

(* The two ways Driver.Step's return is taken. *)
Completes ==
  /\ pc' = "completed" /\ UNCHANGED result
  /\ state'.completed = Append(state.completed, state.pending) /\ state'.pending = ""
Fails(out) ==
  /\ pc' = IF state.pending \in {"apply", "replace_database"} /\ ~out.known THEN "assess" ELSE "finish"
  /\ state'.completed = state.completed /\ state'.pending = state.pending
  /\ result'.result = "failed" /\ ~result'.resumed

LEMMA RecordedFields ==
  ASSUME NEW st \in Checkpoint, NEW out \in Outcomes
  PROVE  /\ Recorded(st, out) \in Checkpoint
         /\ Recorded(st, out).completed = st.completed /\ Recorded(st, out).pending = st.pending
         /\ Recorded(st, out).rollback = st.rollback
         /\ Recorded(st, out).applied = (st.applied \/ out.applied)
         /\ Recorded(st, out).replaced = (st.replaced \/ out.replaced)
BY Zenon DEF Recorded, Checkpoint, Outcomes

LEMMA Returned ==
  ASSUME Shape, state.pending \in StageNames, NEW ok \in BOOLEAN, NEW out \in Outcomes, StepReturns(ok, out)
  PROVE  /\ pc' \in Pcs /\ pc' # "sql" /\ state' \in Checkpoint /\ result' \in Results
         /\ state'.rollback = state.rollback
         /\ state'.applied = (state.applied \/ (out.known /\ out.applied))
         /\ state'.replaced = (state.replaced \/ (out.known /\ out.replaced))
         /\ \/ /\ ok /\ Completes
               /\ state.pending = "apply" => out.known /\ out.applied
               /\ state.pending = "replace_database" => out.known /\ out.replaced
            \/ Fails(out)
<1> DEFINE st == IF out.known THEN Recorded(state, out) ELSE state
<1>0. state \in Checkpoint /\ result \in Results
  BY DEF Shape
<1>1. /\ st \in Checkpoint /\ st.completed = state.completed /\ st.pending = state.pending
      /\ st.rollback = state.rollback
      /\ st.applied = (state.applied \/ (out.known /\ out.applied))
      /\ st.replaced = (state.replaced \/ (out.known /\ out.replaced))
  <2>1. CASE out.known
    BY <1>0, <2>1, RecordedFields
  <2>2. CASE ~out.known
    BY <1>0, <2>2, Zenon DEF Checkpoint
  <2> QED
    BY <2>1, <2>2
<1> HIDE DEF st
<1>2. \/ /\ ok
         /\ state.pending = "apply" => out.known /\ out.applied
         /\ state.pending = "replace_database" => out.known /\ out.replaced
         /\ state' = [st EXCEPT !.completed = Append(@, state.pending), !.pending = ""]
         /\ pc' = "completed" /\ UNCHANGED result
      \/ /\ state' = st
         /\ pc' = IF state.pending \in {"apply", "replace_database"} /\ ~out.known THEN "assess" ELSE "finish"
         /\ Report("failed")
  BY DEF StepReturns, st
<1>3. CASE /\ ok
           /\ state.pending = "apply" => out.known /\ out.applied
           /\ state.pending = "replace_database" => out.known /\ out.replaced
           /\ state' = [st EXCEPT !.completed = Append(@, state.pending), !.pending = ""]
           /\ pc' = "completed" /\ UNCHANGED result
  <2>0. st.completed \in Seq(StageNames)
    BY <1>1, Zenon DEF Checkpoint
  <2>1. Append(st.completed, state.pending) \in Seq(StageNames)
    BY <2>0
  <2>2. state' \in Checkpoint /\ state'.completed = Append(st.completed, state.pending) /\ state'.pending = ""
        /\ state'.rollback = st.rollback /\ state'.applied = st.applied /\ state'.replaced = st.replaced
    BY <1>1, <1>3, <2>1, Zenon DEF Checkpoint
  <2>3. Completes
    BY <1>1, <1>3, <2>2 DEF Completes
  <2>4. pc' \in Pcs /\ pc' # "sql" /\ result' \in Results
    BY <1>0, <1>3 DEF Pcs
  <2>5. /\ state'.rollback = state.rollback
        /\ state'.applied = (state.applied \/ (out.known /\ out.applied))
        /\ state'.replaced = (state.replaced \/ (out.known /\ out.replaced))
    BY <1>1, <2>2, Zenon
  <2> QED
    BY <1>3, <2>2, <2>3, <2>4, <2>5
<1>4. CASE /\ state' = st
           /\ pc' = IF state.pending \in {"apply", "replace_database"} /\ ~out.known THEN "assess" ELSE "finish"
           /\ Report("failed")
  <2>1. result' \in Results /\ result'.result = "failed" /\ ~result'.resumed
    BY <1>4, Reported
  <2> QED
    BY <1>1, <1>4, <2>1 DEF Fails, Pcs
<1> QED
  BY <1>2, <1>3, <1>4

LEMMA ShapeParts ==
  ASSUME Shape
  PROVE  /\ state.completed \in Seq(StageNames) /\ Len(state.completed) \in Nat /\ ApplyAt \in Nat
         /\ state.pending \in StageNames \cup {"", "none"}
         /\ count.replace \in Nat /\ count.apply \in Nat /\ count.rollback \in Nat
<1>1. state.completed \in Seq(StageNames)
  BY Zenon DEF Shape, Checkpoint
<1>2. Len(state.completed) \in Nat
  BY <1>1
<1> QED
  BY <1>1, <1>2, Zenon DEF Shape, Checkpoint, Counts, ApplyAt

LEMMA StartFields ==
  ASSUME Shape, Start
  PROVE  /\ UNCHANGED <<plan, world, count>> /\ runs' = runs + 1 /\ runs < MaxRuns
         /\ driver' = NewDriver /\ store' \in Stores
         /\ store'.file = store.file /\ store'.durable = store.durable
         /\ result' \in Results /\ state' \in Checkpoint
         /\ \/ store.file = None /\ pc' = "perform" /\ state' = Fresh /\ result' = NoResult
            \/ store.file # None /\ pc' = "end" /\ result'.resumed
<1>1. store' \in Stores /\ store'.file = store.file /\ store'.durable = store.durable
  BY DEF Start, Shape, Stores
<1>2. CASE store.file = None
  BY <1>1, <1>2, Constants, Zenon DEF Start
<1>3. CASE store.file # None
  <2>1. PICK r \in {"failed", "outcome_unknown", "resume_assessment_required"} :
          result' = [NoResult EXCEPT !.result = r, !.resumed = TRUE]
    BY <1>3 DEF Start
  <2>2. result' \in Results /\ result'.resumed
    BY <2>1, Zenon DEF NoResult, Results
  <2>3. state' \in Checkpoint
    BY <1>3 DEF Start, Shape, Stores
  <2> QED
    BY <1>1, <1>3, <2>2, <2>3 DEF Start
<1> QED
  BY <1>2, <1>3

(* state.pending of a stage that begins. *)
LEMMA Intent ==
  ASSUME Shape, NEW stage \in StageNames
  PROVE  /\ [state EXCEPT !.pending = stage] \in Checkpoint
         /\ [state EXCEPT !.pending = stage].completed = state.completed
         /\ [state EXCEPT !.pending = stage].pending = stage
         /\ [state EXCEPT !.pending = stage].applied = state.applied
         /\ [state EXCEPT !.pending = stage].replaced = state.replaced
         /\ [state EXCEPT !.pending = stage].rollback = state.rollback
         /\ [state EXCEPT !.rollback = TRUE] \in Checkpoint
         /\ [state EXCEPT !.rollback = TRUE].completed = state.completed
         /\ [state EXCEPT !.rollback = TRUE].pending = state.pending
         /\ [state EXCEPT !.rollback = TRUE].applied = state.applied
         /\ [state EXCEPT !.rollback = TRUE].replaced = state.replaced
         /\ [state EXCEPT !.rollback = TRUE].rollback
BY Zenon DEF Shape, Checkpoint

NotMutating == UNCHANGED <<plan, runs, driver, world, count>>

(* How a checkpoint may be saved. *)
Stored(st) == store' \in Stores /\ Sound(st) /\ store'.file = st /\ store'.durable = st
NotStored(st) ==
  /\ store' \in Stores
  /\ \/ store'.file = store.file /\ store'.durable = store.durable
     \/ Sound(st) /\ store'.file = st /\ store'.durable \in {st, store.durable}

LEMMA PerformFields ==
  ASSUME Shape, Perform
  PROVE  /\ NotMutating /\ pc = "perform" /\ state' \in Checkpoint /\ result' \in Results
         /\ Len(state.completed) < Len(Stages)
         /\ state'.completed = state.completed /\ state'.applied = state.applied
         /\ state'.replaced = state.replaced /\ state'.rollback = state.rollback
         /\ \/ UNCHANGED <<state, store>> /\ pc' = "finish"
            \/ /\ state'.pending = Stages[Len(state.completed) + 1]
               /\ \/ Stored(state') /\ pc' = "step" /\ UNCHANGED result
                  \/ NotStored(state') /\ pc' = "finish"
         /\ pc' = "finish" => result'.result = "failed"
<1>0. state \in Checkpoint /\ result \in Results /\ pc = "perform" /\ Len(state.completed) < Len(Stages)
      /\ NotMutating
  BY DEF Perform, Shape, NotMutating
<1>1. CASE pc' = "finish" /\ Report("failed") /\ UNCHANGED <<state, store>>
  BY <1>0, <1>1, Reported
<1>2. CASE state' = [state EXCEPT !.pending = Stage]
  <2>1. Stage \in StageNames /\ Stage = Stages[Len(state.completed) + 1]
    <3>1. Stages \in Seq(StageNames) /\ Len(state.completed) \in Nat
      BY StagesAre, ShapeParts, Zenon
    <3> QED
      BY <1>0, <3>1 DEF Stage
  <2>2. /\ state' \in Checkpoint /\ state'.pending = Stages[Len(state.completed) + 1]
        /\ state'.completed = state.completed /\ state'.applied = state.applied
        /\ state'.replaced = state.replaced /\ state'.rollback = state.rollback
    BY <1>2, <2>1, Intent
  <2>3. CASE Save(state') /\ pc' = "step" /\ UNCHANGED result
    BY <1>0, <2>2, <2>3, Saved DEF Stored
  <2>4. CASE SaveFails(state') /\ pc' = "finish" /\ Report("failed")
    BY <1>0, <2>2, <2>4, NotSaved, Reported DEF NotStored
  <2>5. CASE pc' = "finish" /\ Report("failed") /\ UNCHANGED <<state, store>>
    BY <1>1, <2>5
  <2> QED
    BY <2>3, <2>4, <2>5 DEF Perform
<1> QED
  BY <1>1, <1>2 DEF Perform

LEMMA CompleteFields ==
  ASSUME Shape, Complete
  PROVE  /\ NotMutating /\ UNCHANGED state /\ pc = "completed" /\ result' \in Results
         /\ \/ Stored(state) /\ pc' = "perform" /\ UNCHANGED result
            \/ NotStored(state) /\ pc' = "finish" /\ result'.result = "failed"
<1>0. state \in Checkpoint /\ result \in Results /\ pc = "completed" /\ NotMutating /\ UNCHANGED state
  BY DEF Complete, Shape, NotMutating
<1>1. CASE Save(state) /\ pc' = "perform" /\ UNCHANGED result
  BY <1>0, <1>1, Saved DEF Stored
<1>2. CASE SaveFails(state) /\ pc' = "finish" /\ Report("failed")
  BY <1>0, <1>2, NotSaved, Reported DEF NotStored
<1> QED
  BY <1>1, <1>2 DEF Complete

LEMMA PassedFields ==
  ASSUME Shape, Passed
  PROVE  /\ NotMutating /\ UNCHANGED <<state, store>> /\ pc = "perform" /\ pc' = "finish"
         /\ Len(state.completed) = Len(Stages)
         /\ result' \in Results /\ result'.result = "passed"
BY Reported DEF Passed, NotMutating

LEMMA DatabaseOutcome ==
  ASSUME Shape
  PROVE  /\ AssessReplacement \in Outcomes /\ ~AssessReplacement.applied
         /\ AssessReplacement.known =>
              \/ world.live = "restored" /\ AssessReplacement.replaced
              \/ world.live = "original" /\ ~AssessReplacement.replaced
<1>1. CASE ~driver.captured
  BY <1>1, OutcomesAre DEF AssessReplacement, Unknown
<1>2. CASE driver.captured /\ world.live = "original" /\ world.temp
  BY <1>2, OutcomesAre DEF AssessReplacement
<1>3. CASE driver.captured /\ world.live = "restored" /\ ~world.temp
  <2>1. AssessReplacement = [Known EXCEPT !.replaced = TRUE]
    BY <1>3 DEF AssessReplacement
  <2> QED
    BY <1>3, <2>1, OutcomesAre
<1>4. CASE /\ driver.captured /\ ~(world.live = "original" /\ world.temp)
           /\ ~(world.live = "restored" /\ ~world.temp)
  BY <1>4, OutcomesAre DEF AssessReplacement, Unknown
<1> QED
  BY <1>1, <1>2, <1>3, <1>4

LEMMA HelmOutcome ==
  ASSUME Shape
  PROVE  /\ reconcileHelm \in Outcomes /\ ~reconcileHelm.replaced
         /\ reconcileHelm.known =>
              \/ world.helm = Original /\ ~reconcileHelm.applied
              \/ world.helm = Target /\ reconcileHelm.applied
<1>1. CASE world.helm = Original
  BY <1>1, OutcomesAre DEF reconcileHelm
<1>2. CASE world.helm = Target
  <2>1. world.helm # Original /\ world.helm.status = "deployed" /\ world.helm.moved
        /\ world.helm.version = "target"
    BY <1>2 DEF Target, Original
  <2> QED
    BY <1>2, <2>1, OutcomesAre DEF reconcileHelm
<1>3. CASE world.helm = RolledBack \/ world.helm = Broken
  <2>1. /\ world.helm # Original
        /\ ~(world.helm.status = "deployed" /\ world.helm.moved /\ world.helm.version = "target")
    BY <1>3 DEF RolledBack, Broken, Target, Original
  <2> QED
    BY <2>1, OutcomesAre DEF reconcileHelm, Unknown
<1> QED
  BY <1>1, <1>2, <1>3 DEF Shape, Worlds, Helms

(* Reconcile looks at the database, at the release, or at both. *)
LEMMA Reconciled ==
  ASSUME Shape
  PROVE  /\ Reconcile(state) \in Outcomes
         /\ Reconcile(state).known =>
              \/ /\ plan # "replace" /\ reconcileHelm.known /\ ~Reconcile(state).replaced
                 /\ Reconcile(state).applied = reconcileHelm.applied
              \/ /\ plan = "replace" /\ AssessReplacement.known
                 /\ Reconcile(state).replaced = AssessReplacement.replaced
                 /\ \/ state.pending = "replace_database" /\ ~Reconcile(state).applied
                    \/ reconcileHelm.known /\ Reconcile(state).applied = reconcileHelm.applied
<1>1. CASE plan # "replace"
  <2>1. Reconcile(state) = reconcileHelm
    BY <1>1 DEF Reconcile
  <2> QED
    BY <1>1, <2>1, HelmOutcome
<1>2. CASE plan = "replace" /\ (~AssessReplacement.known \/ state.pending = "replace_database")
  <2>1. Reconcile(state) = AssessReplacement
    BY <1>2, Zenon DEF Reconcile
  <2> QED
    BY <1>2, <2>1, DatabaseOutcome
<1>3. CASE /\ plan = "replace" /\ AssessReplacement.known /\ state.pending # "replace_database"
           /\ ~reconcileHelm.known
  <2>1. Reconcile(state) = Unknown
    BY <1>3 DEF Reconcile
  <2> QED
    BY <2>1, OutcomesAre
<1>4. CASE /\ plan = "replace" /\ AssessReplacement.known /\ state.pending # "replace_database"
           /\ reconcileHelm.known
  <2>1. Reconcile(state) = [reconcileHelm EXCEPT !.replaced = AssessReplacement.replaced]
    BY <1>4 DEF Reconcile
  <2>2. reconcileHelm \in Outcomes /\ AssessReplacement \in Outcomes
    BY HelmOutcome, DatabaseOutcome
  <2>3. /\ Reconcile(state) \in Outcomes /\ Reconcile(state).replaced = AssessReplacement.replaced
        /\ Reconcile(state).applied = reconcileHelm.applied
    BY <2>1, <2>2 DEF Outcomes
  <2> QED
    BY <1>4, <2>3
<1> QED
  BY <1>1, <1>2, <1>3, <1>4

LEMMA AssessFields ==
  ASSUME Shape, AssessUnknown
  PROVE  /\ UNCHANGED <<plan, runs, driver, world>> /\ pc = "assess" /\ state' \in Checkpoint /\ result' \in Results
         /\ count' \in Counts /\ count'.replace = count.replace /\ count'.apply = count.apply
         /\ count'.rollback = count.rollback
         /\ state'.completed = state.completed /\ state'.pending = state.pending
         /\ state'.rollback = state.rollback
         /\ \/ /\ pc' = "end" /\ result'.result = "outcome_unknown" /\ UNCHANGED count
               /\ \/ UNCHANGED store
                  \/ NotStored(state')
            \/ /\ pc' = "finish" /\ UNCHANGED result /\ Reconcile(state).known /\ Stored(state')
               /\ count'.early = (count.early \/ AtWork)
               /\ state'.applied = (state.applied \/ Reconcile(state).applied)
               /\ state'.replaced = (state.replaced \/ Reconcile(state).replaced)
<1> DEFINE st == Recorded(state, Reconcile(state))
<1>0. /\ state \in Checkpoint /\ result \in Results /\ pc = "assess" /\ UNCHANGED <<plan, runs, driver, world>>
      /\ count \in Counts
  BY DEF AssessUnknown, Shape
<1>1. /\ st \in Checkpoint /\ st.completed = state.completed /\ st.pending = state.pending
      /\ st.rollback = state.rollback
      /\ st.applied = (state.applied \/ Reconcile(state).applied)
      /\ st.replaced = (state.replaced \/ Reconcile(state).replaced)
  BY <1>0, RecordedFields, Reconciled
<1>2. \/ pc' = "end" /\ Report("outcome_unknown") /\ UNCHANGED <<state, store, count>>
      \/ /\ Reconcile(state).known /\ state' = st
         /\ \/ /\ Save(st) /\ pc' = "finish" /\ UNCHANGED result
               /\ count' = [count EXCEPT !.early = @ \/ AtWork]
            \/ SaveFails(st) /\ pc' = "end" /\ Report("outcome_unknown") /\ UNCHANGED count
  BY DEF AssessUnknown
<1> HIDE DEF st
<1>3. CASE pc' = "end" /\ Report("outcome_unknown") /\ UNCHANGED <<state, store, count>>
  BY <1>0, <1>3, Reported
<1>4. CASE /\ Reconcile(state).known /\ state' = st /\ Save(st) /\ pc' = "finish" /\ UNCHANGED result
           /\ count' = [count EXCEPT !.early = @ \/ AtWork]
  <2>1. AtWork \in BOOLEAN
    BY DEF AtWork
  <2>2. /\ count' \in Counts /\ count'.replace = count.replace /\ count'.apply = count.apply
        /\ count'.rollback = count.rollback /\ count'.early = (count.early \/ AtWork)
    BY <1>0, <1>4, <2>1, Zenon DEF Counts
  <2> QED
    BY <1>0, <1>1, <1>4, <2>2, Saved DEF Stored
<1>5. CASE state' = st /\ SaveFails(st) /\ pc' = "end" /\ Report("outcome_unknown") /\ UNCHANGED count
  BY <1>0, <1>1, <1>5, NotSaved, Reported DEF NotStored
<1> QED
  BY <1>2, <1>3, <1>4, <1>5

LEMMA FinishFields ==
  ASSUME Shape, Finish
  PROVE  /\ NotMutating /\ pc = "finish" /\ pc' \in {"rollback", "cleanup"}
         /\ state' \in Checkpoint /\ result' \in Results
         /\ result'.result = result.result /\ result'.resumed = result.resumed
         /\ state'.completed = state.completed /\ state'.pending = state.pending
         /\ state'.applied = state.applied /\ state'.replaced = state.replaced
         /\ \/ pc' = "cleanup" /\ UNCHANGED <<state, store>>
            \/ /\ result.result # "passed" /\ state.applied /\ state'.rollback
               /\ \/ Stored(state')
                  \/ pc' = "cleanup" /\ NotStored(state')
<1>0. state \in Checkpoint /\ result \in Results /\ pc = "finish" /\ NotMutating
  BY DEF Finish, Shape, NotMutating
<1>1. CASE pc' = "cleanup" /\ UNCHANGED <<state, result, store>>
  BY <1>0, <1>1
<1>2. CASE /\ result.result # "passed" /\ state.applied /\ state' = [state EXCEPT !.rollback = TRUE]
           /\ \/ Save(state') /\ pc' = "rollback" /\ UNCHANGED result
              \/ /\ Save(state') \/ SaveFails(state')
                 /\ pc' = "cleanup" /\ result' = [result EXCEPT !.rollbackFailed = TRUE]
  <2>1. /\ state' \in Checkpoint /\ state'.completed = state.completed /\ state'.pending = state.pending
        /\ state'.applied = state.applied /\ state'.replaced = state.replaced /\ state'.rollback
    BY <1>0, <1>2, Zenon DEF Checkpoint
  <2>2. /\ result' \in Results /\ result'.result = result.result /\ result'.resumed = result.resumed
    BY <1>0, <1>2, Zenon DEF Results
  <2>3. Save(state') => Stored(state')
    BY <2>1, Saved DEF Stored
  <2>4. SaveFails(state') => NotStored(state')
    BY <2>1, NotSaved DEF NotStored
  <2> QED
    BY <1>0, <1>2, <2>1, <2>2, <2>3, <2>4, Zenon
<1> QED
  BY <1>1, <1>2 DEF Finish

(* A step that returns out, without error if ok; the stage it is of. *)
Returns(stage, ok, out) ==
  /\ pc = "step" /\ state.pending = stage /\ UNCHANGED <<plan, runs, store>>
  /\ StepReturns(ok, out)

LEMMA VerifyFields ==
  ASSUME Shape, StepVerify
  PROVE  /\ NotMutating
         /\ \E stage \in {"verify", "dry_run"} : Returns(stage, TRUE, Known)
BY Zenon DEF StepVerify, AtStep, Verify, NotMutating, Returns

LEMMA BackupFields ==
  ASSUME Shape, StepBackup
  PROVE  /\ UNCHANGED count /\ driver' \in Drivers /\ world' \in Worlds
         /\ \E ok \in BOOLEAN : /\ Returns("backup", ok, Known)
                                /\ ok => driver'.temp = "attempted"
         /\ driver'.quiescing = driver.quiescing
         /\ world'.helm = world.helm /\ world'.live = world.live /\ world'.sql = world.sql /\ world'.up = world.up
         /\ world.temp => world'.temp
<1>0. driver \in Drivers /\ world \in Worlds
  BY DEF Shape
<1>1. ASSUME NEW t \in {"absent", "bound"}, driver' = [driver EXCEPT !.temp = t], UNCHANGED world
      PROVE  /\ driver' \in Drivers /\ world' \in Worlds /\ driver'.quiescing = driver.quiescing
             /\ UNCHANGED world
  BY <1>0, <1>1 DEF Drivers
<1>2. ASSUME NEW made \in BOOLEAN, NEW captured \in BOOLEAN, ~world.temp,
             driver' = [driver EXCEPT !.temp = "attempted", !.captured = captured],
             world' = [world EXCEPT !.temp = made]
      PROVE  /\ driver' \in Drivers /\ world' \in Worlds /\ driver'.quiescing = driver.quiescing
             /\ driver'.temp = "attempted"
             /\ world'.helm = world.helm /\ world'.live = world.live /\ world'.sql = world.sql
             /\ world'.up = world.up
  BY <1>0, <1>2, Zenon DEF Drivers, Worlds
<1>3. CASE /\ \E t \in {"absent", "bound"} : driver' = [driver EXCEPT !.temp = t]
           /\ UNCHANGED world /\ StepReturns(FALSE, Known)
  <2>1. Returns("backup", FALSE, Known) /\ UNCHANGED count
    BY <1>3, Zenon DEF StepBackup, AtStep, Returns
  <2> QED
    BY <1>0, <1>1, <1>3, <2>1, Zenon
<1>4. ASSUME ~world.temp, NEW made \in BOOLEAN, NEW captured \in BOOLEAN,
             driver' = [driver EXCEPT !.temp = "attempted", !.captured = captured],
             world' = [world EXCEPT !.temp = made],
             StepReturns(made /\ (plan = "replace" => captured), Known)
      PROVE  \E ok \in BOOLEAN : Returns("backup", ok, Known)
  BY <1>4, Zenon DEF StepBackup, AtStep, Returns
<1>5. UNCHANGED count
  BY Zenon DEF StepBackup
<1> QED
  BY <1>2, <1>3, <1>4, <1>5, Zenon DEF StepBackup

LEMMA ReplaceFields ==
  ASSUME Shape, StepReplace
  PROVE  /\ driver' \in Drivers /\ world' \in Worlds /\ count' \in Counts
         /\ driver'.temp = driver.temp /\ (~world'.up => ~world.up \/ driver'.quiescing)
         /\ driver.quiescing => driver'.quiescing
         /\ world'.helm = world.helm /\ world'.live = world.live /\ world'.temp = world.temp
         /\ \/ Returns("replace_database", FALSE, Known) /\ UNCHANGED count /\ world'.sql = world.sql
            \/ /\ pc = "step" /\ state.pending = "replace_database" /\ pc' = "sql"
               /\ UNCHANGED <<plan, runs, state, result, store>>
               /\ driver'.quiescing /\ world'.sql = "running"
               /\ count'.replace = count.replace + 1 /\ count'.apply = count.apply
               /\ count'.rollback = count.rollback /\ count'.early = count.early
<1>0. driver \in Drivers /\ world \in Worlds /\ count \in Counts
  BY DEF Shape
<1>1. ASSUME NEW q \in BOOLEAN, NEW up \in BOOLEAN, ~q => up = world.up,
             driver' = [driver EXCEPT !.quiescing = @ \/ q], world' = [world EXCEPT !.up = up]
      PROVE  /\ driver' \in Drivers /\ world' \in Worlds
             /\ driver'.temp = driver.temp /\ (~world'.up => ~world.up \/ driver'.quiescing)
             /\ driver.quiescing => driver'.quiescing
             /\ world'.helm = world.helm /\ world'.live = world.live /\ world'.temp = world.temp
             /\ world'.sql = world.sql
  BY <1>0, <1>1 DEF Drivers, Worlds
<1>2. CASE /\ \E q, up \in BOOLEAN :
                /\ ~q => up = world.up
                /\ driver' = [driver EXCEPT !.quiescing = @ \/ q]
                /\ world' = [world EXCEPT !.up = up]
           /\ StepReturns(FALSE, Known) /\ UNCHANGED count
  <2>1. Returns("replace_database", FALSE, Known)
    BY <1>2, Zenon DEF StepReplace, AtStep, Returns
  <2> QED
    BY <1>0, <1>1, <1>2, <2>1, Zenon
<1>3. CASE /\ driver' = [driver EXCEPT !.quiescing = TRUE]
           /\ world' = [world EXCEPT !.up = FALSE, !.sql = "running"]
           /\ count' = [count EXCEPT !.replace = @ + 1]
           /\ pc' = "sql" /\ UNCHANGED <<state, result>>
  <2>1. /\ driver' \in Drivers /\ driver'.temp = driver.temp /\ driver'.quiescing
    BY <1>0, <1>3, Zenon DEF Drivers
  <2>2. /\ world' \in Worlds /\ world'.sql = "running"
        /\ world'.helm = world.helm /\ world'.live = world.live /\ world'.temp = world.temp
    BY <1>0, <1>3, Zenon DEF Worlds
  <2>3. /\ count' \in Counts /\ count'.replace = count.replace + 1 /\ count'.apply = count.apply
        /\ count'.rollback = count.rollback /\ count'.early = count.early
    BY <1>0, <1>3 DEF Counts
  <2>4. pc = "step" /\ state.pending = "replace_database" /\ UNCHANGED <<plan, runs, store>>
    BY DEF StepReplace, AtStep
  <2> QED
    BY <1>3, <2>1, <2>2, <2>3, <2>4
<1> QED
  BY <1>2, <1>3, Zenon DEF StepReplace

LEMMA OrphanedFields ==
  ASSUME Shape, NEW w \in Orphaned
  PROVE  /\ w \in Worlds
         /\ w.helm = world.helm /\ w.live = world.live /\ w.temp = world.temp /\ w.up = world.up
         /\ w.sql = world.sql \/ (w.sql = "failed" /\ AtWork)
<1>0. world \in Worlds
  BY DEF Shape
<1>1. w = world \/ (w = [world EXCEPT !.sql = "failed"] /\ AtWork)
  BY DEF Orphaned
<1> QED
  BY <1>0, <1>1, Zenon DEF Worlds

LEMMA ReturnsFields ==
  ASSUME Shape, ReplaceReturns
  PROVE  /\ pc = "sql" /\ UNCHANGED <<plan, runs, store, driver, count>> /\ world' \in Worlds
         /\ \/ world.sql = "finished" /\ UNCHANGED world /\ StepReturns(TRUE, AssessReplacement)
            \/ world' \in Orphaned /\ StepReturns(FALSE, Unknown)
BY OrphanedFields, Zenon DEF ReplaceReturns, Shape

LEMMA ApplyFields ==
  ASSUME Shape, StepApply
  PROVE  /\ UNCHANGED driver /\ world' \in Worlds /\ count' \in Counts
         /\ world'.live = world.live /\ world'.temp = world.temp /\ world'.sql = world.sql
         /\ world.up => world'.up
         /\ \/ UNCHANGED <<world, count>> /\ Returns("apply", FALSE, Known)
            \/ /\ count'.apply = count.apply + 1 /\ count'.replace = count.replace
               /\ count'.rollback = count.rollback /\ count'.early = count.early
               /\ world'.helm = Target => world.helm = Target \/ world'.up
               /\ \/ world'.helm = Target /\ Returns("apply", TRUE, [Known EXCEPT !.applied = TRUE])
                  \/ Returns("apply", FALSE, Unknown)
<1>0. world \in Worlds /\ count \in Counts
  BY DEF Shape
<1>1. CASE UNCHANGED <<world, count>> /\ StepReturns(FALSE, Known)
  <2>1. Returns("apply", FALSE, Known) /\ UNCHANGED driver
    BY <1>1, Zenon DEF StepApply, AtStep, Returns
  <2> QED
    BY <1>0, <1>1, <2>1, Zenon
<1>2. ASSUME NEW h \in Helms, NEW up \in BOOLEAN, world' = [world EXCEPT !.helm = h, !.up = up],
             world.up => up, h = Target => h = world.helm \/ up
      PROVE  /\ world' \in Worlds /\ world'.live = world.live /\ world'.temp = world.temp
             /\ world'.sql = world.sql /\ world'.helm = h
             /\ world.up => world'.up
             /\ world'.helm = Target => world.helm = Target \/ world'.up
  BY <1>0, <1>2, Zenon DEF Worlds
<1>3. ASSUME count' = [count EXCEPT !.apply = @ + 1]
      PROVE  /\ count' \in Counts /\ count'.apply = count.apply + 1 /\ count'.replace = count.replace
             /\ count'.rollback = count.rollback /\ count'.early = count.early
  BY <1>0, <1>3 DEF Counts
<1>4. CASE /\ count' = [count EXCEPT !.apply = @ + 1]
           /\ world' = [world EXCEPT !.helm = Target, !.up = TRUE]
           /\ StepReturns(TRUE, [Known EXCEPT !.applied = TRUE])
  <2>1. Returns("apply", TRUE, [Known EXCEPT !.applied = TRUE]) /\ UNCHANGED driver
    BY <1>4, Zenon DEF StepApply, AtStep, Returns
  <2>2. Target \in Helms
    BY DEF Helms
  <2> QED
    BY <1>2, <1>3, <1>4, <2>1, <2>2, Zenon
<1>5. ASSUME count' = [count EXCEPT !.apply = @ + 1],
             NEW h \in {world.helm, Target, RolledBack, Broken},
             world' = [world EXCEPT !.helm = h, !.up = @ \/ h \in {Target, RolledBack}],
             StepReturns(FALSE, RunStageFailed(Unknown))
      PROVE  /\ world' \in Worlds /\ world'.live = world.live /\ world'.temp = world.temp
             /\ world'.sql = world.sql
             /\ world.up => world'.up
             /\ world'.helm = Target => world.helm = Target \/ world'.up
             /\ Returns("apply", FALSE, Unknown) /\ UNCHANGED driver
  <2>1. Returns("apply", FALSE, Unknown) /\ UNCHANGED driver
    BY <1>5, Zenon DEF StepApply, AtStep, Returns, RunStageFailed
  <2>2. h \in Helms /\ world.up \in BOOLEAN
    BY <1>0 DEF Helms, Worlds
  <2> DEFINE up == world.up \/ h \in {Target, RolledBack}
  <2>3. world' = [world EXCEPT !.helm = h, !.up = up]
    BY <1>5
  <2>4. up \in BOOLEAN /\ (world.up => up) /\ (h = Target => up)
    BY <2>2
  <2> HIDE DEF up
  <2> QED
    BY <1>2, <2>1, <2>2, <2>3, <2>4, Zenon
<1> QED
  BY <1>1, <1>3, <1>4, <1>5, Zenon DEF StepApply

LEMMA ObserveFields ==
  ASSUME Shape, StepObserve
  PROVE  /\ NotMutating
         /\ \E ok \in BOOLEAN : Returns("observe", ok, Known) /\ (ok => world.helm = Target)
<1>1. NotMutating /\ Returns("observe", world.helm = Target, Known)
  BY DEF StepObserve, AtStep, NotMutating, Returns
<1>2. (world.helm = Target) \in BOOLEAN
  OBVIOUS
<1> QED
  BY <1>1, <1>2, Zenon

LEMMA RollbackFields ==
  ASSUME Shape, StepRollback
  PROVE  /\ pc = "rollback" /\ pc' = "cleanup" /\ UNCHANGED <<plan, runs, state, store, driver>>
         /\ world' \in Worlds /\ count' \in Counts /\ result' \in Results
         /\ result'.result = result.result /\ result'.resumed = result.resumed
         /\ world'.live = world.live /\ world'.temp = world.temp /\ world'.sql = world.sql
         /\ world.up => world'.up
         /\ world'.helm = Target => world.helm = Target
         /\ count'.apply = count.apply /\ count'.replace = count.replace /\ count'.early = count.early
         /\ count'.rollback = count.rollback \/ count'.rollback = count.rollback + 1
<1>0. world \in Worlds /\ count \in Counts /\ result \in Results
  BY DEF Shape
<1>1. pc = "rollback" /\ pc' = "cleanup" /\ UNCHANGED <<plan, runs, state, store, driver>>
  BY DEF StepRollback
<1>2. ASSUME NEW failed \in BOOLEAN, result' = [result EXCEPT !.rollbackFailed = failed]
      PROVE  result' \in Results /\ result'.result = result.result /\ result'.resumed = result.resumed
  BY <1>0, <1>2, Zenon DEF Results
<1>3. CASE result' = [result EXCEPT !.rollbackFailed = TRUE] /\ UNCHANGED <<world, count>>
  BY <1>0, <1>1, <1>2, <1>3, Zenon
<1>4. ASSUME count' = [count EXCEPT !.rollback = @ + 1]
      PROVE  /\ count' \in Counts /\ count'.apply = count.apply /\ count'.replace = count.replace
             /\ count'.rollback = count.rollback + 1 /\ count'.early = count.early
  BY <1>0, <1>4 DEF Counts
<1>5. ASSUME NEW h \in {world.helm, RolledBack, Broken},
             world' = [world EXCEPT !.helm = h, !.up = @ \/ h = RolledBack]
      PROVE  /\ world' \in Worlds /\ world'.live = world.live /\ world'.temp = world.temp
             /\ world'.sql = world.sql
             /\ world.up => world'.up
             /\ world'.helm = Target => world.helm = Target
  <2>1. h \in Helms /\ (h = Target => world.helm = Target)
    BY <1>0 DEF Helms, Worlds, Target, RolledBack, Broken, Original
  <2> QED
    BY <1>0, <1>5, <2>1, Zenon DEF Worlds
<1> QED
  BY <1>1, <1>2, <1>3, <1>4, <1>5 DEF StepRollback

LEMMA CleanupFields ==
  ASSUME Shape, Cleanup
  PROVE  /\ pc = "cleanup" /\ pc' = "end" /\ UNCHANGED <<plan, runs, state, store, driver, count>>
         /\ world' \in Worlds /\ result' \in Results /\ result'.resumed = result.resumed
         /\ world'.helm = world.helm /\ world'.live = world.live /\ world'.sql = world.sql
         /\ world.up => world'.up
         /\ result'.result = result.result \/ result'.result = "cleanup_failed"
         /\ ~result'.cleanupFailed =>
              /\ \E w \in RestoreReplicas : world'.up = w.up
              /\ world'.temp => driver.temp # "attempted"
         /\ result'.result = "passed" => ~result'.cleanupFailed
<1>0. world \in Worlds /\ result \in Results /\ driver \in Drivers
  BY DEF Shape
<1>1. pc = "cleanup" /\ pc' = "end" /\ UNCHANGED <<plan, runs, state, store, driver, count>>
  BY DEF Cleanup
<1>2. ASSUME NEW failed \in BOOLEAN, CleanupFailed(failed)
      PROVE  /\ result' \in Results /\ result'.resumed = result.resumed /\ result'.cleanupFailed = failed
             /\ result'.result = result.result \/ result'.result = "cleanup_failed"
             /\ result'.result = "passed" => ~failed
  BY <1>0, <1>2, Zenon DEF CleanupFailed, Results
<1>3. CASE UNCHANGED world /\ CleanupFailed(TRUE)
  BY <1>0, <1>1, <1>2, <1>3, Zenon
<1>4. ASSUME NEW w \in RestoreReplicas
      PROVE  w = world \/ w = [world EXCEPT !.up = TRUE]
  <2>1. RestoreReplicas \in {{world}, {}, {[world EXCEPT !.up = TRUE]}}
    BY DEF RestoreReplicas
  <2> HIDE DEF RestoreReplicas
  <2> QED
    BY <2>1
<1>5. ASSUME NEW w \in RestoreReplicas
      PROVE  /\ w \in Worlds /\ w.helm = world.helm /\ w.live = world.live /\ w.sql = world.sql
             /\ w.temp = world.temp
             /\ world.up => w.up
  BY <1>0, <1>4, Zenon DEF Worlds
<1>6. ASSUME NEW w \in RestoreReplicas, world' = w, CleanupFailed(driver.temp # "absent")
      PROVE  /\ world' \in Worlds /\ result' \in Results /\ result'.resumed = result.resumed
             /\ world'.helm = world.helm /\ world'.live = world.live /\ world'.sql = world.sql
             /\ world.up => world'.up
             /\ result'.result = result.result \/ result'.result = "cleanup_failed"
             /\ ~result'.cleanupFailed => driver.temp = "absent"
             /\ result'.result = "passed" => ~result'.cleanupFailed
  <2>1. (driver.temp # "absent") \in BOOLEAN
    OBVIOUS
  <2> QED
    BY <1>2, <1>5, <1>6, <2>1, Zenon
<1>7. ASSUME NEW w \in RestoreReplicas, world' = [w EXCEPT !.temp = FALSE]
      PROVE  /\ world' \in Worlds /\ world'.up = w.up /\ ~world'.temp
             /\ world'.helm = world.helm /\ world'.live = world.live /\ world'.sql = world.sql
             /\ world.up => world'.up
  BY <1>5, <1>7, Zenon DEF Worlds
<1> QED
  BY <1>1, <1>2, <1>3, <1>6, <1>7, Zenon DEF Cleanup

LEMMA SqlFields ==
  ASSUME Shape, Sql
  PROVE  /\ UNCHANGED <<plan, runs, pc, state, result, store, driver, count>>
         /\ world' \in Worlds /\ world'.helm = world.helm /\ world'.up = world.up
         /\ world'.temp => world.temp
         /\ \/ /\ world.sql = "running" /\ world'.live = world.live /\ world'.temp = world.temp
               /\ \/ world'.sql = "bound" /\ world.live = "original" /\ world.temp
                  \/ world'.sql = "failed"
            \/ /\ world.sql = "bound" /\ world'.sql = "dropped" /\ world'.live = "none"
               /\ world'.temp = world.temp
            \/ world.sql = "dropped" /\ world'.sql = "finished" /\ world'.live = "restored"
            \/ /\ world.sql = "dropped" /\ world'.sql = "failed" /\ world'.live = world.live
               /\ world'.temp = world.temp
<1>0. world \in Worlds
  BY DEF Shape
<1>1. UNCHANGED <<plan, runs, pc, state, result, store, driver, count>>
  BY DEF Sql
<1>2. CASE /\ world.sql = "running" /\ world.live = "original" /\ world.temp
           /\ world' = [world EXCEPT !.sql = "bound"]
  BY <1>0, <1>1, <1>2, Zenon DEF Worlds
<1>3. CASE world.sql = "running" /\ world' = [world EXCEPT !.sql = "failed"]
  BY <1>0, <1>1, <1>3 DEF Worlds
<1>4. CASE world.sql = "bound" /\ world' = [world EXCEPT !.sql = "dropped", !.live = "none"]
  BY <1>0, <1>1, <1>4, Zenon DEF Worlds
<1>5. CASE /\ world.sql = "dropped"
           /\ world' = [world EXCEPT !.sql = "finished", !.temp = FALSE, !.live = "restored"]
  BY <1>0, <1>1, <1>5, Zenon DEF Worlds
<1>6. CASE world.sql = "dropped" /\ world' = [world EXCEPT !.sql = "failed"]
  BY <1>0, <1>1, <1>6 DEF Worlds
<1> QED
  BY <1>2, <1>3, <1>4, <1>5, <1>6 DEF Sql

LEMMA DieFields ==
  ASSUME Shape, NEW gone \in BOOLEAN, Die(gone)
  PROVE  /\ pc \in Running /\ pc' = "off" /\ UNCHANGED <<plan, runs, count>>
         /\ state' = Fresh /\ result' = NoResult /\ driver' = NewDriver /\ world' \in Orphaned
         /\ store' \in Stores /\ store'.durable = store.durable
         /\ store'.file = store.file \/ store'.file = store.durable
<1>0. store \in Stores
  BY DEF Shape
<1>1. store' \in Stores /\ store'.durable = store.durable
      /\ (store'.file = store.file \/ store'.file = store.durable)
  <2>1. CASE gone
    BY <1>0, <2>1, Zenon DEF Die, Stores
  <2>2. CASE ~gone
    BY <1>0, <2>2 DEF Die
  <2> QED
    BY <2>1, <2>2
<1> QED
  BY <1>1 DEF Die, Running, Shape

-----------------------------------------------------------------------------
LEMMA InitShape == Init => Shape
<1> SUFFICES ASSUME Init PROVE Shape
  OBVIOUS
<1>1. world \in Worlds /\ count \in Counts
  BY DEF Init, Worlds, Counts, Helms
<1>2. store \in Stores
  BY Constants, Zenon DEF Init, Stores
<1>3. plan \in Plans /\ runs = 0 /\ pc = "off" /\ state = Fresh /\ result = NoResult /\ driver = NewDriver
  BY DEF Init
<1>4. runs \in Nat /\ runs <= MaxRuns
  BY <1>3, UpgradeConstants
<1> QED
  BY <1>1, <1>2, <1>3, <1>4, Constants, Zenon DEF Shape, Pcs

LEMMA ReturnsShape ==
  ASSUME Shape, NEW stage \in StageNames, NEW ok \in BOOLEAN, NEW out \in Outcomes, Returns(stage, ok, out)
  PROVE  /\ pc' \in Pcs /\ pc' # "sql" /\ state' \in Checkpoint /\ result' \in Results
         /\ UNCHANGED <<plan, runs, store>>
BY Returned DEF Returns

LEMMA NextShape == Shape /\ [Next]_vars => Shape'
<1> SUFFICES ASSUME Shape, [Next]_vars PROVE Shape'
  OBVIOUS
<1>0. /\ plan \in Plans /\ runs \in Nat /\ runs <= MaxRuns /\ pc \in Pcs
      /\ state \in Checkpoint /\ result \in Results /\ store \in Stores
      /\ driver \in Drivers /\ world \in Worlds /\ count \in Counts /\ MaxRuns \in Nat
      /\ (pc = "sql" => state.pending = "replace_database")
  BY UpgradeConstants DEF Shape
<1>1. CASE Start
  <2>1. runs' \in Nat /\ runs' <= MaxRuns
    BY <1>0, <1>1, StartFields
  <2>2. /\ UNCHANGED <<plan, world, count>> /\ driver' = NewDriver /\ store' \in Stores
        /\ result' \in Results /\ state' \in Checkpoint /\ pc' \in {"perform", "end"}
    BY <1>1, StartFields
  <2> QED
    BY <1>0, <2>1, <2>2, Constants, Zenon DEF Shape, Pcs
<1>2. CASE Perform
  BY <1>0, <1>2, PerformFields DEF Shape, Pcs, NotMutating, Stored, NotStored
<1>3. CASE Complete
  BY <1>0, <1>3, CompleteFields DEF Shape, Pcs, NotMutating, Stored, NotStored
<1>4. CASE Passed
  BY <1>0, <1>4, PassedFields DEF Shape, Pcs, NotMutating
<1>5. CASE AssessUnknown
  BY <1>0, <1>5, AssessFields DEF Shape, Pcs, Stored, NotStored
<1>6. CASE Finish
  BY <1>0, <1>6, FinishFields DEF Shape, Pcs, NotMutating, Stored, NotStored
<1>7. CASE StepVerify
  <2>1. \E stage \in StageNames : Returns(stage, TRUE, Known)
    BY <1>7, VerifyFields, Zenon DEF StageNames
  <2> QED
    BY <1>0, <1>7, <2>1, VerifyFields, ReturnsShape, OutcomesAre, Zenon DEF Shape, NotMutating
<1>8. CASE StepBackup
  <2>1. "backup" \in StageNames
    BY DEF StageNames
  <2> QED
    BY <1>0, <1>8, <2>1, BackupFields, ReturnsShape, OutcomesAre DEF Shape
<1>9. CASE StepReplace
  <2>1. "replace_database" \in StageNames
    BY DEF StageNames
  <2> QED
    BY <1>0, <1>9, <2>1, ReplaceFields, ReturnsShape, OutcomesAre, Zenon DEF Shape, Pcs
<1>10. CASE ReplaceReturns
  <2>1. state.pending \in StageNames
    BY <1>10, ReturnsFields, Zenon DEF Shape, StageNames
  <2>2. pc' \in Pcs /\ pc' # "sql" /\ state' \in Checkpoint /\ result' \in Results
    BY <1>10, <2>1, ReturnsFields, Returned, OutcomesAre, DatabaseOutcome, Zenon
  <2> QED
    BY <1>0, <1>10, <2>2, ReturnsFields, Zenon DEF Shape
<1>11. CASE StepApply
  <2>1. "apply" \in StageNames
    BY DEF StageNames
  <2> QED
    BY <1>0, <1>11, <2>1, ApplyFields, ReturnsShape, OutcomesAre, Zenon DEF Shape
<1>12. CASE StepObserve
  <2>1. "observe" \in StageNames
    BY DEF StageNames
  <2> QED
    BY <1>0, <1>12, <2>1, ObserveFields, ReturnsShape, OutcomesAre DEF Shape, NotMutating
<1>13. CASE StepRollback
  BY <1>0, <1>13, RollbackFields DEF Shape, Pcs
<1>14. CASE Cleanup
  BY <1>0, <1>14, CleanupFields DEF Shape, Pcs
<1>15. CASE Sql
  BY <1>0, <1>15, SqlFields DEF Shape
<1>16. ASSUME NEW gone \in BOOLEAN, Die(gone) PROVE Shape'
  BY <1>0, <1>16, DieFields, OrphanedFields, Constants, Zenon DEF Shape, Pcs
<1>17. CASE UNCHANGED vars
  BY <1>0, <1>17 DEF vars, Shape
<1> QED
  BY <1>1, <1>2, <1>3, <1>4, <1>5, <1>6, <1>7, <1>8, <1>9, <1>10, <1>11, <1>12, <1>13, <1>14, <1>15,
     <1>16, <1>17 DEF Next

-----------------------------------------------------------------------------
(* Every checkpoint is sound. *)

LEMMA SoundParts ==
  ASSUME Shape, NEW st \in Checkpoint, Sound(st)
  PROVE  /\ Len(st.completed) \in Nat /\ Len(st.completed) <= Len(Stages)
         /\ \A i \in 1..Len(st.completed) : st.completed[i] = Stages[i]
         /\ st.pending # "" => Len(st.completed) < Len(Stages) /\ st.pending = Stages[Len(st.completed) + 1]
         /\ st.pending = "apply" => plan # "preview" /\ Len(st.completed) = ApplyAt
         /\ st.pending = "replace_database" => plan = "replace" /\ Len(st.completed) = 3 /\ ApplyAt = 4
         /\ st.pending = "backup" => Len(st.completed) = 1
         /\ st.pending = "observe" => plan # "preview" /\ Len(st.completed) + 1 = Len(Stages)
         /\ st.applied => plan # "preview" /\ (Len(st.completed) > ApplyAt \/ st.pending = "apply")
         /\ plan # "preview" /\ Len(st.completed) > ApplyAt => st.applied
         /\ st.replaced => plan = "replace" /\ (Len(st.completed) > 3 \/ st.pending = "replace_database")
         /\ plan = "replace" /\ Len(st.completed) > 3 => st.replaced
<1>1. st.completed \in Seq(StageNames)
  BY Zenon DEF Checkpoint
<1>2. Len(st.completed) \in Nat
  BY <1>1
<1>3. st.pending # "" => Len(st.completed) < Len(Stages) /\ st.pending = Stages[Len(st.completed) + 1]
  BY Zenon DEF Sound, SoundIn
<1>4. /\ st.pending = "apply" => plan # "preview" /\ Len(st.completed) = ApplyAt
      /\ st.pending = "replace_database" => plan = "replace" /\ Len(st.completed) = 3
      /\ st.pending = "backup" => Len(st.completed) = 1
      /\ st.pending = "observe" => plan # "preview" /\ Len(st.completed) + 1 = Len(Stages)
  BY <1>2, <1>3, PendingIs, Zenon
<1>5. plan = "replace" => ApplyAt = 4
  BY DEF ApplyAt
<1> QED
  BY <1>2, <1>3, <1>4, <1>5, Zenon DEF Sound, SoundIn

LEMMA SoundBegins ==
  ASSUME Shape, Sound(state), state.pending = "", NEW st \in Checkpoint, Len(state.completed) < Len(Stages),
         st.completed = state.completed, st.pending = Stages[Len(state.completed) + 1],
         st.applied = state.applied, st.replaced = state.replaced, st.rollback = state.rollback
  PROVE  Sound(st)
BY ShapeParts, Zenon DEF Sound, SoundIn

LEMMA PlanLength == \A n : plan = "replace" /\ n = ApplyAt => n > 3
BY DEF ApplyAt

(* An outcome speaks of the pending mutation, or repeats what is known of the replacement before it. *)
LEMMA SoundRecords ==
  ASSUME Shape, Sound(state), NEW st \in Checkpoint,
         st.completed = state.completed, st.pending = state.pending, st.rollback => state.rollback,
         state.applied => st.applied, st.applied => state.applied \/ state.pending = "apply",
         state.replaced => st.replaced,
         st.replaced => \/ state.replaced \/ state.pending = "replace_database"
                        \/ plan = "replace" /\ state.pending = "apply"
  PROVE  Sound(st)
<1>0. state \in Checkpoint
  BY DEF Shape
<1>1. state.pending = "apply" => plan # "preview" /\ Len(state.completed) = ApplyAt
  BY <1>0, SoundParts, Zenon
<1>2. state.pending = "replace_database" => plan = "replace" /\ Len(state.completed) = 3
  BY <1>0, SoundParts, Zenon
<1>3. plan = "replace" /\ Len(state.completed) = ApplyAt => Len(state.completed) > 3
  BY PlanLength
<1> QED
  BY <1>1, <1>2, <1>3, Zenon DEF Sound, SoundIn

LEMMA AppendIs ==
  ASSUME NEW s \in Seq(StageNames), NEW e \in StageNames
  PROVE  /\ Append(s, e) \in Seq(StageNames) /\ Len(Append(s, e)) = Len(s) + 1
         /\ \A i \in 1..Len(s) : Append(s, e)[i] = s[i]
         /\ Append(s, e)[Len(s) + 1] = e
OBVIOUS

LEMMA PlusOne == \A n, k \in Nat : n + 1 > k <=> n > k \/ n = k
OBVIOUS

(* The stage that was pending is behind a checkpoint that completes it. *)
LEMMA Appended ==
  ASSUME Shape, Sound(state), NEW s, s = Append(state.completed, state.pending), state.pending \in StageNames
  PROVE  /\ Len(s) = Len(state.completed) + 1 /\ Len(s) <= Len(Stages)
         /\ \A i \in 1..Len(s) : s[i] = Stages[i]
         /\ plan # "preview" /\ Len(s) > ApplyAt <=>
              \/ plan # "preview" /\ Len(state.completed) > ApplyAt
              \/ state.pending = "apply"
         /\ plan = "replace" /\ Len(s) > 3 <=>
              \/ plan = "replace" /\ Len(state.completed) > 3
              \/ state.pending = "replace_database"
<1> DEFINE n == Len(state.completed)
<1>0. state \in Checkpoint /\ state.completed \in Seq(StageNames) /\ n \in Nat
  BY ShapeParts, Zenon DEF Shape
<1>1. Len(s) = n + 1
  BY <1>0, AppendIs
<1>2. (\A i \in 1..n : s[i] = state.completed[i]) /\ s[n + 1] = state.pending
  BY <1>0, AppendIs
<1>3. state.pending # ""
  BY Zenon DEF StageNames
<1>4. /\ n < Len(Stages) /\ state.pending = Stages[n + 1]
      /\ \A i \in 1..n : state.completed[i] = Stages[i]
  BY <1>0, <1>3, SoundParts, Zenon
<1>5. Len(Stages) \in Nat /\ ApplyAt \in Nat
  BY StagesAre DEF ApplyAt
<1>6. Len(s) <= Len(Stages) /\ \A i \in 1..Len(s) : s[i] = Stages[i]
  <2>1. \A i \in 1..Len(s) : i \in 1..n \/ i = n + 1
    BY <1>0, <1>1
  <2>2. Len(s) <= Len(Stages)
    BY <1>0, <1>1, <1>4, <1>5
  <2> QED
    BY <1>2, <1>4, <2>1, <2>2
<1>7. /\ state.pending = "apply" <=> plan # "preview" /\ n = ApplyAt
      /\ state.pending = "replace_database" <=> plan = "replace" /\ n = 3
  BY <1>0, <1>4, PendingIs, Zenon
<1>8. (n + 1 > ApplyAt <=> n > ApplyAt \/ n = ApplyAt) /\ (n + 1 > 3 <=> n > 3 \/ n = 3)
  BY <1>0, <1>5, PlusOne, Zenon
<1>9. plan # "preview" /\ Len(s) > ApplyAt <=> (plan # "preview" /\ n > ApplyAt) \/ state.pending = "apply"
  BY <1>1, <1>7, <1>8
<1>10. plan = "replace" /\ Len(s) > 3 <=> (plan = "replace" /\ n > 3) \/ state.pending = "replace_database"
  BY <1>1, <1>7, <1>8
<1> QED
  BY <1>1, <1>6, <1>9, <1>10

LEMMA SoundCompletes ==
  ASSUME Shape, Sound(state), NEW st \in Checkpoint, state.pending \in StageNames, ~st.rollback,
         st.completed = Append(state.completed, state.pending), st.pending = "",
         st.applied <=> state.applied \/ state.pending = "apply",
         st.replaced <=> state.replaced \/ state.pending = "replace_database"
  PROVE  Sound(st) /\ Len(st.completed) = Len(state.completed) + 1
<1>0. state \in Checkpoint
  BY Zenon DEF Shape
<1>1. /\ Len(st.completed) = Len(state.completed) + 1 /\ Len(st.completed) <= Len(Stages)
      /\ \A i \in 1..Len(st.completed) : st.completed[i] = Stages[i]
      /\ plan # "preview" /\ Len(st.completed) > ApplyAt <=>
           \/ plan # "preview" /\ Len(state.completed) > ApplyAt
           \/ state.pending = "apply"
      /\ plan = "replace" /\ Len(st.completed) > 3 <=>
           \/ plan = "replace" /\ Len(state.completed) > 3
           \/ state.pending = "replace_database"
  BY Appended, Zenon
<1>2. /\ state.applied => plan # "preview" /\ (Len(state.completed) > ApplyAt \/ state.pending = "apply")
      /\ plan # "preview" /\ Len(state.completed) > ApplyAt => state.applied
      /\ state.replaced => plan = "replace" /\ (Len(state.completed) > 3 \/ state.pending = "replace_database")
      /\ plan = "replace" /\ Len(state.completed) > 3 => state.replaced
  BY <1>0, SoundParts, Zenon
<1>3. st.applied <=> plan # "preview" /\ Len(st.completed) > ApplyAt
  BY <1>1, <1>2, Zenon
<1>4. st.replaced <=> plan = "replace" /\ Len(st.completed) > 3
  BY <1>1, <1>2, Zenon
<1> QED
  BY <1>1, <1>3, <1>4, Zenon DEF Sound, SoundIn

LEMMA ReturnedSound ==
  ASSUME Shape, Sound(state), state.pending \in StageNames, ~state.rollback,
         NEW ok \in BOOLEAN, NEW out \in Outcomes, StepReturns(ok, out),
         out.known /\ out.applied => state.pending = "apply",
         out.known /\ out.replaced => state.pending = "replace_database"
  PROVE  /\ Sound(state') /\ ~state'.rollback /\ pc' \in {"completed", "assess", "finish"}
         /\ pc' = "completed" => /\ ok /\ state'.pending = ""
                                 /\ Len(state'.completed) = Len(state.completed) + 1
         /\ pc' # "completed" => state'.pending = state.pending /\ state'.completed = state.completed
         /\ pc' = "assess" => state.pending \in {"apply", "replace_database"} /\ ~out.known
<1>1. /\ state' \in Checkpoint /\ state'.rollback = state.rollback
      /\ state'.applied = (state.applied \/ (out.known /\ out.applied))
      /\ state'.replaced = (state.replaced \/ (out.known /\ out.replaced))
      /\ \/ /\ ok /\ Completes
            /\ state.pending = "apply" => out.known /\ out.applied
            /\ state.pending = "replace_database" => out.known /\ out.replaced
         \/ Fails(out)
  BY Returned
<1>2. CASE /\ ok /\ Completes
           /\ state.pending = "apply" => out.known /\ out.applied
           /\ state.pending = "replace_database" => out.known /\ out.replaced
  <2>1. /\ state'.applied <=> state.applied \/ state.pending = "apply"
        /\ state'.replaced <=> state.replaced \/ state.pending = "replace_database"
    BY <1>1, <1>2, Zenon
  <2>2. /\ state'.completed = Append(state.completed, state.pending) /\ state'.pending = ""
        /\ pc' = "completed"
    BY <1>2, Zenon DEF Completes
  <2>3. Sound(state') /\ Len(state'.completed) = Len(state.completed) + 1
    BY <1>1, <2>1, <2>2, SoundCompletes, Zenon
  <2> QED
    BY <1>1, <1>2, <2>2, <2>3, Zenon
<1>3. CASE Fails(out)
  <2>1. /\ state'.completed = state.completed /\ state'.pending = state.pending
        /\ pc' = IF state.pending \in {"apply", "replace_database"} /\ ~out.known THEN "assess" ELSE "finish"
    BY <1>3 DEF Fails
  <2>2. Sound(state')
    BY <1>1, <2>1, SoundRecords, Zenon
  <2> QED
    BY <1>1, <2>1, <2>2
<1> QED
  BY <1>1, <1>2, <1>3, Zenon

LEMMA CheckpointedPrime ==
  ASSUME UNCHANGED plan,
         store'.file # None => Sound(store'.file),
         store'.durable # None => Sound(store'.durable),
         pc' \in Running => Sound(state'),
         pc' \in {"step", "sql"} => state'.pending # "",
         pc' \in {"perform", "completed"} => state'.pending = "",
         pc' = "assess" => state'.pending \in {"apply", "replace_database"},
         pc' \in Advancing \cup {"sql"} => ~state'.rollback,
         pc' = "rollback" => state'.applied /\ state'.rollback
  PROVE  Checkpointed'
<1>1. /\ Sound(state)' <=> Sound(state')
      /\ Sound(store.file)' <=> Sound(store'.file)
      /\ Sound(store.durable)' <=> Sound(store'.durable)
  BY SamePlan, Zenon DEF Sound
<1>2. None' = None
  BY Zenon DEF None, Fresh
<1> QED
  BY <1>1, <1>2, Zenon DEF Checkpointed, Running, Advancing, Pcs

LEMMA PendingStage ==
  ASSUME Shape, Checkpointed, pc \in {"step", "sql"}
  PROVE  Sound(state) /\ ~state.rollback /\ state \in Checkpoint /\ state.pending \in StageNames
<1>1. Sound(state) /\ ~state.rollback /\ state \in Checkpoint
  BY Zenon DEF Checkpointed, Running, Pcs, Advancing, Shape
<1>2. Len(state.completed) < Len(Stages) /\ state.pending = Stages[Len(state.completed) + 1]
  BY <1>1, SoundParts, Zenon DEF Checkpointed
<1>3. state.pending # "" /\ state.pending # "none"
  BY <1>2, PendingIs, ShapeParts, Zenon
<1> QED
  BY <1>1, <1>3, ShapeParts, Zenon

(* A step of the driver that says only what its stage may say. *)
LEMMA ReturnsCheckpointed ==
  ASSUME Shape, Checkpointed, pc \in {"step", "sql"}, NEW ok \in BOOLEAN, NEW out \in Outcomes,
         UNCHANGED <<plan, store>>, StepReturns(ok, out),
         out.known /\ out.applied => state.pending = "apply",
         out.known /\ out.replaced => state.pending = "replace_database"
  PROVE  Checkpointed'
<1>1. Sound(state) /\ ~state.rollback /\ state.pending \in StageNames
  BY PendingStage
<1>3. /\ Sound(state') /\ ~state'.rollback /\ pc' \in {"completed", "assess", "finish"}
      /\ pc' = "completed" => state'.pending = ""
      /\ pc' = "assess" => state'.pending \in {"apply", "replace_database"}
  BY <1>1, ReturnedSound, Zenon
<1> QED
  BY <1>3, CheckpointedPrime, Zenon DEF Checkpointed

LEMMA StoredSound ==
  ASSUME Checkpointed, NEW st, Stored(st) \/ NotStored(st)
  PROVE  /\ store'.file # None => Sound(store'.file)
         /\ store'.durable # None => Sound(store'.durable)
BY Zenon DEF Checkpointed, Stored, NotStored

LEMMA NextCheckpointed == Shape /\ Checkpointed /\ [Next]_vars => Checkpointed'
<1> SUFFICES ASSUME Shape, Checkpointed, [Next]_vars PROVE Checkpointed'
  OBVIOUS
<1>0. /\ pc \in Running => Sound(state)
      /\ state \in Checkpoint /\ pc \in Pcs
  BY Zenon DEF Checkpointed, Shape
<1>1. CASE Start
  <2>1. Sound(Fresh)
    <3>1. (Len(Stages) = 3 \/ Len(Stages) = 5 \/ Len(Stages) = 6) /\ (ApplyAt = 3 \/ ApplyAt = 4)
      BY StagesAre DEF ApplyAt
    <3>2. 0 <= Len(Stages) /\ ~(0 > ApplyAt) /\ ~(0 > 3) /\ 1..0 = {}
      BY <3>1
    <3>3. Len(Fresh.completed) = 0
      BY Constants, Zenon
    <3> QED
      BY <3>2, <3>3, Constants, Zenon DEF Sound, SoundIn
  <2>2. UNCHANGED plan /\ store'.file = store.file /\ store'.durable = store.durable
    BY <1>1, StartFields
  <2>3. \/ pc' = "perform" /\ state' = Fresh
        \/ pc' = "end"
    BY <1>1, StartFields
  <2> QED
    BY <2>1, <2>2, <2>3, CheckpointedPrime, Constants, Zenon DEF Checkpointed, Running, Advancing
<1>2. CASE Perform
  <2>1. pc = "perform" /\ UNCHANGED plan
    BY <1>2, PerformFields DEF NotMutating
  <2>2. Sound(state) /\ state.pending = "" /\ ~state.rollback
    BY <1>0, <2>1, Zenon DEF Checkpointed, Running, Pcs, Advancing
  <2>3. CASE UNCHANGED <<state, store>> /\ pc' = "finish"
    BY <2>1, <2>2, <2>3, CheckpointedPrime, Zenon DEF Checkpointed, Advancing
  <2>4. CASE /\ state'.pending = Stages[Len(state.completed) + 1]
             /\ Stored(state') \/ NotStored(state')
    <3>1. /\ state' \in Checkpoint /\ Len(state.completed) < Len(Stages)
          /\ state'.completed = state.completed /\ state'.applied = state.applied
          /\ state'.replaced = state.replaced /\ state'.rollback = state.rollback
          /\ pc' \in {"step", "finish"}
      BY <1>2, PerformFields
    <3>2. Sound(state')
      BY <2>2, <2>4, <3>1, SoundBegins, Zenon
    <3>3. state'.pending # ""
      BY <2>4, <3>1, PendingIs, ShapeParts, Zenon
    <3> QED
      BY <2>1, <2>2, <2>4, <3>1, <3>2, <3>3, StoredSound, CheckpointedPrime, Zenon
  <2> QED
    BY <1>2, <2>3, <2>4, PerformFields
<1>3. CASE Complete
  <2>1. pc = "completed" /\ UNCHANGED <<plan, state>> /\ pc' \in {"perform", "finish"}
        /\ (Stored(state) \/ NotStored(state))
    BY <1>3, CompleteFields DEF NotMutating
  <2>2. Sound(state) /\ state.pending = "" /\ ~state.rollback
    BY <1>0, <2>1, Zenon DEF Checkpointed, Running, Pcs, Advancing
  <2> QED
    BY <2>1, <2>2, StoredSound, CheckpointedPrime, Zenon
<1>4. CASE Passed
  <2>1. pc = "perform" /\ UNCHANGED <<plan, state, store>> /\ pc' = "finish"
    BY <1>4, PassedFields DEF NotMutating
  <2> QED
    BY <1>0, <2>1, CheckpointedPrime, Zenon DEF Checkpointed, Running, Pcs, Advancing
<1>5. CASE AssessUnknown
  <2>1. pc = "assess" /\ UNCHANGED plan /\ Sound(state) /\ state.pending \in {"apply", "replace_database"}
    BY <1>0, <1>5, AssessFields DEF Checkpointed, Running, Pcs
  <2>2. CASE pc' = "end" /\ (UNCHANGED store \/ NotStored(state'))
    BY <2>1, <2>2, StoredSound, CheckpointedPrime DEF Checkpointed, Running, Advancing
  <2>3. CASE pc' = "finish" /\ Stored(state')
    BY <2>1, <2>3, StoredSound, CheckpointedPrime DEF Stored, Advancing
  <2> QED
    BY <1>5, <2>2, <2>3, AssessFields
<1>6. CASE Finish
  <2>1. pc = "finish" /\ UNCHANGED plan /\ pc' \in {"rollback", "cleanup"} /\ Sound(state)
    BY <1>0, <1>6, FinishFields DEF NotMutating, Running, Pcs
  <2>2. CASE pc' = "cleanup" /\ UNCHANGED <<state, store>>
    BY <2>1, <2>2, CheckpointedPrime DEF Checkpointed, Advancing
  <2>3. CASE state.applied /\ state'.rollback /\ (Stored(state') \/ NotStored(state'))
    <3>1. /\ state'.completed = state.completed /\ state'.pending = state.pending
          /\ state'.applied = state.applied /\ state'.replaced = state.replaced
      BY <1>6, FinishFields
    <3>2. Sound(state')
      BY <2>1, <2>3, <3>1, Zenon DEF Sound, SoundIn
    <3> QED
      BY <2>1, <2>3, <3>1, <3>2, StoredSound, CheckpointedPrime, Zenon DEF Advancing
  <2> QED
    BY <1>6, <2>2, <2>3, FinishFields
<1>7. CASE StepVerify
  BY <1>7, VerifyFields, ReturnsCheckpointed, OutcomesAre, Zenon DEF Returns
<1>8. CASE StepBackup
  BY <1>8, BackupFields, ReturnsCheckpointed, OutcomesAre DEF Returns
<1>9. CASE StepReplace
  <2>1. CASE Returns("replace_database", FALSE, Known)
    BY <2>1, ReturnsCheckpointed, OutcomesAre, Zenon DEF Returns
  <2>2. CASE pc = "step" /\ pc' = "sql" /\ UNCHANGED <<plan, state, store>>
    BY <1>0, <2>2, CheckpointedPrime, Zenon DEF Checkpointed, Running, Pcs, Advancing
  <2> QED
    BY <1>9, <2>1, <2>2, ReplaceFields, Zenon
<1>10. CASE ReplaceReturns
  <2>1. pc = "sql" /\ UNCHANGED <<plan, store>> /\ state.pending = "replace_database"
    BY <1>10, ReturnsFields, Zenon DEF Shape
  <2>2. CASE StepReturns(TRUE, AssessReplacement)
    BY <2>1, <2>2, ReturnsCheckpointed, DatabaseOutcome, Zenon
  <2>3. CASE StepReturns(FALSE, Unknown)
    BY <2>1, <2>3, ReturnsCheckpointed, OutcomesAre, Zenon
  <2> QED
    BY <1>10, <2>2, <2>3, ReturnsFields, Zenon
<1>11. CASE StepApply
  <2>1. CASE Returns("apply", FALSE, Known)
    BY <2>1, ReturnsCheckpointed, OutcomesAre, Zenon DEF Returns
  <2>2. CASE Returns("apply", TRUE, [Known EXCEPT !.applied = TRUE])
    BY <2>2, ReturnsCheckpointed, OutcomesAre, Zenon DEF Returns
  <2>3. CASE Returns("apply", FALSE, Unknown)
    BY <2>3, ReturnsCheckpointed, OutcomesAre, Zenon DEF Returns
  <2> QED
    BY <1>11, <2>1, <2>2, <2>3, ApplyFields, Zenon
<1>12. CASE StepObserve
  BY <1>12, ObserveFields, ReturnsCheckpointed, OutcomesAre DEF Returns
<1>13. CASE StepRollback
  <2>1. pc = "rollback" /\ pc' = "cleanup" /\ UNCHANGED <<plan, state, store>>
    BY <1>13, RollbackFields
  <2> QED
    BY <1>0, <2>1, CheckpointedPrime DEF Checkpointed, Running, Pcs, Advancing
<1>14. CASE Cleanup
  <2>1. pc = "cleanup" /\ pc' = "end" /\ UNCHANGED <<plan, state, store>>
    BY <1>14, CleanupFields
  <2> QED
    BY <2>1, CheckpointedPrime DEF Checkpointed, Running, Advancing
<1>15. CASE Sql
  <2>1. UNCHANGED <<plan, pc, state, store>>
    BY <1>15, SqlFields
  <2> QED
    BY <2>1, CheckpointedPrime, Zenon DEF Checkpointed
<1>16. ASSUME NEW gone \in BOOLEAN, Die(gone) PROVE Checkpointed'
  <2>1. /\ pc' = "off" /\ UNCHANGED plan /\ store'.durable = store.durable
        /\ store'.file = store.file \/ store'.file = store.durable
    BY <1>16, DieFields
  <2> QED
    BY <2>1, CheckpointedPrime, Zenon DEF Checkpointed, Running, Advancing
<1>17. CASE UNCHANGED vars
  <2>1. UNCHANGED <<plan, pc, state, store>>
    BY <1>17 DEF vars
  <2> QED
    BY <2>1, CheckpointedPrime, Zenon DEF Checkpointed
<1> QED
  BY <1>1, <1>2, <1>3, <1>4, <1>5, <1>6, <1>7, <1>8, <1>9, <1>10, <1>11, <1>12, <1>13, <1>14, <1>15,
     <1>16, <1>17 DEF Next

LEMMA CheckpointedInvariant == Spec => [](Shape /\ Checkpointed)
<1>1. Init => Checkpointed
  BY DEF Init, Checkpointed, Running, Advancing
<1> QED
  BY <1>1, InitShape, NextShape, NextCheckpointed, PTL DEF Spec

-----------------------------------------------------------------------------
(* At most one mutation of a kind, each behind a durable intent. *)

LEMMA TrackedPrime ==
  ASSUME Shape, UNCHANGED plan,
         store'.durable # None => store'.file # None,
         count'.replace # 0 \/ count'.apply # 0 \/ count'.rollback # 0 => store'.durable # None,
         count'.replace # 0 => plan = "replace",
         count'.replace <= 1, count'.apply <= 1, count'.rollback <= 1,
         pc' \in Running \ {"cleanup"} => count'.rollback = 0,
         pc' \in Advancing => (count'.replace # 0 => Len(state'.completed) > 3),
         pc' \in Advancing \cup {"sql"} => (count'.apply # 0 => Len(state'.completed) > ApplyAt),
         pc' \in {"step", "sql", "rollback"} => store'.durable = state',
         pc' = "perform" => Len(state'.completed) = 0 \/ store'.durable = state'
  PROVE  Tracked'
<1>1. None' = None /\ ApplyAt' = ApplyAt
  BY SamePlan, Zenon DEF None, Fresh
<1> QED
  BY <1>1 DEF Tracked, Running, Advancing, Pcs

(* Saving never forgets that there is a checkpoint. *)
LEMMA Kept ==
  ASSUME Shape, NEW st \in Checkpoint, Stored(st) \/ NotStored(st), store.durable # None => store.file # None
  PROVE  /\ store'.durable # None => store'.file # None
         /\ store.durable # None => store'.durable # None
<1>1. Sound(st) => st # None
  BY ValidIsSound
<1>2. CASE Stored(st)
  BY <1>1, <1>2 DEF Stored
<1>3. CASE NotStored(st)
  BY <1>1, <1>3 DEF NotStored
<1> QED
  BY <1>2, <1>3

(* A step that mutates nothing. *)
LEMMA TrackedReturn ==
  ASSUME Shape, Tracked, pc = "step", UNCHANGED <<plan, store, count>>,
         pc' \in {"completed", "assess", "finish"},
         pc' = "completed" => Len(state'.completed) = Len(state.completed) + 1
  PROVE  Tracked'
<1>0. /\ count.replace # 0 => Len(state.completed) > 3
      /\ count.apply # 0 => Len(state.completed) > ApplyAt
  BY DEF Tracked, Advancing
<1>1. /\ count.replace # 0 => Len(state.completed) + 1 > 3
      /\ count.apply # 0 => Len(state.completed) + 1 > ApplyAt
  <2>1. Len(state.completed) \in Nat /\ ApplyAt \in Nat
    BY ShapeParts, Zenon
  <2> QED
    BY <1>0, <2>1, PlusOne
<1>2. count.rollback = 0
  BY DEF Tracked, Running, Pcs
<1>3. /\ store.durable # None => store.file # None
      /\ count.replace # 0 \/ count.apply # 0 \/ count.rollback # 0 => store.durable # None
      /\ count.replace # 0 => plan = "replace"
      /\ count.replace <= 1 /\ count.apply <= 1 /\ count.rollback <= 1
  BY DEF Tracked
<1> QED
  BY <1>1, <1>2, <1>3, TrackedPrime DEF Advancing

LEMMA ReturnsTracked ==
  ASSUME Shape, Checkpointed, Tracked, pc = "step", NEW ok \in BOOLEAN, NEW out \in Outcomes,
         UNCHANGED <<plan, store, count>>, StepReturns(ok, out),
         out.known /\ out.applied => state.pending = "apply",
         out.known /\ out.replaced => state.pending = "replace_database"
  PROVE  Tracked'
<1>1. Sound(state) /\ ~state.rollback /\ state.pending \in StageNames
  BY PendingStage
<1>2. /\ pc' \in {"completed", "assess", "finish"}
      /\ pc' = "completed" => Len(state'.completed) = Len(state.completed) + 1
  BY <1>1, ReturnedSound, Zenon
<1> QED
  BY <1>2, TrackedReturn

LEMMA NextTracked == Shape /\ Checkpointed /\ Tracked /\ [Next]_vars => Tracked'
<1> SUFFICES ASSUME Shape, Checkpointed, Tracked, [Next]_vars PROVE Tracked'
  OBVIOUS
<1>0. /\ state \in Checkpoint /\ pc \in Pcs
      /\ store.durable # None => store.file # None
      /\ count.replace # 0 \/ count.apply # 0 \/ count.rollback # 0 => store.durable # None
      /\ count.replace # 0 => plan = "replace"
      /\ count.replace <= 1 /\ count.apply <= 1 /\ count.rollback <= 1
      /\ count.replace \in Nat /\ count.apply \in Nat /\ count.rollback \in Nat
  BY ShapeParts, Zenon DEF Shape, Tracked
<1>1. CASE Start
  <2>1. /\ UNCHANGED <<plan, count>> /\ store'.file = store.file /\ store'.durable = store.durable
        /\ \/ store.file = None /\ pc' = "perform" /\ state' = Fresh
           \/ pc' = "end"
    BY <1>1, StartFields
  <2> QED
    BY <1>0, <2>1, TrackedPrime, Constants, Zenon DEF Running, Advancing
<1>2. CASE Perform
  <2>1. /\ pc = "perform" /\ UNCHANGED <<plan, count>> /\ state' \in Checkpoint
        /\ state'.completed = state.completed
        /\ \/ pc' = "finish" /\ (UNCHANGED store \/ NotStored(state'))
           \/ pc' = "step" /\ Stored(state')
    BY <1>2, PerformFields DEF NotMutating
  <2>2. /\ count.rollback = 0
        /\ count.replace # 0 => Len(state.completed) > 3
        /\ count.apply # 0 => Len(state.completed) > ApplyAt
    BY <2>1 DEF Tracked, Running, Pcs, Advancing
  <2>3. /\ store'.durable # None => store'.file # None
        /\ store.durable # None => store'.durable # None
    BY <1>0, <2>1, Kept
  <2>4. pc' = "step" => store'.durable = state'
    BY <2>1 DEF Stored
  <2> QED
    BY <1>0, <2>1, <2>2, <2>3, <2>4, TrackedPrime
<1>3. CASE Complete
  <2>1. /\ pc = "completed" /\ UNCHANGED <<plan, count, state>>
        /\ \/ pc' = "finish" /\ NotStored(state)
           \/ pc' = "perform" /\ Stored(state)
    BY <1>3, CompleteFields DEF NotMutating
  <2>2. /\ count.rollback = 0
        /\ count.replace # 0 => Len(state.completed) > 3
        /\ count.apply # 0 => Len(state.completed) > ApplyAt
    BY <2>1 DEF Tracked, Running, Pcs, Advancing
  <2>3. /\ store'.durable # None => store'.file # None
        /\ store.durable # None => store'.durable # None
    BY <1>0, <2>1, Kept
  <2>4. pc' = "perform" => store'.durable = state'
    BY <2>1 DEF Stored
  <2> QED
    BY <1>0, <2>1, <2>2, <2>3, <2>4, TrackedPrime
<1>4. CASE Passed
  <2>1. pc = "perform" /\ UNCHANGED <<plan, count, state, store>> /\ pc' = "finish"
    BY <1>4, PassedFields DEF NotMutating
  <2>2. count.rollback = 0
    BY <2>1 DEF Tracked, Running, Pcs
  <2> QED
    BY <1>0, <2>1, <2>2, TrackedPrime DEF Advancing
<1>5. CASE AssessUnknown
  <2>1. /\ pc = "assess" /\ UNCHANGED plan /\ state' \in Checkpoint
        /\ count'.replace = count.replace /\ count'.apply = count.apply /\ count'.rollback = count.rollback
        /\ pc' \in {"end", "finish"}
        /\ UNCHANGED store \/ NotStored(state') \/ Stored(state')
    BY <1>5, AssessFields
  <2>2. count.rollback = 0
    BY <2>1 DEF Tracked, Running, Pcs
  <2>3. /\ store'.durable # None => store'.file # None
        /\ store.durable # None => store'.durable # None
    BY <1>0, <2>1, Kept
  <2> QED
    BY <1>0, <2>1, <2>2, <2>3, TrackedPrime DEF Advancing
<1>6. CASE Finish
  <2>1. /\ pc = "finish" /\ UNCHANGED <<plan, count>> /\ state' \in Checkpoint
        /\ \/ pc' = "cleanup" /\ (UNCHANGED store \/ NotStored(state'))
           \/ pc' \in {"rollback", "cleanup"} /\ Stored(state')
    BY <1>6, FinishFields DEF NotMutating
  <2>2. count.rollback = 0
    BY <2>1 DEF Tracked, Running, Pcs
  <2>3. /\ store'.durable # None => store'.file # None
        /\ store.durable # None => store'.durable # None
    BY <1>0, <2>1, Kept
  <2>4. pc' = "rollback" => store'.durable = state'
    BY <2>1 DEF Stored
  <2> QED
    BY <1>0, <2>1, <2>2, <2>3, <2>4, TrackedPrime DEF Advancing
<1>7. CASE StepVerify
  BY <1>7, VerifyFields, ReturnsTracked, OutcomesAre, Zenon DEF Returns, NotMutating
<1>8. CASE StepBackup
  BY <1>8, BackupFields, ReturnsTracked, OutcomesAre DEF Returns
<1>9. CASE StepReplace
  <2>1. CASE Returns("replace_database", FALSE, Known) /\ UNCHANGED count
    BY <2>1, ReturnsTracked, OutcomesAre, Zenon DEF Returns
  <2>2. CASE /\ pc = "step" /\ state.pending = "replace_database" /\ pc' = "sql"
             /\ UNCHANGED <<plan, state, store>>
             /\ count'.replace = count.replace + 1 /\ count'.apply = count.apply
             /\ count'.rollback = count.rollback
    <3>1. /\ plan = "replace" /\ Len(state.completed) = 3 /\ Sound(state)
      BY <1>0, <2>2, PendingStage, SoundParts, Zenon
    <3>2. /\ count.rollback = 0 /\ count.replace = 0
          /\ count.apply # 0 => Len(state.completed) > ApplyAt
          /\ store.durable = state
      BY <2>2, <3>1 DEF Tracked, Running, Pcs, Advancing
    <3>3. state # None /\ store.file # None
      BY <1>0, <3>1, <3>2, ValidIsSound
    <3> QED
      BY <1>0, <2>2, <3>1, <3>2, <3>3, TrackedPrime DEF Advancing
  <2> QED
    BY <1>9, <2>1, <2>2, ReplaceFields, Zenon
<1>10. CASE ReplaceReturns
  <2>1. pc = "sql" /\ UNCHANGED <<plan, store, count>> /\ state.pending = "replace_database"
    BY <1>10, ReturnsFields, Zenon DEF Shape
  <2>2. /\ pc' \in {"completed", "assess", "finish"}
        /\ pc' = "completed" => Len(state'.completed) = Len(state.completed) + 1
    <3>1. CASE StepReturns(TRUE, AssessReplacement)
      BY <2>1, <3>1, PendingStage, ReturnedSound, DatabaseOutcome, Zenon
    <3>2. CASE StepReturns(FALSE, Unknown)
      BY <2>1, <3>2, PendingStage, ReturnedSound, OutcomesAre, Zenon
    <3> QED
      BY <1>10, <3>1, <3>2, ReturnsFields, Zenon
  <2>3. Len(state.completed) = 3 /\ ApplyAt = 4
    BY <1>0, <2>1, PendingStage, SoundParts, Zenon
  <2>4. count.rollback = 0 /\ (count.apply # 0 => Len(state.completed) > ApplyAt)
    BY <2>1 DEF Tracked, Running, Pcs
  <2>5. count.apply = 0
    BY <2>3, <2>4
  <2>6. pc' = "completed" => Len(state'.completed) > 3
    BY <2>2, <2>3, PlusOne, Zenon
  <2> QED
    BY <1>0, <2>1, <2>2, <2>4, <2>5, <2>6, TrackedPrime DEF Advancing
<1>11. CASE StepApply
  <2>1. CASE UNCHANGED <<world, count>> /\ Returns("apply", FALSE, Known)
    BY <2>1, ReturnsTracked, OutcomesAre, Zenon DEF Returns
  <2>2. ASSUME NEW ok \in BOOLEAN, NEW out \in Outcomes, Returns("apply", ok, out),
               out.known => ~out.replaced,
               count'.apply = count.apply + 1, count'.replace = count.replace, count'.rollback = count.rollback
        PROVE  Tracked'
    <3>1. pc = "step" /\ state.pending = "apply" /\ UNCHANGED <<plan, store>> /\ StepReturns(ok, out)
      BY <2>2 DEF Returns
    <3>2. /\ pc' \in {"completed", "assess", "finish"}
          /\ pc' = "completed" => Len(state'.completed) = Len(state.completed) + 1
      BY <2>2, <3>1, PendingStage, ReturnedSound, Zenon
    <3>3. /\ Len(state.completed) = ApplyAt /\ Sound(state)
      BY <1>0, <3>1, PendingStage, SoundParts, Zenon
    <3>4. /\ count.rollback = 0 /\ store.durable = state
          /\ count.apply # 0 => Len(state.completed) > ApplyAt
          /\ count.replace # 0 => Len(state.completed) > 3
      BY <3>1 DEF Tracked, Running, Pcs, Advancing
    <3>5. state # None /\ store.file # None
      BY <1>0, <3>3, <3>4, ValidIsSound
    <3>6. /\ count.apply = 0
          /\ count.replace # 0 => Len(state.completed) + 1 > 3
          /\ Len(state.completed) + 1 > ApplyAt
      <4>1. Len(state.completed) \in Nat /\ ApplyAt \in Nat
        BY ShapeParts, Zenon
      <4> QED
        BY <3>3, <3>4, <4>1, PlusOne
    <3> QED
      BY <1>0, <2>2, <3>1, <3>2, <3>4, <3>5, <3>6, TrackedPrime DEF Advancing
  <2> QED
    BY <1>11, <2>1, <2>2, ApplyFields, OutcomesAre, Zenon
<1>12. CASE StepObserve
  BY <1>12, ObserveFields, ReturnsTracked, OutcomesAre DEF Returns, NotMutating
<1>13. CASE StepRollback
  <2>1. /\ pc = "rollback" /\ pc' = "cleanup" /\ UNCHANGED <<plan, state, store>>
        /\ count'.apply = count.apply /\ count'.replace = count.replace
        /\ count'.rollback = count.rollback \/ count'.rollback = count.rollback + 1
    BY <1>13, RollbackFields
  <2>2. count.rollback = 0 /\ store.durable = state /\ Sound(state)
    BY <2>1 DEF Tracked, Checkpointed, Running, Pcs
  <2>3. state # None /\ store.file # None
    BY <1>0, <2>2, ValidIsSound
  <2> QED
    BY <1>0, <2>1, <2>2, <2>3, TrackedPrime DEF Advancing
<1>14. CASE Cleanup
  <2>1. pc' = "end" /\ UNCHANGED <<plan, state, store, count>>
    BY <1>14, CleanupFields
  <2> QED
    BY <1>0, <2>1, TrackedPrime DEF Running, Advancing
<1>15. CASE Sql
  <2>1. UNCHANGED <<plan, pc, state, store, count>>
    BY <1>15, SqlFields
  <2> QED
    BY <2>1, TrackedPrime DEF Tracked
<1>16. ASSUME NEW gone \in BOOLEAN, Die(gone) PROVE Tracked'
  <2>1. /\ pc' = "off" /\ UNCHANGED <<plan, count>> /\ store'.durable = store.durable
        /\ store'.file = store.file \/ store'.file = store.durable
    BY <1>16, DieFields
  <2> QED
    BY <1>0, <2>1, TrackedPrime DEF Running, Advancing
<1>17. CASE UNCHANGED vars
  <2>1. UNCHANGED <<plan, pc, state, store, count>>
    BY <1>17 DEF vars
  <2> QED
    BY <2>1, TrackedPrime DEF Tracked
<1> QED
  BY <1>1, <1>2, <1>3, <1>4, <1>5, <1>6, <1>7, <1>8, <1>9, <1>10, <1>11, <1>12, <1>13, <1>14, <1>15,
     <1>16, <1>17 DEF Next

LEMMA TrackedInvariant == Spec => [](Shape /\ Checkpointed /\ Tracked)
<1>1. Init => Tracked
  <2> SUFFICES ASSUME Init PROVE Tracked
    OBVIOUS
  <2>1. count.replace = 0 /\ count.apply = 0 /\ count.rollback = 0 /\ pc = "off" /\ store.durable = None
    BY DEF Init
  <2> QED
    BY <2>1 DEF Tracked, Running, Advancing
<1> QED
  BY <1>1, NextTracked, CheckpointedInvariant, PTL DEF Spec

(* "No completed stage or potentially committed mutation replays" (Machine.Run): however often the
   operation is run, fails, is killed or loses power, with or without a script that outlives its child, the
   database is replaced, the release applied and rolled back at most once. *)
THEOREM MutationsOnce == Spec => []MutatedOnce
<1>1. Tracked => MutatedOnce
  BY DEF Tracked, MutatedOnce
<1> QED
  BY <1>1, TrackedInvariant, PTL

(* "A started mutation must be reconciled on resume" (perform, finish): no script, upgrade or rollback
   starts before a checkpoint that says so is durable. *)
THEOREM IntentDurable == Spec => IntentIsDurable
<1> DEFINE A == /\ count'.replace # count.replace => store.durable.pending = "replace_database"
                /\ count'.apply # count.apply => store.durable.pending = "apply"
                /\ count'.rollback # count.rollback => store.durable.rollback
<1>1. Shape /\ Checkpointed /\ Tracked /\ [Next]_vars => [A]_vars
  <2> SUFFICES ASSUME Shape, Checkpointed, Tracked, Next PROVE A
    OBVIOUS
  <2>1. CASE StepReplace
    <3>1. CASE UNCHANGED count
      BY <3>1
    <3>2. CASE /\ pc = "step" /\ state.pending = "replace_database"
               /\ count'.apply = count.apply /\ count'.rollback = count.rollback
      BY <3>2 DEF Tracked
    <3> QED
      BY <2>1, <3>1, <3>2, ReplaceFields, Zenon
  <2>2. CASE StepApply
    <3>1. CASE UNCHANGED count
      BY <3>1
    <3>2. CASE count'.replace = count.replace /\ count'.rollback = count.rollback
      <4>1. pc = "step" /\ state.pending = "apply"
        BY <2>2 DEF StepApply, AtStep
      <4> QED
        BY <3>2, <4>1 DEF Tracked
    <3> QED
      BY <2>2, <3>1, <3>2, ApplyFields, Zenon
  <2>3. CASE StepRollback
    <3>1. /\ pc = "rollback" /\ count'.apply = count.apply /\ count'.replace = count.replace
      BY <2>3, RollbackFields
    <3> QED
      BY <3>1 DEF Tracked, Checkpointed
  <2>4. CASE AssessUnknown
    BY <2>4, AssessFields
  <2>5. CASE UNCHANGED count
    BY <2>5
  <2> QED
    BY <2>1, <2>2, <2>3, <2>4, <2>5, Zenon DEF Next, Start, Perform, Complete, Passed, Finish, StepVerify, StepBackup,
        ReplaceReturns, StepObserve, Cleanup, Sql, Die
<1> QED
  BY <1>1, TrackedInvariant, PTL DEF Spec, IntentIsDurable
=============================================================================
