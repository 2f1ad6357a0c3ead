----------------------- MODULE UpgradeMachineResults -----------------------
(***************************************************************************)
(* What a run of the platform upgrade knows and reports when it ends: the  *)
(* database that is live, the Helm release, the workloads.  The invariants *)
(* build on those of UpgradeMachineProofs.                                 *)
(***************************************************************************)
EXTENDS UpgradeMachineProofs

(* What is true of the databases as long as no assessment has judged a script that was at work: such a
   script is one that its run, or a run that was killed or reported an unknown outcome, has left behind;
   until it has renamed the copy, the copy stays; and a run that goes on knows which database is live. *)
Databases ==
  /\ AtWork => pc \in {"sql", "assess", "off", "end"} /\ ~Ended({"passed", "failed", "cleanup_failed"})
  /\ world.sql = "bound" => world.live = "original" /\ world.temp
  /\ world.live = "none" => world.temp
  /\ pc \in Running \ {"sql", "assess"} => world.live = IF state.replaced THEN "restored" ELSE "original"
  /\ pc = "assess" /\ state.replaced => world.live = "restored" /\ ~AtWork
  /\ Ended({"passed", "failed", "cleanup_failed"}) =>
       world.live = IF state.replaced THEN "restored" ELSE "original"

(* Before the script nothing is replaced; after it the databases are known, but for an early judgement. *)
KnownDatabase ==
  /\ count.replace = 0 => world.live = "original" /\ world.sql = "off" /\ ~count.early
  /\ pc = "sql" => ~state.replaced
  /\ ~count.early => Databases

(* What a run knows of the Helm release. *)
KnownRelease ==
  /\ count.apply = 0 => world.helm = Original
  /\ pc \in Running /\ state.applied => count.apply # 0
  /\ pc \in Running /\ ~state.applied /\ (pc = "assess" => state.pending # "apply") => world.helm = Original
  /\ FailureIsNoMutation

(* The workloads were taken down by the driver of this run; what a passed run has done. *)
Left ==
  /\ pc \in Running /\ ~world.up => plan = "replace" /\ driver.quiescing
  /\ world.helm = Target => world.up
  /\ ~world.up => store.durable # None
  /\ pc \in Running /\ Len(state.completed) > 1 => driver.temp = "attempted"
  /\ pc \in {"perform", "completed"} /\ Len(state.completed) = Len(Stages) /\ plan # "preview" => world.helm = Target
  /\ pc \in Running /\ result.result = "passed" =>
       /\ pc \in {"finish", "cleanup"} /\ Len(state.completed) = Len(Stages) /\ store.durable = state
       /\ plan # "preview" => world.helm = Target
  /\ WorkloadsReturn /\ PassedIsComplete

-----------------------------------------------------------------------------
(* The databases. *)

LEMMA SqlIs == Shape => /\ world.sql \in {"off", "running", "bound", "dropped", "finished", "failed"}
                        /\ world.live \in {"original", "restored", "none"}
BY DEF Shape, Worlds

(* A step that leaves the databases alone. *)
LEMMA ReturnsDatabase ==
  ASSUME Shape, Checkpointed, KnownDatabase, pc = "step", NEW ok \in BOOLEAN, NEW out \in Outcomes,
         StepReturns(ok, out), ~(out.known /\ out.replaced),
         world'.live = world.live, world'.sql = world.sql, world.temp => world'.temp,
         count'.replace = count.replace, count'.early = count.early
  PROVE  KnownDatabase'
<1>1. state.pending \in StageNames
  BY PendingStage
<1>2. state'.replaced = state.replaced /\ pc' \in {"completed", "assess", "finish"}
  <2>1. state'.replaced = (state.replaced \/ (out.known /\ out.replaced)) /\ state.replaced \in BOOLEAN
    BY <1>1, Returned, Zenon DEF Shape, Checkpoint
  <2>2. Completes \/ Fails(out)
    BY <1>1, Returned
  <2>3. pc' \in {"completed", "assess", "finish"}
    BY <2>2, Zenon DEF Completes, Fails
  <2> QED
    BY <2>1, <2>3
<1>3. ~count.early => /\ ~AtWork /\ (world.live = "none" => world.temp)
                      /\ world.live = IF state.replaced THEN "restored" ELSE "original"
  BY DEF KnownDatabase, Databases, Running, Pcs
<1>4. ~count'.early => Databases'
  BY <1>2, <1>3 DEF Databases, AtWork, Running, Pcs, Ended
<1> QED
  BY <1>2, <1>4 DEF KnownDatabase

(* A step that does not touch the world, nor what the run has recorded of it. *)
LEMMA DatabaseStays ==
  ASSUME Shape, KnownDatabase, UNCHANGED <<world, count>>, state'.replaced = state.replaced,
         pc \in Running \ {"sql", "assess"}, pc' \in Running \ {"sql", "assess"}
  PROVE  KnownDatabase'
BY DEF KnownDatabase, Databases, AtWork, Ended, Running, Pcs

LEMMA NextKnownDatabase ==
  ASSUME Shape, Checkpointed, Tracked, KnownDatabase, [Next]_vars
  PROVE  KnownDatabase'
<1>1. CASE Start
  <2>0. pc \in {"off", "end"} /\ UNCHANGED <<world, count>>
    BY <1>1 DEF Start
  <2>1. CASE store.file = None /\ pc' = "perform" /\ state' = Fresh
    <3>1. count.replace = 0
      BY <2>1 DEF Tracked
    <3>2. world.live = "original" /\ world.sql = "off" /\ ~count.early /\ ~state'.replaced
      BY <2>1, <3>1, Constants, Zenon DEF KnownDatabase
    <3> QED
      BY <2>0, <2>1, <3>2 DEF KnownDatabase, Databases, AtWork, Ended
  <2>2. CASE pc' = "end" /\ result'.resumed
    BY <2>0, <2>2 DEF KnownDatabase, Databases, AtWork, Ended, Running
  <2> QED
    BY <1>1, <2>1, <2>2, StartFields
<1>2. CASE Perform \/ Complete \/ Passed \/ Finish
  <2>1. /\ pc \in {"perform", "completed", "finish"} /\ pc' \in {"step", "finish", "perform", "rollback", "cleanup"}
        /\ UNCHANGED <<world, count>> /\ state'.replaced = state.replaced
    BY <1>2, PerformFields, CompleteFields, PassedFields, FinishFields DEF NotMutating
  <2> QED
    BY <2>1, DatabaseStays DEF Running, Pcs
<1>5. CASE AssessUnknown
  <2>0. /\ pc = "assess" /\ UNCHANGED world /\ count'.replace = count.replace /\ state.replaced \in BOOLEAN
        /\ count.early \in BOOLEAN
    BY <1>5, AssessFields, Zenon DEF Shape, Checkpoint, Counts
  <2>1. CASE pc' = "end" /\ result'.result = "outcome_unknown" /\ UNCHANGED count
    BY <2>0, <2>1 DEF KnownDatabase, Databases, AtWork, Ended, Running
  <2>2. CASE /\ pc' = "finish" /\ Reconcile(state).known
             /\ state'.replaced = (state.replaced \/ Reconcile(state).replaced)
             /\ count'.early = (count.early \/ AtWork)
    <3>0. count.replace = 0 => ~count'.early
      BY <2>0, <2>2 DEF KnownDatabase, AtWork
    <3>1. ~count'.early => Databases'
      <4> SUFFICES ASSUME ~count'.early PROVE Databases'
        OBVIOUS
      <4>1. ~count.early /\ ~AtWork /\ (state.replaced => world.live = "restored")
        BY <2>0, <2>2, Zenon DEF KnownDatabase, Databases
      <4>2. world.live = IF state'.replaced THEN "restored" ELSE "original"
        <5>1. CASE plan # "replace"
          <6>1. ~Reconcile(state).replaced
            BY <2>2, <5>1, Reconciled
          <6>2. world.live = "original"
            BY <5>1 DEF Tracked, KnownDatabase
          <6> QED
            BY <2>2, <4>1, <6>1, <6>2, Zenon
        <5>2. CASE plan = "replace"
          <6>1. AssessReplacement.known /\ Reconcile(state).replaced = AssessReplacement.replaced
            BY <2>2, <5>2, Reconciled
          <6>2. \/ world.live = "restored" /\ AssessReplacement.replaced
                \/ world.live = "original" /\ ~AssessReplacement.replaced
            BY <6>1, DatabaseOutcome
          <6> QED
            BY <2>0, <2>2, <4>1, <6>1, <6>2, Zenon
        <5> QED
          BY <5>1, <5>2
      <4> QED
        BY <2>0, <2>2, <4>1, <4>2 DEF Databases, AtWork, Ended, Running, Pcs
    <3> QED
      BY <2>0, <2>2, <3>0, <3>1 DEF KnownDatabase
  <2> QED
    BY <1>5, <2>1, <2>2, AssessFields
<1>7. CASE StepVerify
  BY <1>7, VerifyFields, ReturnsDatabase, OutcomesAre, Zenon DEF Returns, NotMutating
<1>8. CASE StepBackup
  BY <1>8, BackupFields, ReturnsDatabase, OutcomesAre DEF Returns
<1>9. CASE StepReplace
  <2>0. world'.live = world.live /\ world'.temp = world.temp
    BY <1>9, ReplaceFields
  <2>1. CASE Returns("replace_database", FALSE, Known) /\ UNCHANGED count /\ world'.sql = world.sql
    BY <2>0, <2>1, ReturnsDatabase, OutcomesAre, Zenon DEF Returns
  <2>2. CASE /\ pc = "step" /\ state.pending = "replace_database" /\ pc' = "sql" /\ UNCHANGED state
             /\ world'.sql = "running" /\ count'.replace = count.replace + 1 /\ count'.early = count.early
    <3>1. Len(state.completed) = 3
      BY <2>2, PendingStage, SoundParts, Zenon
    <3>2. count.replace = 0
      BY <2>2, <3>1 DEF Tracked, Advancing
    <3>3. world.live = "original" /\ ~count.early
      BY <3>2 DEF KnownDatabase
    <3>4. world.live = IF state.replaced THEN "restored" ELSE "original"
      BY <2>2, <3>3 DEF KnownDatabase, Databases, Running, Pcs
    <3>5. count'.replace # 0 /\ ~state'.replaced
      BY <2>2, <3>2, <3>3, <3>4
    <3> QED
      BY <2>0, <2>2, <3>3, <3>5 DEF KnownDatabase, Databases, AtWork, Ended, Running, Pcs
  <2> QED
    BY <1>9, <2>1, <2>2, ReplaceFields, Zenon
<1>10. CASE ReplaceReturns
  <2>0. /\ pc = "sql" /\ state.pending = "replace_database" /\ UNCHANGED count /\ ~state.replaced
        /\ state.replaced \in BOOLEAN
    BY <1>10, ReturnsFields, Zenon DEF Shape, KnownDatabase, Checkpoint
  <2>1. CASE world.sql = "finished" /\ UNCHANGED world /\ StepReturns(TRUE, AssessReplacement)
    <3>1. AssessReplacement \in Outcomes
      BY DatabaseOutcome
    <3>2. /\ state'.replaced = (AssessReplacement.known /\ AssessReplacement.replaced)
          /\ \/ Completes /\ AssessReplacement.known /\ AssessReplacement.replaced
             \/ Fails(AssessReplacement)
      <4>1. state.pending \in StageNames
        BY <2>0 DEF StageNames
      <4>2. /\ state'.replaced = (state.replaced \/ (AssessReplacement.known /\ AssessReplacement.replaced))
            /\ \/ Completes /\ AssessReplacement.known /\ AssessReplacement.replaced
               \/ Fails(AssessReplacement)
        BY <2>0, <2>1, <3>1, <4>1, Returned, Zenon
      <4> QED
        BY <2>0, <4>2
    <3>3. /\ pc' \in {"completed", "assess", "finish"}
          /\ pc' # "assess" => AssessReplacement.known
      BY <2>0, <3>2, Zenon DEF Completes, Fails
    <3>4. AssessReplacement.known => world.live = IF state'.replaced THEN "restored" ELSE "original"
      BY <3>2, DatabaseOutcome, Zenon
    <3>5. ~AssessReplacement.known => ~state'.replaced
      BY <3>2, Zenon
    <3> QED
      BY <2>0, <2>1, <3>3, <3>4, <3>5 DEF KnownDatabase, Databases, AtWork, Ended, Running, Pcs
  <2>2. CASE world' \in Orphaned /\ StepReturns(FALSE, Unknown)
    <3>1. /\ Unknown \in Outcomes /\ ~Unknown.known
      BY OutcomesAre
    <3>2. ~state'.replaced /\ Fails(Unknown)
      <4>1. state.pending \in StageNames
        BY <2>0 DEF StageNames
      <4> QED
        BY <2>0, <2>2, <3>1, <4>1, Returned, Zenon
    <3>3. pc' = "assess"
      BY <2>0, <3>1, <3>2 DEF Fails
    <3>4. /\ world'.live = world.live /\ world'.temp = world.temp
          /\ world'.sql = world.sql \/ (world'.sql = "failed" /\ world.sql # "off")
      BY <2>2, OrphanedFields DEF AtWork
    <3> QED
      BY <2>0, <3>2, <3>3, <3>4 DEF KnownDatabase, Databases, AtWork, Ended, Running, Pcs
  <2> QED
    BY <1>10, <2>1, <2>2, ReturnsFields, Zenon
<1>11. CASE StepApply
  <2>0. /\ world'.live = world.live /\ world'.temp = world.temp /\ world'.sql = world.sql
        /\ count'.replace = count.replace /\ count'.early = count.early
    BY <1>11, ApplyFields, Zenon
  <2>1. \E ok \in BOOLEAN, out \in Outcomes : Returns("apply", ok, out) /\ ~(out.known /\ out.replaced)
    BY <1>11, ApplyFields, OutcomesAre, Zenon
  <2> QED
    BY <2>0, <2>1, ReturnsDatabase DEF Returns
<1>12. CASE StepObserve
  BY <1>12, ObserveFields, ReturnsDatabase, OutcomesAre DEF Returns, NotMutating
<1>13. CASE StepRollback
  <2>1. /\ pc = "rollback" /\ pc' = "cleanup" /\ UNCHANGED state
        /\ count'.replace = count.replace /\ count'.early = count.early
        /\ world'.live = world.live /\ world'.temp = world.temp /\ world'.sql = world.sql
    BY <1>13, RollbackFields
  <2> QED
    BY <2>1 DEF KnownDatabase, Databases, AtWork, Ended, Running, Pcs
<1>14. CASE Cleanup
  <2>1. /\ pc = "cleanup" /\ pc' = "end" /\ UNCHANGED <<state, count>>
        /\ world'.live = world.live /\ world'.sql = world.sql
    BY <1>14, CleanupFields
  <2>2. ~count.early => ~AtWork /\ world.live = IF state.replaced THEN "restored" ELSE "original"
    BY <2>1 DEF KnownDatabase, Databases, Running, Pcs
  <2>3. ~count.early => Databases'
    BY <2>1, <2>2 DEF Databases, AtWork, Ended, Running, Pcs
  <2> QED
    BY <2>1, <2>3 DEF KnownDatabase
<1>15. CASE Sql
  <2>1. UNCHANGED <<pc, state, result, count>> /\ AtWork
    BY <1>15, SqlFields DEF AtWork
  <2>2. count.replace # 0
    BY <2>1 DEF KnownDatabase, AtWork
  <2>3. ~count.early => Databases'
    <3> SUFFICES ASSUME ~count.early PROVE Databases'
      OBVIOUS
    <3>1. /\ pc \in {"sql", "assess", "off", "end"} /\ ~Ended({"passed", "failed", "cleanup_failed"})
          /\ pc = "assess" => ~state.replaced
      BY <2>1 DEF KnownDatabase, Databases
    <3>2. /\ world'.sql = "bound" => world'.live = "original" /\ world'.temp
          /\ world'.live = "none" => world'.temp
      <4>1. CASE world.sql = "running"
        BY <1>15, <4>1, SqlFields DEF KnownDatabase, Databases
      <4>2. CASE world.sql = "bound"
        BY <1>15, <4>2, SqlFields DEF KnownDatabase, Databases
      <4>3. CASE world.sql = "dropped"
        BY <1>15, <4>3, SqlFields DEF KnownDatabase, Databases
      <4> QED
        BY <2>1, <4>1, <4>2, <4>3 DEF AtWork
    <3> QED
      BY <2>1, <3>1, <3>2 DEF Databases, Ended, Running, Pcs
  <2> QED
    BY <2>1, <2>2, <2>3 DEF KnownDatabase
<1>16. CASE \E lost \in BOOLEAN : Die(lost)
  <2>1. pc' = "off" /\ UNCHANGED count /\ world' \in Orphaned
    BY <1>16, DieFields
  <2>2. /\ world'.live = world.live /\ world'.temp = world.temp
        /\ world'.sql = world.sql \/ (world'.sql = "failed" /\ world.sql # "off")
    BY <2>1, OrphanedFields DEF AtWork
  <2> QED
    BY <2>1, <2>2 DEF KnownDatabase, Databases, AtWork, Ended, Running, Pcs
<1>17. CASE UNCHANGED vars
  BY <1>17 DEF KnownDatabase, Databases, AtWork, Ended, vars
<1> QED
  BY <1>1, <1>2, <1>5, <1>7, <1>8, <1>9, <1>10, <1>11, <1>12, <1>13, <1>14, <1>15, <1>16, <1>17 DEF Next

LEMMA KnownDatabaseInvariant == Spec => [](Shape /\ Checkpointed /\ Tracked /\ KnownDatabase)
<1>1. Init => KnownDatabase
  BY DEF Init, KnownDatabase, Databases, AtWork, Ended, Running
<1>2. Shape /\ Checkpointed /\ Tracked /\ KnownDatabase /\ [Next]_vars => KnownDatabase'
  BY NextKnownDatabase
<1> QED
  BY <1>1, <1>2, TrackedInvariant, PTL DEF Spec

(* The live database or its restored copy exists at all times, whatever fails, is killed or loses power and
   whether or not the replacement script outlives the kubectl child that started it, until an assessment calls
   its outcome known while it is at work (assessUnknown): Sql drops the one only after it has bound the other,
   and Cleanup, which drops the copy, is else reached only with the script at its end. *)
THEOREM DatabaseSurvives == Spec => []CopyKept
<1>1. KnownDatabase => CopyKept
  BY DEF KnownDatabase, Databases, CopyKept, DatabaseKept
<1> QED
  BY <1>1, KnownDatabaseInvariant, PTL

-----------------------------------------------------------------------------
(* The Helm release. *)

LEMMA TargetIs == Target # Original
BY DEF Target, Original

(* A step that leaves the release alone, and whose outcome says so. *)
LEMMA ReturnsRelease ==
  ASSUME Shape, Checkpointed, KnownRelease, pc = "step", NEW ok \in BOOLEAN, NEW out \in Outcomes,
         StepReturns(ok, out), out.known, ~out.applied,
         world'.helm = world.helm, count'.apply = count.apply
  PROVE  KnownRelease'
<1>1. state.pending \in StageNames
  BY PendingStage
<1>2. state'.applied = state.applied /\ pc' \in {"completed", "finish"}
  <2>1. state'.applied = (state.applied \/ (out.known /\ out.applied)) /\ state.applied \in BOOLEAN
    BY <1>1, Returned, Zenon DEF Shape, Checkpoint
  <2>2. Completes \/ Fails(out)
    BY <1>1, Returned
  <2>3. pc' \in {"completed", "finish"}
    BY <2>2, Zenon DEF Completes, Fails
  <2> QED
    BY <2>1, <2>3
<1> QED
  BY <1>2 DEF KnownRelease, Running, Pcs, FailureIsNoMutation, Ended

LEMMA NextKnownRelease ==
  ASSUME Shape, Checkpointed, Tracked, KnownRelease, [Next]_vars
  PROVE  KnownRelease'
<1>1. CASE Start
  <2>0. UNCHANGED <<world, count>>
    BY <1>1, StartFields
  <2>1. CASE store.file = None /\ pc' = "perform" /\ state' = Fresh
    <3>1. count.apply = 0
      BY <2>1 DEF Tracked
    <3>2. world'.helm = Original /\ ~state'.applied
      BY <2>0, <2>1, <3>1, Constants, Zenon DEF KnownRelease
    <3> QED
      BY <2>1, <3>2 DEF KnownRelease, FailureIsNoMutation, Ended
  <2>2. CASE pc' = "end" /\ result'.resumed
    BY <2>0, <2>2 DEF KnownRelease, FailureIsNoMutation, Ended, Running
  <2> QED
    BY <1>1, <2>1, <2>2, StartFields
<1>2. CASE Perform \/ Complete \/ Passed \/ Finish
  <2>1. /\ pc \in {"perform", "completed", "finish"} /\ pc' \in {"step", "finish", "perform", "rollback", "cleanup"}
        /\ UNCHANGED <<world, count>> /\ state'.applied = state.applied
    BY <1>2, PerformFields, CompleteFields, PassedFields, FinishFields DEF NotMutating
  <2> QED
    BY <2>1 DEF KnownRelease, FailureIsNoMutation, Ended, Running, Pcs
<1>5. CASE AssessUnknown
  <2>0. pc = "assess" /\ UNCHANGED world /\ count'.apply = count.apply
    BY <1>5, AssessFields
  <2>1. CASE pc' = "end" /\ result'.result = "outcome_unknown"
    BY <2>0, <2>1 DEF KnownRelease, FailureIsNoMutation, Ended, Running
  <2>2. CASE /\ pc' = "finish" /\ Reconcile(state).known
             /\ state'.applied = (state.applied \/ Reconcile(state).applied)
    <3>1. Reconcile(state).applied => world.helm = Target
      BY <2>2, Reconciled, HelmOutcome, Zenon
    <3>2. ~Reconcile(state).applied => state.pending = "replace_database" \/ world.helm = Original
      BY <2>2, Reconciled, HelmOutcome
    <3>3. state'.applied => count.apply # 0
      BY <2>0, <2>2, <3>1, TargetIs, Zenon DEF KnownRelease, Running, Pcs
    <3>4. ~state'.applied => world.helm = Original
      BY <2>0, <2>2, <3>2, Zenon DEF KnownRelease, Running, Pcs
    <3> QED
      BY <2>0, <2>2, <3>3, <3>4 DEF KnownRelease, FailureIsNoMutation, Ended
  <2> QED
    BY <1>5, <2>1, <2>2, AssessFields
<1>7. CASE StepVerify
  BY <1>7, VerifyFields, ReturnsRelease, OutcomesAre, Zenon DEF Returns, NotMutating
<1>8. CASE StepBackup
  BY <1>8, BackupFields, ReturnsRelease, OutcomesAre DEF Returns
<1>9. CASE StepReplace
  <2>0. world'.helm = world.helm
    BY <1>9, ReplaceFields
  <2>1. CASE Returns("replace_database", FALSE, Known) /\ UNCHANGED count
    BY <2>0, <2>1, ReturnsRelease, OutcomesAre, Zenon DEF Returns
  <2>2. CASE /\ pc = "step" /\ pc' = "sql" /\ UNCHANGED state /\ count'.apply = count.apply
    BY <2>0, <2>2 DEF KnownRelease, FailureIsNoMutation, Ended, Running, Pcs
  <2> QED
    BY <1>9, <2>1, <2>2, ReplaceFields, Zenon
<1>10. CASE ReplaceReturns
  <2>0. pc = "sql" /\ state.pending = "replace_database" /\ UNCHANGED count
    BY <1>10, ReturnsFields, Zenon DEF Shape
  <2>1. world'.helm = world.helm
    BY <1>10, ReturnsFields, OrphanedFields, Zenon
  <2>2. \E ok \in BOOLEAN, out \in Outcomes : StepReturns(ok, out) /\ ~(out.known /\ out.applied)
    BY <1>10, ReturnsFields, DatabaseOutcome, OutcomesAre, Zenon
  <2>3. /\ state'.applied = state.applied /\ state'.pending # "apply"
        /\ pc' \in {"completed", "assess", "finish"}
    <3>1. state.pending \in StageNames
      BY <2>0 DEF StageNames
    <3>2. PICK ok \in BOOLEAN, out \in Outcomes : StepReturns(ok, out) /\ ~(out.known /\ out.applied)
      BY <2>2
    <3>3. state'.applied = (state.applied \/ (out.known /\ out.applied)) /\ state.applied \in BOOLEAN
      BY <3>1, <3>2, Returned, Zenon DEF Shape, Checkpoint
    <3>4. Completes \/ Fails(out)
      BY <3>1, <3>2, Returned
    <3>5. state'.pending # "apply" /\ pc' \in {"completed", "assess", "finish"}
      BY <2>0, <3>4, Zenon DEF Completes, Fails
    <3> QED
      BY <3>2, <3>3, <3>5
  <2> QED
    BY <2>0, <2>1, <2>3 DEF KnownRelease, FailureIsNoMutation, Ended, Running, Pcs
<1>11. CASE StepApply
  <2>1. CASE UNCHANGED <<world, count>> /\ Returns("apply", FALSE, Known)
    BY <2>1, ReturnsRelease, OutcomesAre, Zenon DEF Returns
  <2>2. CASE count'.apply = count.apply + 1 /\ Returns("apply", TRUE, [Known EXCEPT !.applied = TRUE])
    <3>1. state.pending \in StageNames /\ pc = "step"
      BY <2>2, PendingStage DEF Returns
    <3>2. state'.applied /\ pc' \in {"completed", "finish"}
      <4> DEFINE out == [Known EXCEPT !.applied = TRUE]
      <4>1. out \in Outcomes /\ out.known /\ out.applied
        BY OutcomesAre
      <4>2. StepReturns(TRUE, out)
        BY <2>2, Zenon DEF Returns
      <4> HIDE DEF out
      <4>3. state'.applied = (state.applied \/ (out.known /\ out.applied)) /\ (Completes \/ Fails(out))
        BY <3>1, <4>1, <4>2, Returned, Zenon
      <4> QED
        BY <4>1, <4>3, Zenon DEF Completes, Fails
    <3>3. count'.apply # 0
      BY <2>2 DEF Shape, Counts
    <3> QED
      BY <3>2, <3>3 DEF KnownRelease, FailureIsNoMutation, Ended
  <2>3. CASE count'.apply = count.apply + 1 /\ Returns("apply", FALSE, Unknown)
    <3>1. state.pending = "apply" /\ state.pending \in StageNames /\ StepReturns(FALSE, Unknown)
      BY <2>3, Zenon DEF Returns, StageNames
    <3>2. Fails(Unknown)
      BY <3>1, Returned, OutcomesAre, Zenon
    <3>3. pc' = "assess" /\ state'.pending = "apply"
      BY <3>1, <3>2, OutcomesAre DEF Fails
    <3>4. count'.apply # 0
      BY <2>3 DEF Shape, Counts
    <3> QED
      BY <3>3, <3>4 DEF KnownRelease, FailureIsNoMutation, Ended
  <2> QED
    BY <1>11, <2>1, <2>2, <2>3, ApplyFields, Zenon
<1>12. CASE StepObserve
  BY <1>12, ObserveFields, ReturnsRelease, OutcomesAre DEF Returns, NotMutating
<1>13. CASE StepRollback
  <2>1. pc = "rollback" /\ pc' = "cleanup" /\ UNCHANGED state /\ count'.apply = count.apply
    BY <1>13, RollbackFields
  <2>2. state.applied /\ count.apply # 0
    BY <2>1 DEF Checkpointed, KnownRelease, Running, Pcs
  <2> QED
    BY <2>1, <2>2 DEF KnownRelease, FailureIsNoMutation, Ended
<1>14. CASE Cleanup
  <2>1. pc = "cleanup" /\ pc' = "end" /\ UNCHANGED <<state, count>> /\ world'.helm = world.helm
    BY <1>14, CleanupFields
  <2> QED
    BY <2>1 DEF KnownRelease, FailureIsNoMutation, Ended, Running, Pcs
<1>15. CASE Sql
  <2>1. UNCHANGED <<pc, state, result, count>> /\ world'.helm = world.helm
    BY <1>15, SqlFields
  <2> QED
    BY <2>1 DEF KnownRelease, FailureIsNoMutation, Ended
<1>16. CASE \E lost \in BOOLEAN : Die(lost)
  <2>1. pc' = "off" /\ UNCHANGED count /\ world'.helm = world.helm
    BY <1>16, DieFields, OrphanedFields
  <2> QED
    BY <2>1 DEF KnownRelease, FailureIsNoMutation, Ended, Running
<1>17. CASE UNCHANGED vars
  BY <1>17 DEF KnownRelease, FailureIsNoMutation, Ended, vars
<1> QED
  BY <1>1, <1>2, <1>5, <1>7, <1>8, <1>9, <1>10, <1>11, <1>12, <1>13, <1>14, <1>15, <1>16, <1>17 DEF Next

LEMMA KnownReleaseInvariant == Spec => [](Shape /\ Checkpointed /\ Tracked /\ KnownRelease)
<1>1. Init => KnownRelease
  BY DEF Init, KnownRelease, FailureIsNoMutation, Ended, Running
<1>2. Shape /\ Checkpointed /\ Tracked /\ KnownRelease /\ [Next]_vars => KnownRelease'
  BY NextKnownRelease
<1> QED
  BY <1>1, <1>2, TrackedInvariant, PTL DEF Spec

-----------------------------------------------------------------------------
(* What a run leaves behind. *)

LEMMA LeftPrime ==
  ASSUME UNCHANGED plan,
         pc' \in Running /\ ~world'.up => plan = "replace" /\ driver'.quiescing,
         world'.helm = Target => world'.up,
         ~world'.up => store'.durable # None,
         pc' \in Running /\ Len(state'.completed) > 1 => driver'.temp = "attempted",
         pc' \in {"perform", "completed"} /\ Len(state'.completed) = Len(Stages) /\ plan # "preview" =>
           world'.helm = Target,
         pc' \in Running /\ result'.result = "passed" =>
           /\ pc' \in {"finish", "cleanup"} /\ Len(state'.completed) = Len(Stages) /\ store'.durable = state'
           /\ plan # "preview" => world'.helm = Target,
         WorkloadsReturn', PassedIsComplete'
  PROVE  Left'
<1>1. Stages' = Stages /\ None' = None /\ Target' = Target
  BY SamePlan, Zenon DEF None, Fresh, Target
<1> QED
  BY <1>1 DEF Left, Running, Pcs

(* Only a run that ends is spoken of. *)
LEMMA NotEnded == pc' # "end" \/ result'.resumed \/ result'.result = "outcome_unknown"
                  => WorkloadsReturn' /\ PassedIsComplete'
BY DEF WorkloadsReturn, PassedIsComplete, Ended

LEMMA AboveOne == \A n : n > 1 => n # 1
OBVIOUS

LEMMA StageAt ==
  ASSUME Shape, Checkpointed, pc \in {"step", "sql"}
  PROVE  /\ Len(state.completed) \in Nat /\ (state.pending = "backup" <=> Len(state.completed) = 1)
         /\ Len(state.completed) > 1 => state.pending # "backup"
         /\ plan # "preview" /\ Len(state.completed) + 1 = Len(Stages) => state.pending = "observe"
<1>1. Sound(state) /\ state \in Checkpoint /\ state.pending \in StageNames
  BY PendingStage
<1>2. /\ Len(state.completed) \in Nat /\ Len(state.completed) < Len(Stages)
      /\ state.pending = Stages[Len(state.completed) + 1]
  BY <1>1, SoundParts, Zenon DEF StageNames
<1>3. state.pending = "backup" <=> Len(state.completed) = 1
  BY <1>2, PendingIs, Zenon
<1>4. Len(state.completed) > 1 => Len(state.completed) # 1
  BY AboveOne, Zenon
<1>5. plan # "preview" /\ Len(state.completed) + 1 = Len(Stages) => state.pending = "observe"
  BY <1>2, PendingIs, Zenon
<1> QED
  BY <1>2, <1>3, <1>4, <1>5

LEMMA NothingDone == \A n, m : n = 0 /\ m \in {3, 5, 6} => ~(n > 1) /\ n # m
OBVIOUS

(* A step that has returned. *)
LEMMA ReturnsLeft ==
  ASSUME Shape, Checkpointed, Left, pc \in {"step", "sql"}, NEW ok \in BOOLEAN, NEW out \in Outcomes,
         UNCHANGED <<plan, store>>, StepReturns(ok, out),
         out.known /\ out.applied => state.pending = "apply",
         out.known /\ out.replaced => state.pending = "replace_database",
         ~world'.up => plan = "replace" /\ driver'.quiescing /\ store.durable # None,
         world'.helm = Target => world'.up,
         state.pending # "backup" => driver'.temp = driver.temp,
         ok /\ state.pending = "backup" => driver'.temp = "attempted",
         ok /\ state.pending = "observe" => world'.helm = Target
  PROVE  Left'
<1>1. Sound(state) /\ ~state.rollback /\ state.pending \in StageNames
  BY PendingStage
<1>2. /\ pc' \in {"completed", "assess", "finish"}
      /\ pc' = "completed" => ok /\ Len(state'.completed) = Len(state.completed) + 1
      /\ pc' # "completed" => state'.completed = state.completed
  BY <1>1, ReturnedSound, Zenon
<1>3. Len(state.completed) > 1 => driver.temp = "attempted"
  BY DEF Left, Running, Pcs
<1>4. Len(state.completed) > 1 => state.pending # "backup"
  BY StageAt
<1>5. Len(state'.completed) > 1 => driver'.temp = "attempted"
  <2>1. CASE pc' = "completed"
    <3>1. Len(state'.completed) > 1 => Len(state.completed) > 1 \/ Len(state.completed) = 1
      BY <1>2, <2>1, StageAt, PlusOne, Zenon
    <3>2. Len(state.completed) = 1 => driver'.temp = "attempted"
      BY <1>2, <2>1, StageAt
    <3> QED
      BY <1>3, <1>4, <3>1, <3>2
  <2>2. CASE pc' # "completed"
    BY <1>2, <1>3, <1>4, <2>2
  <2> QED
    BY <2>1, <2>2
<1>6. pc' = "completed" /\ Len(state'.completed) = Len(Stages) /\ plan # "preview" => world'.helm = Target
  <2>1. Len(state.completed) + 1 = Len(Stages) /\ plan # "preview" => state.pending = "observe"
    BY StageAt
  <2> QED
    BY <1>2, <2>1
<1>7. result'.result # "passed"
  <2>1. result.result # "passed"
    BY DEF Left, Running, Pcs
  <2>2. Completes \/ Fails(out)
    BY <1>1, Returned
  <2> QED
    BY <2>1, <2>2, Zenon DEF Completes, Fails
<1>8. WorkloadsReturn' /\ PassedIsComplete'
  BY <1>2, NotEnded
<1> QED
  BY <1>2, <1>5, <1>6, <1>7, <1>8, LeftPrime

LEMMA NextLeft ==
  ASSUME Shape, Checkpointed, Tracked, KnownRelease, Left, [Next]_vars
  PROVE  Left'
<1>0. /\ world.helm = Target => world.up
      /\ ~world.up => store.durable # None
  BY DEF Left
<1>1. CASE Start
  <2>0. UNCHANGED <<plan, world>> /\ store'.durable = store.durable
    BY <1>1, StartFields
  <2>1. CASE store.file = None /\ pc' = "perform" /\ state' = Fresh /\ result' = NoResult
    <3>1. world.up
      BY <1>0, <2>1 DEF Tracked
    <3>2. Len(state'.completed) = 0 /\ result'.result = ""
      BY <2>1, Constants, Zenon
    <3>3. ~(Len(state'.completed) > 1) /\ Len(state'.completed) # Len(Stages)
      <4>1. Len(Stages) \in {3, 5, 6}
        BY StagesAre
      <4> QED
        BY <3>2, <4>1, NothingDone, Zenon
    <3>4. WorkloadsReturn' /\ PassedIsComplete'
      BY <2>1, NotEnded
    <3> QED
      BY <2>0, <2>1, <3>1, <3>2, <3>3, <3>4, LeftPrime, Zenon
  <2>2. CASE pc' = "end" /\ result'.resumed
    <3>1. WorkloadsReturn' /\ PassedIsComplete'
      BY <2>2, NotEnded
    <3> QED
      BY <1>0, <2>0, <2>2, <3>1, LeftPrime DEF Running
  <2> QED
    BY <1>1, <2>1, <2>2, StartFields
<1>2. CASE Perform \/ Complete \/ AssessUnknown
  <2>1. /\ UNCHANGED <<plan, world, driver>> /\ state'.completed = state.completed
        /\ pc \in {"perform", "completed", "assess"}
        /\ pc' \in {"step", "finish", "perform", "end"} /\ (pc' = "perform" => pc = "completed")
        /\ pc' = "end" => result'.result = "outcome_unknown"
        /\ result'.result = "failed" \/ UNCHANGED result \/ pc' = "end"
        /\ UNCHANGED store \/ Stored(state') \/ NotStored(state')
        /\ state' \in Checkpoint
    BY <1>2, PerformFields, CompleteFields, AssessFields DEF NotMutating, Shape
  <2>2. ~world.up => store'.durable # None
    <3>1. store.durable # None => store.file # None
      BY DEF Tracked
    <3>2. store.durable # None => store'.durable # None
      BY <2>1, <3>1, Kept
    <3> QED
      BY <1>0, <3>2
  <2>3. result.result # "passed"
    BY <2>1 DEF Left, Running, Pcs
  <2>4. result'.result # "passed"
    BY <2>1, <2>3
  <2>5. WorkloadsReturn' /\ PassedIsComplete'
    BY <2>1, NotEnded
  <2>6. /\ ~world.up => plan = "replace" /\ driver.quiescing
        /\ Len(state.completed) > 1 => driver.temp = "attempted"
        /\ pc = "completed" /\ Len(state.completed) = Len(Stages) /\ plan # "preview" => world.helm = Target
    BY <2>1 DEF Left, Running, Pcs
  <2> QED
    BY <1>0, <2>1, <2>2, <2>4, <2>5, <2>6, LeftPrime
<1>4. CASE Passed
  <2>1. /\ NotMutating /\ UNCHANGED <<state, store>> /\ pc = "perform" /\ pc' = "finish"
        /\ Len(state.completed) = Len(Stages)
    BY <1>4, PassedFields
  <2>2. store.durable = state
    <3>1. Len(Stages) # 0
      BY StagesAre
    <3> QED
      BY <2>1, <3>1 DEF Tracked
  <2>3. WorkloadsReturn' /\ PassedIsComplete'
    BY <2>1, NotEnded
  <2>4. /\ ~world.up => plan = "replace" /\ driver.quiescing
        /\ Len(state.completed) > 1 => driver.temp = "attempted"
        /\ plan # "preview" => world.helm = Target
    BY <2>1 DEF Left, Running, Pcs
  <2> QED
    BY <1>0, <2>1, <2>2, <2>3, <2>4, LeftPrime DEF NotMutating
<1>6. CASE Finish
  <2>1. /\ NotMutating /\ pc = "finish" /\ pc' \in {"rollback", "cleanup"} /\ state' \in Checkpoint
        /\ result'.result = result.result /\ state'.completed = state.completed
        /\ \/ pc' = "cleanup" /\ UNCHANGED <<state, store>>
           \/ result.result # "passed" /\ (Stored(state') \/ NotStored(state'))
    BY <1>6, FinishFields
  <2>2. ~world.up => store'.durable # None
    <3>1. store.durable # None => store.file # None
      BY DEF Tracked
    <3>2. store.durable # None => store'.durable # None
      BY <2>1, <3>1, Kept
    <3> QED
      BY <1>0, <3>2
  <2>3. WorkloadsReturn' /\ PassedIsComplete'
    BY <2>1, NotEnded
  <2>4. /\ ~world.up => plan = "replace" /\ driver.quiescing
        /\ Len(state.completed) > 1 => driver.temp = "attempted"
        /\ result.result = "passed" => /\ Len(state.completed) = Len(Stages) /\ store.durable = state
                                       /\ plan # "preview" => world.helm = Target
    BY <2>1 DEF Left, Running, Pcs
  <2> QED
    BY <1>0, <2>1, <2>2, <2>3, <2>4, LeftPrime DEF NotMutating
<1>7. CASE StepVerify \/ StepObserve
  <2>1. NotMutating /\ \E stage \in {"verify", "dry_run", "observe"}, ok \in BOOLEAN :
          Returns(stage, ok, Known) /\ (ok /\ stage = "observe" => world.helm = Target)
    BY <1>7, VerifyFields, ObserveFields, Zenon
  <2>2. PICK stage \in {"verify", "dry_run", "observe"}, ok \in BOOLEAN :
          Returns(stage, ok, Known) /\ (ok /\ stage = "observe" => world.helm = Target)
    BY <2>1
  <2>3. /\ pc = "step" /\ state.pending = stage /\ UNCHANGED <<plan, store>> /\ StepReturns(ok, Known)
    BY <2>2 DEF Returns
  <2>4. ~world.up => plan = "replace" /\ driver.quiescing
    BY <2>3 DEF Left, Running, Pcs
  <2> QED
    BY <1>0, <2>1, <2>2, <2>3, <2>4, ReturnsLeft, OutcomesAre DEF NotMutating
<1>8. CASE StepBackup
  <2>1. PICK ok \in BOOLEAN : Returns("backup", ok, Known) /\ (ok => driver'.temp = "attempted")
    BY <1>8, BackupFields
  <2>2. /\ pc = "step" /\ state.pending = "backup" /\ UNCHANGED <<plan, store>> /\ StepReturns(ok, Known)
    BY <2>1 DEF Returns
  <2>3. /\ driver'.quiescing = driver.quiescing /\ world'.helm = world.helm /\ world'.up = world.up
    BY <1>8, BackupFields
  <2>4. ~world.up => plan = "replace" /\ driver.quiescing
    BY <2>2 DEF Left, Running, Pcs
  <2> QED
    BY <1>0, <2>1, <2>2, <2>3, <2>4, ReturnsLeft, OutcomesAre
<1>9. CASE StepReplace
  <2>0. /\ pc = "step" /\ state.pending = "replace_database" /\ UNCHANGED <<plan, store>>
        /\ driver'.temp = driver.temp /\ world'.helm = world.helm
    BY <1>9, ReplaceFields, Zenon DEF Returns
  <2>1. Sound(state) /\ state \in Checkpoint
    BY <2>0, PendingStage
  <2>2. plan = "replace" /\ Len(state.completed) = 3 /\ ApplyAt = 4
    BY <2>0, <2>1, SoundParts, Zenon
  <2>3. world'.helm # Target
    <3>1. ~(Len(state.completed) > ApplyAt)
      BY <2>2
    <3>2. count.apply = 0
      BY <2>0, <3>1 DEF Tracked, Advancing
    <3> QED
      BY <2>0, <3>2, TargetIs DEF KnownRelease
  <2>4. store.durable # None
    <3>1. store.durable = state
      BY <2>0 DEF Tracked
    <3> QED
      BY <2>1, <3>1, ValidIsSound
  <2>5. ~world.up => driver.quiescing
    BY <2>0 DEF Left, Running, Pcs
  <2>6. ~world'.up => driver'.quiescing
    BY <1>9, <2>5, ReplaceFields
  <2>7. CASE Returns("replace_database", FALSE, Known)
    <3>1. StepReturns(FALSE, Known) /\ Known \in Outcomes /\ ~Known.applied /\ ~Known.replaced
      BY <2>7, OutcomesAre, Zenon DEF Returns
    <3> QED
      BY <2>0, <2>2, <2>3, <2>4, <2>6, <3>1, ReturnsLeft, Zenon
  <2>8. CASE pc' = "sql" /\ UNCHANGED <<state, result>>
    <3>1. WorkloadsReturn' /\ PassedIsComplete'
      BY <2>8, NotEnded
    <3>2. result'.result # "passed" /\ (Len(state'.completed) > 1 => driver.temp = "attempted")
      BY <2>0, <2>8 DEF Left, Running, Pcs
    <3> QED
      BY <2>0, <2>2, <2>3, <2>4, <2>6, <2>8, <3>1, <3>2, LeftPrime
  <2> QED
    BY <1>9, <2>7, <2>8, ReplaceFields, Zenon
<1>10. CASE ReplaceReturns
  <2>0. /\ pc = "sql" /\ state.pending = "replace_database" /\ UNCHANGED <<plan, store, driver>>
        /\ world'.helm = world.helm /\ world'.up = world.up
    BY <1>10, ReturnsFields, OrphanedFields, Zenon DEF Shape
  <2>1. \E ok \in BOOLEAN, out \in Outcomes : StepReturns(ok, out) /\ ~(out.known /\ out.applied)
    BY <1>10, ReturnsFields, DatabaseOutcome, OutcomesAre, Zenon
  <2>2. ~world.up => plan = "replace" /\ driver.quiescing
    BY <2>0 DEF Left, Running, Pcs
  <2> QED
    BY <1>0, <2>0, <2>1, <2>2, ReturnsLeft
<1>11. CASE StepApply
  <2>0. /\ pc = "step" /\ state.pending = "apply" /\ UNCHANGED <<plan, store, driver>>
        /\ \E ok \in BOOLEAN, out \in Outcomes : StepReturns(ok, out) /\ ~(out.known /\ out.replaced)
    BY <1>11, ApplyFields, OutcomesAre, Zenon DEF Returns
  <2>1. /\ world.up => world'.up
        /\ world'.helm = Target => world.helm = Target \/ world'.up
    BY <1>11, ApplyFields, Zenon
  <2>2. ~world.up => plan = "replace" /\ driver.quiescing
    BY <2>0 DEF Left, Running, Pcs
  <2>3. /\ ~world'.up => plan = "replace" /\ driver'.quiescing /\ store.durable # None
        /\ world'.helm = Target => world'.up
    BY <1>0, <2>0, <2>1, <2>2
  <2> QED
    BY <2>0, <2>3, ReturnsLeft
<1>13. CASE StepRollback
  <2>1. /\ pc = "rollback" /\ pc' = "cleanup" /\ UNCHANGED <<plan, state, store, driver>>
        /\ result'.result = result.result
        /\ world.up => world'.up
        /\ world'.helm = Target => world.helm = Target
    BY <1>13, RollbackFields
  <2>2. /\ ~world.up => plan = "replace" /\ driver.quiescing
        /\ Len(state.completed) > 1 => driver.temp = "attempted"
        /\ result.result # "passed"
    BY <2>1 DEF Left, Running, Pcs
  <2>3. WorkloadsReturn' /\ PassedIsComplete'
    BY <2>1, NotEnded
  <2> QED
    BY <1>0, <2>1, <2>2, <2>3, LeftPrime
<1>15. CASE Sql
  <2>1. UNCHANGED <<plan, pc, state, result, store, driver>> /\ world'.helm = world.helm /\ world'.up = world.up
    BY <1>15, SqlFields
  <2>2. world'.temp => world.temp
    BY <1>15, SqlFields
  <2>3. WorkloadsReturn' /\ PassedIsComplete'
    BY <2>1, <2>2, SamePlan DEF Left, WorkloadsReturn, PassedIsComplete, Ended, Target
  <2> QED
    BY <2>1, <2>3, LeftPrime DEF Left
<1>16. CASE \E lost \in BOOLEAN : Die(lost)
  <2>1. /\ pc' = "off" /\ UNCHANGED plan /\ store'.durable = store.durable
        /\ world'.helm = world.helm /\ world'.up = world.up
    BY <1>16, DieFields, OrphanedFields
  <2>2. WorkloadsReturn' /\ PassedIsComplete'
    BY <2>1, NotEnded
  <2> QED
    BY <1>0, <2>1, <2>2, LeftPrime DEF Running
<1>17. CASE UNCHANGED vars
  <2>1. WorkloadsReturn' /\ PassedIsComplete'
    BY <1>17, SamePlan DEF Left, WorkloadsReturn, PassedIsComplete, Ended, Target, vars
  <2> QED
    BY <1>17, <2>1, LeftPrime DEF Left, vars
<1>14. CASE Cleanup
  <2>1. /\ pc = "cleanup" /\ pc' = "end" /\ UNCHANGED <<plan, state, store, driver>>
        /\ world'.helm = world.helm
        /\ world.up => world'.up
        /\ result'.result = result.result \/ result'.result = "cleanup_failed"
        /\ result'.result = "passed" => ~result'.cleanupFailed
        /\ ~result'.cleanupFailed => /\ \E w \in RestoreReplicas : world'.up = w.up
                                     /\ world'.temp => driver.temp # "attempted"
    BY <1>14, CleanupFields
  <2>2. /\ ~world.up => plan = "replace" /\ driver.quiescing
        /\ Len(state.completed) > 1 => driver.temp = "attempted"
        /\ result.result = "passed" => /\ Len(state.completed) = Len(Stages) /\ store.durable = state
                                       /\ plan # "preview" => world.helm = Target
    BY <2>1 DEF Left, Running, Pcs
  <2>3. \A w \in RestoreReplicas : w.up
    <3>1. CASE plan # "replace" \/ ~driver.quiescing
      BY <2>2, <3>1 DEF RestoreReplicas
    <3>2. CASE world.helm.status = "deployed" /\ world.helm.version = "target"
      <4>1. world.helm = Target
        BY <3>2 DEF Shape, Worlds, Helms, Original, Target, RolledBack, Broken
      <4> QED
        BY <1>0, <3>2, <4>1 DEF RestoreReplicas
    <3>3. CASE plan = "replace" /\ driver.quiescing /\ ~(world.helm.status = "deployed" /\ world.helm.version = "target")
      <4>1. world \in Worlds
        BY DEF Shape
      <4> QED
        BY <3>3, <4>1 DEF RestoreReplicas, Worlds
    <3> QED
      BY <3>1, <3>2, <3>3
  <2>4. WorkloadsReturn'
    BY <2>1, <2>3 DEF WorkloadsReturn
  <2>5. PassedIsComplete'
    <3>1. SUFFICES ASSUME result'.result = "passed"
                   PROVE  /\ store'.durable.completed = Stages
                          /\ plan # "preview" => world'.helm = Target
                          /\ ~world'.temp
      BY <2>1, SamePlan DEF PassedIsComplete, Ended, Target
    <3>2. result.result = "passed"
      BY <2>1, <3>1
    <3>3. Len(Stages) > 1
      BY StagesAre
    <3>4. ~world'.temp
      BY <2>1, <2>2, <3>1, <3>2, <3>3
    <3>5. state.completed = Stages
      <4>1. Sound(state) /\ state \in Checkpoint
        BY <2>1 DEF Checkpointed, Running, Pcs, Shape
      <4>2. /\ state.completed \in Seq(StageNames) /\ Stages \in Seq(StageNames)
            /\ Len(state.completed) = Len(Stages)
        BY <2>2, <3>2, ShapeParts, StagesAre, Zenon
      <4>3. \A i \in 1..Len(state.completed) : state.completed[i] = Stages[i]
        BY <4>1, SoundParts, Zenon
      <4> QED
        BY <4>2, <4>3
    <3> QED
      BY <2>1, <2>2, <3>2, <3>4, <3>5
  <2>6. ~world'.up => store'.durable # None
    BY <1>0, <2>1
  <2> QED
    BY <1>0, <2>1, <2>4, <2>5, <2>6, LeftPrime DEF Running
<1> QED
  BY <1>1, <1>2, <1>4, <1>6, <1>7, <1>8, <1>9, <1>10, <1>11, <1>13, <1>14, <1>15, <1>16, <1>17 DEF Next

LEMMA LeftInvariant == Spec => [](Shape /\ Checkpointed /\ Tracked /\ KnownRelease /\ Left)
<1>1. Init => Left
  BY TargetIs DEF Init, Left, WorkloadsReturn, PassedIsComplete, Ended, Running
<1>2. Shape /\ Checkpointed /\ Tracked /\ KnownRelease /\ Left /\ [Next]_vars => Left'
  BY NextLeft
<1> QED
  BY <1>1, <1>2, KnownReleaseInvariant, PTL DEF Spec

LEMMA TypeIs ==
  ASSUME Shape, Checkpointed
  PROVE  TypeOK
<1>1. pc # "off" /\ pc # "end" => validateCheckpoint(state)
  BY ValidIsSound, Zenon DEF Shape, Checkpointed, Running
<1>2. \A c \in {store.file, store.durable} : c # None => validateCheckpoint(c)
  BY ValidIsSound, Zenon DEF Shape, Checkpointed, Stores
<1>3. runs \in 0..MaxRuns
  BY UpgradeConstants DEF Shape
<1> QED
  BY <1>1, <1>2, <1>3, SqlIs DEF TypeOK, Shape, Pcs

(* The result of a run is true: a run that ends with passed, failed or
   cleanup_failed has recorded which database is live, unless it has judged
   the replacement script while that was at work; one that failed without
   having applied has left the Helm release alone; one whose cleanup
   succeeded has left the workloads running; and a passed one is deployed,
   durable to its last stage and has dropped its temporary database. *)
THEOREM ResultTrue == Spec => []ResultIsTrue
<1>1. KnownDatabase => ReplacementReported
  BY DEF KnownDatabase, Databases, ReplacementReported
<1>2. Shape /\ Checkpointed /\ KnownDatabase /\ KnownRelease /\ Left => ResultIsTrue
  BY <1>1, TypeIs DEF KnownRelease, Left, ResultIsTrue
<1> QED
  BY <1>2, KnownDatabaseInvariant, LeftInvariant, PTL
=============================================================================
