--------------------------- MODULE UpgradeMachine ---------------------------
(***************************************************************************)
(* The signed release upgrade of the management plane: the durable state    *)
(* machine (internal/ops/upgrade/machine.go), its checkpoint file           *)
(* (store_linux.go), and the release driver it drives (internal/ops/        *)
(* upgradecli: backup, disposable database replacement, Helm apply and      *)
(* rollback, cleanup).                                                      *)
(*                                                                          *)
(* A run may fail at every call, be killed between any two calls, or lose   *)
(* power; later runs start in the same operation directory.  A call that    *)
(* fails because the caller was cancelled, a deadline passed, the ownership *)
(* fence refused or the child failed is one nondeterministic failure.  Helm *)
(* and PostgreSQL are external: they are modelled by the outcomes the       *)
(* driver distinguishes.  The replacement script runs in the database pod,  *)
(* so that the end of its kubectl child may stop it or not.                 *)
(***************************************************************************)
EXTENDS Naturals, Sequences

CONSTANTS
    Plans,    \* subset of {"preview", "execute", "replace"}
    MaxRuns   \* bound: runs started in the operation directory

ASSUME UpgradeConstants ==
    /\ Plans \subseteq {"preview", "execute", "replace"}
    /\ MaxRuns \in Nat

VARIABLES
    plan,      \* what the operator asked for
    runs,      \* runs started
    pc,        \* where the run is
    state,     \* Machine.Run's checkpoint in memory
    result,    \* Machine.Run's Result
    store,     \* the operation directory and FileStore.lastState
    driver,    \* the driver's memory: lost when the process dies
    world,     \* the Helm release, the databases and the workloads
    count      \* history: mutations begun, over all runs, and early judgements

vars == <<plan, runs, pc, state, result, store, driver, world, count>>

Verify == "verify"
Stages ==
    CASE plan = "preview" -> <<Verify, "backup", "dry_run">>
      [] plan = "execute" -> <<Verify, "backup", "dry_run", "apply",
                               "observe">>
      [] plan = "replace" -> <<Verify, "backup", "dry_run",
                               "replace_database", "apply", "observe">>

Fresh == [completed |-> <<>>, pending |-> "", applied |-> FALSE,
          replaced |-> FALSE, rollback |-> FALSE]
None == [Fresh EXCEPT !.pending = "none"]

NoResult == [result |-> "", resumed |-> FALSE, rollbackFailed |-> FALSE,
             cleanupFailed |-> FALSE]
\* temp: the TemporaryDatabase handle is absent, bound, or used to CREATE.
NewDriver == [temp |-> "absent", captured |-> FALSE, quiescing |-> FALSE]
Original == [version |-> "previous", moved |-> FALSE, status |-> "deployed"]

Init ==
    /\ plan \in Plans
    /\ runs = 0 /\ pc = "off"
    /\ state = Fresh /\ result = NoResult
    /\ store = [file |-> None, durable |-> None, left |-> FALSE,
                last |-> None]
    /\ driver = NewDriver
    /\ world = [helm |-> Original, live |-> "original", temp |-> FALSE,
                sql |-> "off", up |-> TRUE]
    /\ count = [apply |-> 0, replace |-> 0, rollback |-> 0, early |-> FALSE]

---------------------------------------------------------------------------
(* The checkpoint file.                                                    *)

Done(st, stage) ==
    \E i \in 1 .. Len(st.completed) : st.completed[i] = stage

validateCheckpoint(st) ==
    LET n == Len(st.completed) IN
    /\ n <= Len(Stages) /\ \A i \in 1 .. n : st.completed[i] = Stages[i]
    /\ st.pending # "" => n < Len(Stages) /\ st.pending = Stages[n + 1]
    /\ st.applied => Done(st, "apply") \/ st.pending = "apply"
    /\ Done(st, "apply") => st.applied
    /\ st.replaced => \/ Done(st, "replace_database")
                      \/ st.pending = "replace_database"
    /\ Done(st, "replace_database") => st.replaced
    /\ st.rollback => st.applied \/ st.pending = "apply"

checkpointRegresses(last, st) ==
    LET n == Len(last.completed) IN
    IF last = None THEN st # [Fresh EXCEPT !.pending = Verify]
    ELSE \/ Len(st.completed) \notin {n, n + 1}
         \/ \E i \in 1 .. n : last.completed[i] # st.completed[i]
         \/ last.applied /\ ~st.applied
         \/ last.replaced /\ ~st.replaced
         \/ last.rollback /\ ~st.rollback
         \/ /\ Len(st.completed) = n + 1
            /\ \/ last.pending = "" \/ st.completed[n + 1] # last.pending
               \/ st.pending # ""
         \/ /\ Len(st.completed) = n /\ last.pending # ""
            /\ st.pending # last.pending

\* Refused when the checkpoint is contradictory or would rewind, and when an
\* interrupted checkpoint.pending is lying there.
Acceptable(st) ==
    /\ validateCheckpoint(st) /\ ~checkpointRegresses(store.last, st)
    /\ ~store.left

SaveUnsynced(st) ==
    /\ Acceptable(st)
    /\ store' = [store EXCEPT !.file = st, !.last = st]

\* Save returned nil: the file was written, renamed and the directory synced.
Save(st) ==
    /\ Acceptable(st)
    /\ store' = [store EXCEPT !.file = st, !.durable = st, !.last = st]

\* Save returned an error: nothing happened, checkpoint.pending was left, or
\* the file was published but not (known to be) durable.
SaveFails(st) ==
    \/ UNCHANGED store
    \/ Acceptable(st) /\ store' = [store EXCEPT !.left = TRUE]
    \/ /\ Acceptable(st)
       /\ \E d \in {st, store.durable} :
             store' = [store EXCEPT !.file = st, !.last = st, !.durable = d]

---------------------------------------------------------------------------
(* Reconcile: what fresh observations say of a started mutation.           *)

Unknown == [known |-> FALSE, applied |-> FALSE, replaced |-> FALSE]
Known == [Unknown EXCEPT !.known = TRUE]

AssessReplacementByName ==
    IF ~driver.captured THEN Unknown
    ELSE IF world.temp THEN Known
    ELSE [Known EXCEPT !.replaced = TRUE]

\* DisposableReplacement.Reconcile: by the retained identities.
AssessReplacement ==
    IF ~driver.captured THEN Unknown
    ELSE IF world.live = "original" /\ world.temp THEN Known
    ELSE IF world.live = "restored" /\ ~world.temp
         THEN [Known EXCEPT !.replaced = TRUE]
    ELSE Unknown

\* reconcileHelm: a newer revision of the previous version may be Helm's own
\* rollback of a partially applied upgrade, so that it stays unknown.
reconcileHelm ==
    IF world.helm = Original THEN Known
    ELSE IF /\ world.helm.status = "deployed" /\ world.helm.moved
            /\ world.helm.version = "target"
         THEN [Known EXCEPT !.applied = TRUE]
    ELSE Unknown

Reconcile(st) ==
    LET db == AssessReplacement IN
    IF plan # "replace" THEN reconcileHelm
    ELSE IF ~db.known \/ st.pending = "replace_database" THEN db
    ELSE IF ~reconcileHelm.known THEN Unknown
    ELSE [reconcileHelm EXCEPT !.replaced = db.replaced]

---------------------------------------------------------------------------
(* Machine.Run.                                                            *)

Report(r) == result' = [NoResult EXCEPT !.result = r]

StartResumes ==
    /\ pc = "off" \/ pc = "end"
    /\ runs < MaxRuns
    /\ runs' = runs + 1
    /\ driver' = NewDriver
    /\ store' = [store EXCEPT !.last = store.file]
    /\ state' = IF store.file = None THEN Fresh ELSE store.file
    /\ pc' = "perform" /\ result' = NoResult
    /\ UNCHANGED <<plan, world, count>>

\* Invocation.Run: open the store (one runner at a time holds its lock), load
\* the checkpoint and run.  A resumed run observes and stops: a checkpoint is
\* an observation record, not fresh signer or backup proof.
Start ==
    /\ pc = "off" \/ pc = "end"
    /\ runs < MaxRuns
    /\ runs' = runs + 1
    /\ driver' = NewDriver
    /\ store' = [store EXCEPT !.last = store.file]
    /\ IF store.file = None
       THEN /\ pc' = "perform" /\ state' = Fresh /\ result' = NoResult
       ELSE /\ pc' = "end" /\ state' = store.file
            /\ \E r \in {"failed", "outcome_unknown",
                         "resume_assessment_required"} :
                  /\ r = "resume_assessment_required" =>
                        plan # "replace" /\ reconcileHelm.known
                  /\ result' = [NoResult EXCEPT !.result = r,
                                               !.resumed = TRUE]
    /\ UNCHANGED <<plan, world, count>>

Stage == Stages[Len(state.completed) + 1]

\* perform, up to the durable intent.
Perform ==
    /\ pc = "perform" /\ Len(state.completed) < Len(Stages)
    /\ \/ \* the context expired or the fence refused
          /\ pc' = "finish" /\ Report("failed")
          /\ UNCHANGED <<state, store>>
       \/ /\ state' = [state EXCEPT !.pending = Stage]
          /\ \/ /\ Save(state') /\ pc' = "step" /\ UNCHANGED result
             \/ /\ SaveFails(state')
                /\ pc' = "finish" /\ Report("failed")
    /\ UNCHANGED <<plan, runs, driver, world, count>>

\* What an outcome adds to the checkpoint.
Recorded(st, out) ==
    [st EXCEPT !.applied = @ \/ out.applied, !.replaced = @ \/ out.replaced]

\* perform, after Driver.Step returned out (without error if ok).
StepReturns(ok, out) ==
    LET stage == state.pending
        st == IF out.known THEN Recorded(state, out) ELSE state
        acknowledged == /\ stage = "apply" => out.known /\ out.applied
                        /\ stage = "replace_database" =>
                              out.known /\ out.replaced
    IN  \/ /\ ok /\ acknowledged
           /\ state' = [st EXCEPT !.completed = Append(@, stage),
                                  !.pending = ""]
           /\ pc' = "completed" /\ UNCHANGED result
        \/ \* the step failed, or its context expired in the meantime
           /\ state' = st
           /\ pc' = IF stage \in {"apply", "replace_database"} /\ ~out.known
                    THEN "assess" ELSE "finish"
           /\ Report("failed")

\* perform, the completion record.
Complete ==
    /\ pc = "completed"
    /\ \/ Save(state) /\ pc' = "perform" /\ UNCHANGED result
       \/ SaveFails(state) /\ pc' = "finish" /\ Report("failed")
    /\ UNCHANGED <<plan, runs, state, driver, world, count>>

Passed ==
    /\ pc = "perform" /\ Len(state.completed) = Len(Stages)
    /\ pc' = "finish" /\ Report("passed")
    /\ UNCHANGED <<plan, runs, state, store, driver, world, count>>

\* The replacement script has not come to its end.
AtWork == world.sql \in {"running", "bound", "dropped"}

\* assessUnknown: reconcile before anything else; recovery handles stay when
\* the outcome stays unknown.  count.early records that the outcome was called
\* known while the script was still at work.
AssessUnknownFinishes ==
    /\ pc = "assess"
    /\ pc' = "finish"
    /\ UNCHANGED <<plan, runs, state, result, store, driver, world, count>>

AssessUnknown ==
    LET o == Reconcile(state)
        st == Recorded(state, o)
    IN
    /\ pc = "assess"
    /\ \/ /\ pc' = "end" /\ Report("outcome_unknown")
          /\ UNCHANGED <<state, store, count>>
       \/ /\ o.known /\ state' = st
          /\ \/ /\ Save(st) /\ pc' = "finish" /\ UNCHANGED result
                /\ count' = [count EXCEPT !.early = @ \/ AtWork]
             \/ /\ SaveFails(st) /\ pc' = "end" /\ Report("outcome_unknown")
                /\ UNCHANGED count
    /\ UNCHANGED <<plan, runs, driver, world>>

\* finish, up to the rollback.
Finish ==
    /\ pc = "finish"
    /\ IF result.result # "passed" /\ state.applied /\ ~state.rollback
       THEN /\ state' = [state EXCEPT !.rollback = TRUE]
            /\ \/ Save(state') /\ pc' = "rollback" /\ UNCHANGED result
               \/ /\ Save(state') \/ SaveFails(state')
                  /\ pc' = "cleanup"
                  /\ result' = [result EXCEPT !.rollbackFailed = TRUE]
       ELSE pc' = "cleanup" /\ UNCHANGED <<state, result, store>>
    /\ UNCHANGED <<plan, runs, driver, world, count>>

---------------------------------------------------------------------------
(* Driver.Step.                                                            *)

AtStep(stage) == pc = "step" /\ state.pending = stage

StepVerify ==
    /\ AtStep(Verify) \/ AtStep("dry_run")
    /\ StepReturns(TRUE, Known)
    /\ UNCHANGED <<plan, runs, store, driver, world, count>>

\* TargetDatabase.Capture, ReleaseBackup.Capture (dump, then restore it into
\* a database of its own) and DisposableReplacement.Capture.
StepBackup ==
    /\ AtStep("backup")
    /\ \/ /\ \E t \in {"absent", "bound"} :
                driver' = [driver EXCEPT !.temp = t]
          /\ UNCHANGED world /\ StepReturns(FALSE, Known)
       \/ /\ ~world.temp
          /\ \E made, captured \in BOOLEAN :
                /\ driver' = [driver EXCEPT !.temp = "attempted",
                                            !.captured = captured]
                /\ world' = [world EXCEPT !.temp = made]
                /\ captured => made /\ plan = "replace"
                /\ StepReturns(made /\ (plan = "replace" => captured), Known)
    /\ UNCHANGED <<plan, runs, store, count>>

\* DisposableReplacement.Replace, up to the script: the workloads are scaled
\* to zero, and every failure before the script is a known non-mutation.
StepReplace ==
    /\ AtStep("replace_database")
    /\ \/ /\ \E q, up \in BOOLEAN :
                /\ ~q => up = world.up
                /\ driver' = [driver EXCEPT !.quiescing = @ \/ q]
                /\ world' = [world EXCEPT !.up = up]
          /\ StepReturns(FALSE, Known) /\ UNCHANGED count
       \/ /\ driver.captured /\ AssessReplacement = Known
          /\ driver' = [driver EXCEPT !.quiescing = TRUE]
          /\ world' = [world EXCEPT !.up = FALSE, !.sql = "running"]
          /\ count' = [count EXCEPT !.replace = @ + 1]
          /\ pc' = "sql" /\ UNCHANGED <<state, result>>
    /\ UNCHANGED <<plan, runs, store>>

\* When its kubectl child is gone the script ends, or goes on in the pod.
Orphaned ==
    IF AtWork THEN {world, [world EXCEPT !.sql = "failed"]} ELSE {world}

\* Even a successful child is followed by an assessment of the identities.
ReplaceReturns ==
    /\ pc = "sql"
    /\ \/ /\ world.sql = "finished" /\ UNCHANGED world
          /\ StepReturns(TRUE, AssessReplacement)
       \/ /\ world' \in Orphaned
          /\ StepReturns(FALSE, Unknown)
    /\ UNCHANGED <<plan, runs, store, driver, count>>

Target == [version |-> "target", moved |-> TRUE, status |-> "deployed"]
RolledBack == [Original EXCEPT !.moved = TRUE]
Broken == [Target EXCEPT !.status = "pending"]

\* HelmRelease.RunStage "never reports a failed or cancelled Apply as a known
\* non-mutation".
RunStageFailed(out) == out

\* Everything is verified again, a replacement must have been assessed; then
\* helm upgrade --atomic, which may fail untouched, half way, after its own
\* rollback, or after it has committed.
StepApply ==
    /\ AtStep("apply")
    /\ \/ UNCHANGED <<world, count>> /\ StepReturns(FALSE, Known)
       \/ /\ plan = "replace" => AssessReplacement.replaced
          /\ count' = [count EXCEPT !.apply = @ + 1]
          /\ \/ /\ world' = [world EXCEPT !.helm = Target, !.up = TRUE]
                /\ StepReturns(TRUE, [Known EXCEPT !.applied = TRUE])
             \/ /\ \E h \in {world.helm, Target, RolledBack, Broken} :
                      world' = [world EXCEPT !.helm = h,
                                  !.up = @ \/ h \in {Target, RolledBack}]
                /\ StepReturns(FALSE, RunStageFailed(Unknown))
    /\ UNCHANGED <<plan, runs, store, driver>>

\* TargetWorkloads.Check.
StepObserve ==
    /\ AtStep("observe")
    /\ StepReturns(world.helm = Target, Known)
    /\ UNCHANGED <<plan, runs, store, driver, world, count>>

\* helm rollback to the original revision.
StepRollback ==
    /\ pc = "rollback" /\ pc' = "cleanup"
    /\ \/ \* refused before the command
          /\ result' = [result EXCEPT !.rollbackFailed = TRUE]
          /\ UNCHANGED <<world, count>>
       \/ /\ count' = [count EXCEPT !.rollback = @ + 1]
          /\ \E h \in {world.helm, RolledBack, Broken} :
                /\ world' = [world EXCEPT !.helm = h,
                                          !.up = @ \/ h = RolledBack]
                /\ \E failed \in BOOLEAN :
                      /\ h # RolledBack => failed
                      /\ result' = [result EXCEPT !.rollbackFailed = failed]
    /\ UNCHANGED <<plan, runs, state, store, driver>>

---------------------------------------------------------------------------
(* ReleaseDriver.Cleanup.                                                  *)

\* RestoreReplicas refuses (no element), leaves the counts to the target's
\* values, or scales the workloads of the previous release up again.
RestoreReplicas ==
    IF plan # "replace" \/ ~driver.quiescing THEN {world}
    ELSE IF world.helm.status # "deployed" THEN {}
    ELSE IF world.helm.version = "target" THEN {world}
    ELSE IF ~AssessReplacement.known THEN {}
    ELSE {[world EXCEPT !.up = TRUE]}

CleanupFailed(failed) ==
    result' = [result EXCEPT
        !.cleanupFailed = failed,
        !.result = IF failed /\ @ = "passed" THEN "cleanup_failed" ELSE @]

\* The temporary database is dropped by its retained identity; a handle that
\* never created one is refused.
Cleanup ==
    /\ pc = "cleanup" /\ pc' = "end"
    /\ \/ UNCHANGED world /\ CleanupFailed(TRUE)
       \/ \E w \in RestoreReplicas :
             \/ world' = w /\ CleanupFailed(driver.temp # "absent")
             \/ /\ driver.temp = "attempted"
                /\ world' = [w EXCEPT !.temp = FALSE]
                /\ \E failed \in BOOLEAN : CleanupFailed(failed)
    /\ UNCHANGED <<plan, runs, state, store, driver, count>>

---------------------------------------------------------------------------
(* The replacement script in the database pod: bind both databases by name, *)
(* identity and marker, drop one, rename the other.                         *)
Sql ==
    /\ \/ /\ world.sql = "running"
          /\ world' = [world EXCEPT !.sql =
                 IF world.live = "original" /\ world.temp THEN "bound"
                 ELSE "failed"]
       \/ /\ world.sql = "bound"
          /\ world' = [world EXCEPT !.sql = "dropped", !.live = "none"]
       \/ /\ world.sql = "dropped"
          /\ world' = IF world.temp
                      THEN [world EXCEPT !.sql = "finished", !.temp = FALSE,
                                         !.live = "restored"]
                      ELSE [world EXCEPT !.sql = "failed"]
    /\ UNCHANGED <<plan, runs, pc, state, result, store, driver, count>>

\* The runner is killed, or its machine loses power: what was renamed but not
\* synced may be undone, which leaves checkpoint.pending.
Die(lost) ==
    /\ pc \notin {"off", "end"}
    /\ pc' = "off" /\ state' = Fresh /\ result' = NoResult
    /\ driver' = NewDriver /\ world' \in Orphaned
    /\ store' = IF lost
                THEN [store EXCEPT !.file = store.durable,
                                   !.left = @ \/ store.file # store.durable]
                ELSE store
    /\ UNCHANGED <<plan, runs, count>>

Next ==
    \/ Start \/ Perform \/ Complete \/ Passed \/ AssessUnknown \/ Finish
    \/ StepVerify \/ StepBackup \/ StepReplace \/ ReplaceReturns
    \/ StepApply \/ StepObserve \/ StepRollback \/ Cleanup
    \/ Sql
    \/ \E lost \in BOOLEAN : Die(lost)

Spec == Init /\ [][Next]_vars

---------------------------------------------------------------------------
(* Properties.                                                             *)

\* Every variable keeps the shape it has in the code.
TypeOK ==
    /\ plan \in Plans /\ runs \in 0..MaxRuns
    /\ pc \in {"off", "perform", "step", "sql", "completed", "assess",
               "finish", "rollback", "cleanup", "end"}
    /\ pc # "off" /\ pc # "end" => validateCheckpoint(state)
    /\ \A c \in {store.file, store.durable} :
          c # None => validateCheckpoint(c)
    /\ world.live \in {"original", "restored", "none"}
    /\ world.sql \in {"off", "running", "bound", "dropped", "finished",
                      "failed"}

\* "A started mutation must be reconciled on resume": when the replacement
\* script, helm upgrade or helm rollback starts, a checkpoint that says so
\* already survives a power loss.
IntentIsDurable ==
    [][/\ count'.replace # count.replace =>
             store.durable.pending = "replace_database"
       /\ count'.apply # count.apply => store.durable.pending = "apply"
       /\ count'.rollback # count.rollback => store.durable.rollback]_vars

\* "No completed stage or potentially committed mutation replays": over all
\* runs in one operation directory, whatever crashed in between, the database
\* is replaced, the release applied and rolled back at most once.
MutatedOnce == count.replace <= 1 /\ count.apply <= 1 /\ count.rollback <= 1

\* "Ordinary cleanup must not discard the only backup after an uncertain
\* commit": the live database or its restored copy exists at all times.
DatabaseKept == world.live # "none" \/ world.temp

\* Whatever fails, is killed or loses power, with the script stopped or at work,
\* only an assessment that calls the replacement known while its script is at
\* work can lose both databases: assessUnknown trusts the identities it reads,
\* and nothing holds the script off until the cleanup.
CopyKept == ~count.early => DatabaseKept

Ended(results) ==
    pc = "end" /\ ~result.resumed /\ result.result \in results

\* "Partial/unknown completion ... never reported as rollback": a run that
\* does not report an unknown outcome knows which database is live, unless it
\* judged the script while that was at work.
ReplacementReported ==
    Ended({"passed", "failed", "cleanup_failed"}) /\ ~count.early
    => world.live = IF state.replaced THEN "restored" ELSE "original"

\* RunStage "never reports a failed or cancelled Apply as a known
\* non-mutation": a run that reports failure without having applied has left
\* the Helm release alone.
FailureIsNoMutation ==
    Ended({"failed"}) /\ ~state.applied => world.helm = Original

\* Cleanup restores the replica counts that the replacement took away: a run
\* whose cleanup succeeded leaves the workloads running.
WorkloadsReturn ==
    Ended({"passed", "failed"}) /\ ~result.cleanupFailed => world.up

\* A passed upgrade is deployed, recorded to its last stage, and leaves no
\* temporary database.
PassedIsComplete ==
    Ended({"passed"})
    => /\ store.durable.completed = Stages
       /\ plan # "preview" => world.helm = Target
       /\ ~world.temp

\* The result of a run is true: what it reports is what it leaves.
ResultIsTrue ==
    /\ TypeOK /\ ReplacementReported /\ FailureIsNoMutation /\ WorkloadsReturn
    /\ PassedIsComplete
=============================================================================
