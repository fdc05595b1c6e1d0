----------------------------- MODULE RepairState -----------------------------
(***************************************************************************)
(* What a run keeps between its reproduction and its validation: the graph *)
(* state with its checkpoint, and the run's artifact directory.  The agent *)
(* keeps its state in an inner thread, the fixed loop in the outer one;    *)
(* both are checkpointed in the background, so that a restart may find a   *)
(* state several steps old, while the artifacts are always the latest.     *)
(***************************************************************************)
EXTENDS SandboxJobs

CONSTANTS TestPatches, FixPatches,  \* contents the model may submit
          ProbePatch,               \* the fixed conversion test of the probe
          MaxRounds,                \* rounds of a phase: 2
          MaxModelCalls,            \* the agent's model calls, a limit per thread
          MaxLag                    \* bound: steps the checkpoint is behind

ASSUME RepairAssumption == /\ TestPatches \cup FixPatches \cup {ProbePatch} = Patches
                           /\ ProbePatch \notin TestPatches
                           /\ MaxRounds \in Nat \ {0}
                           /\ MaxModelCalls \in Nat
                           /\ MaxLag \in Nat
                           /\ Jobs = ({"probe", "reproduction", "repair"} \X (1..MaxRounds))
                                         \cup ({"final"} \X (1..3))

VARIABLES st,        \* the state of the thread
          saved,     \* its latest checkpoint
          lag,       \* steps since that one
          disk,      \* artifacts: test.patch, fix.patch, result.json, repair-result.json
          outcome,   \* how the run ended, as far as these phases go
          restarted  \* the run was resumed from a checkpoint

Places == {"probe", "turn", "sandbox", "plan", "test_edit", "classify", "fix_edit",
           "classify_target", "finish_reproduction", "finish_repair_success",
           "finish_repair_failure", "finish_agent_blocked", "validate", "done"}

BlockedCodes == {"cannot_reproduce", "needs_human", "budget_exhausted"}

Endings == {"validated", "rejected", "cannot_reproduce", "needs_human", "failed",
            "security_rejected", "budget_exhausted", "error"}

Dispositions == {"reproduced", "not_reproduced", "baseline_regression", "invalid_test",
                 "target_passed", "target_failed", "invalid_result",
                 "needs_human", "security_rejected"}

\* The agent's state and the graph's have these fields in common; the file
\* names of the artifacts never change, so a reference is only set or not.
State == [pc : Places, phase : {"reproducing", "repairing"},
          round : 0..MaxRounds, fixRound : 0..MaxRounds,
          test : BOOLEAN, fix : BOOLEAN,              \* the patch references
          result : BOOLEAN, repair : BOOLEAN,         \* the result references
          confirmed : BOOLEAN, fixed : BOOLEAN,       \* reproduction_, repair_confirmed
          blocked : BlockedCodes \cup {None},
          calls : 0..MaxModelCalls, texts : 0..2,     \* model_calls, premature_final_count
          spent : BOOLEAN,                            \* a budget of the run is used up
          step : 0..3, good : BOOLEAN]                \* validate_final's progress

Evidence == [request : Requests \cup {None}, result : Results \cup {None},
             report : Dispositions \cup {None}]

ASSUME NothingAssumption == /\ None \notin BlockedCodes
                            /\ None \notin Endings
                            /\ None \notin Dispositions
                            /\ None \notin Evidence

RepairTypeOK == /\ SandboxTypeOK
                /\ st \in State
                /\ saved \in State
                /\ lag \in 0..MaxLag
                /\ disk \in [test : Patches \cup {None}, fix : Patches \cup {None},
                             result : Evidence \cup {None}, repair : Evidence \cup {None}]
                /\ outcome \in Endings \cup {None}
                /\ restarted \in BOOLEAN

Fresh == [pc |-> "probe", phase |-> "reproducing", round |-> 0, fixRound |-> 0,
          test |-> FALSE, fix |-> FALSE, result |-> FALSE, repair |-> FALSE,
          confirmed |-> FALSE, fixed |-> FALSE, blocked |-> None,
          calls |-> 0, texts |-> 0, spent |-> FALSE, step |-> 0, good |-> FALSE]

At(place) == outcome = None /\ st.pc = place /\ call = None

\* A step of the graph; its checkpoint is written now, or not before a later one's.
Step(new) == /\ st' = new
             /\ \/ saved' = new /\ lag' = 0
                \/ /\ faults < MaxFaults /\ lag < MaxLag
                   /\ saved' = saved /\ lag' = lag + 1
             /\ UNCHANGED outcome

\* Progress inside a node: no checkpoint.
Within(new) == st' = new /\ UNCHANGED <<saved, lag, outcome>>

\* The run is over for these phases.
End(how) == /\ outcome' = how
            /\ st' = [st EXCEPT !.pc = "done"]
            /\ saved' = st' /\ lag' = 0

\* classify_reproduction_result, by what the sandbox saw of the target test.
ClassifyReproduction(r) ==
    CASE r = "failed_as_planned" -> "reproduced"
      [] r = "passed"            -> "not_reproduced"
      [] r = "regression"        -> "baseline_regression"
      [] r = "rejected"          -> "security_rejected"
      [] OTHER                   -> "invalid_test"

\* classify_target_validation: the target and everything run with it must pass.
ClassifyTarget(r) ==
    CASE r = "passed"    -> "target_passed"
      [] r = "rejected"  -> "security_rejected"
      [] r = "untrusted" -> "invalid_result"
      [] OTHER           -> "target_failed"

Judged(q, r, report) == [request |-> q, result |-> r, report |-> report]

\* A round that ended before the sandbox leaves a report without an execution.
Synthetic(report) == [request |-> None, result |-> None, report |-> report]

\* ArtifactStore: each artifact of a run has one name, and a write replaces it.
WriteTest(p)   == disk' = [disk EXCEPT !.test = p]
WriteFix(p)    == disk' = [disk EXCEPT !.fix = p]
WriteResult(e) == disk' = [disk EXCEPT !.result = e]
WriteRepair(e) == disk' = [disk EXCEPT !.repair = e]

\* A sandbox call's time counts against the run's budget.
TimeSpent(s) == {[s EXCEPT !.spent = b] : b \in {s.spent, TRUE}}

-----------------------------------------------------------------------------
\* The process dies and the run is resumed from its checkpoint.
ProcessDies == /\ outcome = None
               /\ CallerDies
               /\ restarted' = TRUE
               /\ st' = saved /\ lag' = 0
               /\ UNCHANGED <<saved, disk, outcome>>

-----------------------------------------------------------------------------
\* Nodes both loops share.

ReproductionMade == disk.result.report = "reproduced"

\* finish_reproduction, and where the graph goes with a reproduced bug.
FinishReproduction(place) ==
    /\ At("finish_reproduction")
    /\ IF ReproductionMade THEN Step([st EXCEPT !.phase = "repairing", !.pc = place])
       ELSE IF disk.result.report = "security_rejected" THEN End("security_rejected")
       ELSE End("cannot_reproduce")
    /\ UNCHANGED <<sandboxVars, disk, restarted>>

\* finish_repair_success.
FinishRepairSuccess == /\ At("finish_repair_success")
                       /\ IF st.repair THEN Step([st EXCEPT !.pc = "validate"]) ELSE End("error")
                       /\ UNCHANGED <<sandboxVars, disk, restarted>>

\* finish_repair_failure; without a result it raises.
FinishRepairFailure ==
    /\ At("finish_repair_failure")
    /\ End(IF ~st.repair THEN "error"
           ELSE IF disk.repair.report \in {"needs_human", "security_rejected"}
                THEN disk.repair.report ELSE "failed")
    /\ UNCHANGED <<sandboxVars, disk, restarted>>

\* validate_final: the baseline, the target and the full suite, all executed anew.
FinalRequest(k) == [job |-> <<"final", k>>, test |-> disk.test,
                    fix |-> IF k = 1 THEN None ELSE disk.fix]

Good(k, r) == IF k = 1 THEN ClassifyReproduction(r) = "reproduced"
                       ELSE ClassifyTarget(r) = "target_passed"

SubmitFinal == /\ At("validate") /\ ~st.spent
               /\ Submit(FinalRequest(st.step + 1), MaxRetries, TRUE)
               /\ UNCHANGED <<st, saved, lag, disk, outcome, restarted>>

\* Its three calls are counted before the first one.
ValidationBudget == /\ At("validate") /\ (st.spent \/ st.step = 0)
                    /\ End("budget_exhausted")
                    /\ UNCHANGED <<sandboxVars, disk, restarted>>

LearnFinal ==
    /\ outcome = None /\ st.pc = "validate" /\ Conclude
    /\ IF answer \notin Results THEN End("error")
       ELSE LET k    == st.step + 1
                good == Good(k, answer) /\ (k = 1 \/ st.good)
            IN  \E s \in TimeSpent([st EXCEPT !.step = k, !.good = good]) :
                   IF k < 3 THEN Within(s)
                   ELSE End(IF s.spent THEN "budget_exhausted"
                            ELSE IF good THEN "validated" ELSE "rejected")
    /\ UNCHANGED <<disk, restarted>>

\* finish_budget_exhausted is End("budget_exhausted").
SharedStep == \/ FinishRepairSuccess
              \/ FinishRepairFailure
              \/ SubmitFinal
              \/ ValidationBudget
              \/ LearnFinal
              \/ ProcessDies
=============================================================================
