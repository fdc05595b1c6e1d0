--------------------------- MODULE FixedRepairLoop ---------------------------
(***************************************************************************)
(* The fixed loop: the graph's own nodes plan, generate a test, run it and *)
(* classify the result, then the same for the fix, at most two rounds      *)
(* each.  A model's answer (reproduction.py, repair.py) is any patch, a    *)
(* patch one of the local checks refuses, or no usable answer at all.      *)
(***************************************************************************)
EXTENDS RepairState

\* plan_reproduction.
PlanReproduction ==
    /\ At("plan")
    /\ \/ Step([st EXCEPT !.pc = "test_edit"])
       \/ End("error")
    /\ UNCHANGED <<sandboxVars, disk, restarted>>

-----------------------------------------------------------------------------
\* A bound that lets one round too many begin.
ReviseOnceMore(report, round) == report # "security_rejected" /\ round <= MaxRounds

\* Another round, unless the report forbids it or the rounds are used up.
Revise(report, round) == report # "security_rejected" /\ round < MaxRounds

\* route_after_test_edit of a refused edit, route_after_reproduction.
AfterReproduction(report, round) ==
    IF report # "reproduced" /\ Revise(report, round) THEN "test_edit"
                                                      ELSE "finish_reproduction"

\* What the model may answer, or the trusted fallback in its place.
generate_reproduction_test == TestPatches

\* generate_test_edit: the edits became a patch;
TestSubmitted(round) ==
    \E p \in generate_reproduction_test :
       /\ WriteTest(p)
       /\ Step([st EXCEPT !.pc = "sandbox", !.test = TRUE, !.round = round])

\* a local check refused them, which uses up the round as well;
TestRefused(round) ==
    \E report \in {"invalid_test", "security_rejected"} :
       /\ WriteResult(Synthetic(report))
       /\ Step([st EXCEPT !.pc = AfterReproduction(report, round), !.test = FALSE,
                          !.result = TRUE, !.round = round])

\* or there are none: no usable answer and no fallback, an unreadable source.
GenerateTestEdit == /\ At("test_edit")
                    /\ \/ TestSubmitted(st.round + 1)
                       \/ TestRefused(st.round + 1)
                       \/ End("error") /\ UNCHANGED disk
                    /\ UNCHANGED <<sandboxVars, restarted>>

\* run_reproduction_in_sandbox.
SubmitReproduction ==
    /\ At("sandbox") /\ st.phase = "reproducing"
    /\ Submit([job |-> <<"reproduction", st.round>>, test |-> disk.test, fix |-> None],
              MaxRetries, TRUE)
    /\ UNCHANGED <<st, saved, lag, disk, outcome, restarted>>

LearnReproduction ==
    /\ outcome = None /\ st.pc = "sandbox" /\ st.phase = "reproducing" /\ Conclude
    /\ IF answer \notin Results THEN End("error") /\ UNCHANGED disk
       ELSE /\ WriteResult(Judged(call.request, answer, None))
            /\ Step([st EXCEPT !.pc = "classify", !.result = TRUE])
    /\ UNCHANGED restarted

\* classify_reproduction, then route_after_reproduction.
ClassifyReproductionResult ==
    /\ At("classify")
    /\ LET report == ClassifyReproduction(disk.result.result) IN
       /\ disk' = [disk EXCEPT !.result.report = report]
       /\ Step([st EXCEPT !.pc = AfterReproduction(report, st.round)])
    /\ UNCHANGED <<sandboxVars, restarted>>

-----------------------------------------------------------------------------
\* route_after_fix_edit of a refused edit, route_after_target.
AfterTarget(report, round) ==
    IF report = "target_passed" THEN "finish_repair_success"
    ELSE IF report # "needs_human" /\ Revise(report, round) THEN "fix_edit"
    ELSE "finish_repair_failure"

\* _budget_allows: calls and sandbox time are counters the model does not keep, so
\* they may be used up wherever the code looks at them.
BudgetSpent == End("budget_exhausted") /\ UNCHANGED disk

\* What the model may answer.
generate_fix == FixPatches

\* generate_fix_edit, by the same three ways, and the budget.
FixSubmitted(round) ==
    \E p \in generate_fix :
       /\ WriteFix(p)
       /\ Step([st EXCEPT !.pc = "sandbox", !.fix = TRUE, !.repair = FALSE,
                          !.fixRound = round])

\* fix.patch is written before the two patches are composed, so that a refused fix
\* may be on disk.
FixRefused(round) ==
    \E report \in {"invalid_result", "security_rejected", "needs_human"},
      p \in generate_fix \cup {disk.fix} :
       /\ disk' = [disk EXCEPT !.repair = Synthetic(report), !.fix = p]
       /\ Step([st EXCEPT !.pc = AfterTarget(report, round), !.fix = FALSE,
                          !.repair = TRUE, !.fixRound = round])

GenerateFixEdit == /\ At("fix_edit")
                   /\ \/ FixSubmitted(st.fixRound + 1)
                      \/ FixRefused(st.fixRound + 1)
                      \/ BudgetSpent
                      \/ End("error") /\ UNCHANGED disk
                   /\ UNCHANGED <<sandboxVars, restarted>>

\* run_target_validation.
SubmitTarget ==
    /\ At("sandbox") /\ st.phase = "repairing"
    /\ Submit([job |-> <<"repair", st.fixRound>>, test |-> disk.test, fix |-> disk.fix],
              MaxRetries, TRUE)
    /\ UNCHANGED <<st, saved, lag, disk, outcome, restarted>>

TargetBudget == /\ At("sandbox") /\ st.phase = "repairing"
                /\ BudgetSpent
                /\ UNCHANGED <<sandboxVars, restarted>>

LearnTarget ==
    /\ outcome = None /\ st.pc = "sandbox" /\ st.phase = "repairing" /\ Conclude
    /\ IF answer \notin Results THEN End("error") /\ UNCHANGED disk
       ELSE /\ WriteRepair(Judged(call.request, answer, None))
            /\ \/ Step([st EXCEPT !.pc = "classify_target", !.repair = TRUE])
               \/ End("budget_exhausted")
    /\ UNCHANGED restarted

\* classify_target, then route_after_target.
ClassifyTargetResult ==
    /\ At("classify_target")
    /\ LET report == ClassifyTarget(disk.repair.result) IN
       /\ disk' = [disk EXCEPT !.repair.report = report]
       /\ Step([st EXCEPT !.pc = AfterTarget(report, st.fixRound)])
    /\ UNCHANGED <<sandboxVars, restarted>>

FixedStep == \/ PlanReproduction \/ GenerateTestEdit
             \/ SubmitReproduction \/ LearnReproduction \/ ClassifyReproductionResult
             \/ FinishReproduction("fix_edit")
             \/ GenerateFixEdit
             \/ SubmitTarget \/ TargetBudget \/ LearnTarget \/ ClassifyTargetResult
=============================================================================
