------------------------------ MODULE RepairRun ------------------------------
(***************************************************************************)
(* A run from its source snapshot to the verdict on its patch: either the  *)
(* repair agent or the fixed loop, over the sandbox service.  FeedbackRun  *)
(* takes all of this for the conclusion of two nodes.                      *)
(***************************************************************************)
EXTENDS RepairAgentLoop, FixedRepairLoop

CONSTANT Modes        \* \subseteq {"agent", "fixed"}: how the service is configured

ASSUME ModesAssumption == Modes \subseteq {"agent", "fixed"}

VARIABLES mode

vars == <<sandboxVars, st, saved, lag, disk, outcome, restarted, mode>>

Init == /\ SandboxInit
        /\ mode \in Modes
        /\ st = [Fresh EXCEPT !.pc = IF mode = "agent" THEN "probe" ELSE "plan"]
        /\ saved = st /\ lag = 0
        /\ disk = [test |-> None, fix |-> None, result |-> None, repair |-> None]
        /\ outcome = None
        /\ restarted = FALSE

ServiceStep == SandboxStep /\ UNCHANGED <<st, saved, lag, disk, outcome, restarted>>

Next == /\ \/ mode = "agent" /\ AgentStep
           \/ mode = "fixed" /\ FixedStep
           \/ SharedStep
           \/ ServiceStep
        /\ UNCHANGED mode

Spec == Init /\ [][Next]_vars

\* The run and the worker keep working; nothing forces a model, a fault or a death.
RunStep == /\ \/ mode = "agent" /\ AgentStep
              \/ mode = "fixed" /\ FixedStep
              \/ FinishRepairSuccess \/ FinishRepairFailure
              \/ SubmitFinal \/ ValidationBudget \/ LearnFinal
           /\ UNCHANGED mode

WorkerStep == /\ TakeRequest \/ Finish \/ Retry
              /\ UNCHANGED <<st, saved, lag, disk, outcome, restarted, mode>>

FairSpec == Spec /\ WF_vars(RunStep) /\ WF_vars(WorkerStep)

-----------------------------------------------------------------------------
(* Properties *)

\* Every record has its shape; rounds, model calls and premature answers stay
\* within their limits.
TypeOK == RepairTypeOK /\ mode \in Modes

Stored(e) == /\ e # None
             /\ e.request # None
             /\ verdicts[e.request.job] = Verdict(e.request, e.result)

\* The test on disk failed as planned in the sandbox, on the unrepaired code.
TestIsEvident == /\ Stored(disk.result)
                 /\ disk.result.request.test = disk.test /\ disk.result.request.fix = None
                 /\ ClassifyReproduction(disk.result.result) = "reproduced"

\* The same test passed with the fix on disk.
FixIsEvident == /\ Stored(disk.repair)
                /\ disk.repair.request.test = disk.test /\ disk.repair.request.fix = disk.fix
                /\ ClassifyTarget(disk.repair.result) = "target_passed"

FinalIsEvident == \A k \in 1..3 :
                     /\ verdicts[<<"final", k>>] # None
                     /\ verdicts[<<"final", k>>].request = FinalRequest(k)
                     /\ Good(k, verdicts[<<"final", k>>].result)

\* A run never takes a bug for reproduced, a fix for working or a patch for
\* validated on a verdict about other patches than those now in its artifacts,
\* whatever was lost, replayed or overwritten in between (graph.py validate_final,
\* tools.py _run_reproduction and _run_repair).
EvidenceMatchesPatch ==
    /\ outcome = None /\ (st.confirmed \/ st.phase = "repairing") => TestIsEvident
    /\ outcome = None /\ (st.fixed \/ st.pc \in {"finish_repair_success", "validate"})
          => st.blocked # None \/ FixIsEvident
    /\ outcome = "validated" => TestIsEvident /\ FixIsEvident /\ FinalIsEvident

\* A run that holds the evidence of a reproduction never closes the feedback as
\* not reproducible, although the agent may say so (route_after_repair_agent).
ReproducedIsNotDismissed ==
    outcome = "cannot_reproduce" /\ st.result => ~ReproductionMade

\* A job id is used for other patches only by a run that was resumed from an old
\* checkpoint; the worker then refuses it (uuid5 job ids, worker.py execute).
ConflictOnlyAfterRestart == answer = "conflict" => restarted

\* The regression test is not touched any more once the repair has begun.
TestFrozenWhileRepairing ==
    [][st.phase = "repairing" /\ st'.phase = "repairing" => disk'.test = disk.test]_vars

\* Every run ends: rounds, model calls and retries are bounded.
EveryRunEnds == <>(outcome # None)

\* The sandbox service and the run's use of it implement VerdictOnce.
HeldEvidence == {Verdict(e.request, e.result) :
                    e \in {x \in {disk.result, disk.repair} \ {None} : x.request # None}}

Once == INSTANCE VerdictOnce WITH verdict   <- verdicts,
                                  executing <- IF running = None THEN None
                                               ELSE running.request.job,
                                  evidence  <- HeldEvidence

VerdictIsGivenOnce == Once!Spec
=============================================================================
