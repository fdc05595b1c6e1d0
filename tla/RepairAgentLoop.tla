--------------------------- MODULE RepairAgentLoop ---------------------------
(***************************************************************************)
(* The repair agent (agent/repair_agent): a probe without a model, then    *)
(* turns in which the model answers in text or calls tools.  The           *)
(* middleware decides which calls are carried out, the tools check again;  *)
(* what the model says is any value.  A turn and the tool it calls are one *)
(* step, except run_sandbox, which waits for the sandbox.                  *)
(***************************************************************************)
EXTENDS RepairState

READ_ONLY_TOOLS == {"read_source_file", "search_source", "write_todos"}

ToolNames == READ_ONLY_TOOLS \cup {"submit_test_edits", "submit_fix_edits", "run_sandbox",
                "complete_reproduction", "complete_repair", "report_blocked"}

\* _phase_authorized_tool_names: a call outside it ends the run.
_phase_authorized_tool_names ==
    READ_ONLY_TOOLS \cup {"report_blocked", "run_sandbox"}
        \cup (IF st.phase = "reproducing" THEN {"submit_test_edits", "complete_reproduction"}
                                          ELSE {"submit_fix_edits", "complete_repair"})

\* A middleware that lets the model go back to its test.
AllowedWithTestEdits == {"report_blocked", "run_sandbox", "complete_repair",
                         "submit_test_edits", "submit_fix_edits"}

\* _allowed_tool_names: a call outside it is turned down with an explanation.
_allowed_tool_names ==
    LET confirmed == IF st.phase = "reproducing" THEN st.confirmed ELSE st.fixed
        untried   == IF st.phase = "reproducing" THEN st.test /\ ~st.result
                                                 ELSE st.fix /\ ~st.repair
    IN  {"report_blocked"}
          \cup (IF confirmed
                THEN {IF st.phase = "reproducing" THEN "complete_reproduction"
                                                  ELSE "complete_repair"}
                ELSE IF untried THEN {"run_sandbox"}
                ELSE READ_ONLY_TOOLS
                     \cup {IF st.phase = "reproducing" THEN "submit_test_edits"
                                                       ELSE "submit_fix_edits"})

-----------------------------------------------------------------------------
\* The probe: a fixed test, run once, before the thread has a checkpoint.
Probe == /\ At("probe")
         /\ WriteTest(ProbePatch)
         /\ Submit([job |-> <<"probe", 1>>, test |-> ProbePatch, fix |-> None], 0, FALSE)
         /\ UNCHANGED <<st, saved, lag, outcome, restarted>>

\* A failing probe is the reproduction; a passing one leaves it to the model.
LearnProbe ==
    /\ outcome = None /\ st.pc = "probe" /\ Conclude
    /\ IF answer \notin Results THEN End("error") /\ UNCHANGED disk
       ELSE LET report == ClassifyReproduction(answer)
                found  == report = "reproduced"
            IN  /\ WriteResult(Judged(call.request, answer, report))
                /\ IF found \/ report = "not_reproduced"
                   THEN \E s \in TimeSpent(st) :
                          Step([s EXCEPT !.pc = "turn",
                                         !.phase = IF found THEN "repairing" ELSE "reproducing",
                                         !.round = IF found THEN 1 ELSE 0,
                                         !.test = found, !.result = found, !.confirmed = found])
                   ELSE End("error")
    /\ UNCHANGED restarted

-----------------------------------------------------------------------------
\* Turns.  Every model call that answers counts; the limit is the thread's.
Turn == At("turn") /\ st.calls < MaxModelCalls

Counted == [st EXCEPT !.calls = @ + 1]

\* ModelCallLimitExceededError.
ModelCallLimit == /\ At("turn") /\ st.calls = MaxModelCalls
                  /\ End("error")
                  /\ UNCHANGED <<sandboxVars, disk, restarted>>

\* ModelResilienceMiddleware gave up, or the context is beyond its hard limit.
ModelFails == /\ Turn
              /\ End("error")
              /\ UNCHANGED <<sandboxVars, disk, restarted>>

\* CompletionGuardMiddleware: plain text is not an end; the third one is an error.
AnswerInText == /\ Turn
                /\ IF st.texts = 2 THEN End("error") ELSE Step([Counted EXCEPT !.texts = @ + 1])
                /\ UNCHANGED <<sandboxVars, disk, restarted>>

\* Tool calls that leave no trace but their message: reads, calls turned down by
\* ParallelToolPolicyMiddleware, arguments that fail a local check.
FruitlessTurn ==
    /\ Turn
    /\ \E name \in ToolNames :
          IF name \in _phase_authorized_tool_names THEN Step(Counted) ELSE End("error")
    /\ UNCHANGED <<sandboxVars, disk, restarted>>

\* A tool raises what safe_tool_error does not return to the model: a refused
\* capability, an unreadable source, an external dependency claimed by the model.
ToolRaises == /\ Turn
              /\ End("error")
              /\ UNCHANGED <<sandboxVars, disk, restarted>>

Calls(name) == Turn /\ name \in _allowed_tool_names

submit_test_edits ==
    /\ Calls("submit_test_edits")
    /\ IF st.round = MaxRounds THEN End("error") /\ UNCHANGED disk
       ELSE \E p \in TestPatches :
              /\ WriteTest(p)
              /\ Step([Counted EXCEPT !.test = TRUE, !.round = @ + 1,
                                      !.confirmed = FALSE, !.result = FALSE])
    /\ UNCHANGED <<sandboxVars, restarted>>

submit_fix_edits ==
    /\ Calls("submit_fix_edits")
    /\ IF st.fixRound = MaxRounds THEN End("error") /\ UNCHANGED disk
       ELSE \E p \in FixPatches :
              /\ WriteFix(p)
              /\ Step([Counted EXCEPT !.fix = TRUE, !.fixRound = @ + 1,
                                      !.fixed = FALSE, !.repair = FALSE])
    /\ UNCHANGED <<sandboxVars, restarted>>

run_sandbox == /\ Calls("run_sandbox")
               /\ IF st.spent THEN End("error") ELSE Step([Counted EXCEPT !.pc = "sandbox"])
               /\ UNCHANGED <<sandboxVars, disk, restarted>>

\* A job id of the phase alone.
JobOfPhase == IF st.phase = "reproducing"
              THEN [job |-> <<"reproduction", 1>>, test |-> disk.test, fix |-> None]
              ELSE [job |-> <<"repair", 1>>, test |-> disk.test, fix |-> disk.fix]

\* _job: the id is the phase and the round, the content what is on disk.
_job == IF st.phase = "reproducing"
        THEN [job |-> <<"reproduction", st.round>>, test |-> disk.test, fix |-> None]
        ELSE [job |-> <<"repair", st.fixRound>>, test |-> disk.test, fix |-> disk.fix]

SubmitJob == /\ At("sandbox")
             /\ Submit(_job, MaxRetries, FALSE)
             /\ UNCHANGED <<st, saved, lag, disk, outcome, restarted>>

\* _run_reproduction and _run_repair, once the sandbox answered.
LearnResult ==
    /\ outcome = None /\ st.pc = "sandbox" /\ Conclude
    /\ IF answer \notin Results THEN End("error") /\ UNCHANGED disk
       ELSE IF st.phase = "reproducing"
       THEN LET report == ClassifyReproduction(answer) IN
            /\ WriteResult(Judged(call.request, answer, report))
            /\ \E s \in TimeSpent(st) :
                  Step([s EXCEPT !.pc = "turn", !.result = TRUE,
                                 !.confirmed = report = "reproduced"])
       ELSE LET report == ClassifyTarget(answer) IN
            /\ WriteRepair(Judged(call.request, answer, report))
            /\ \E s \in TimeSpent(st) :
                  Step([s EXCEPT !.pc = "turn", !.repair = TRUE,
                                 !.fixed = report = "target_passed"])
    /\ UNCHANGED restarted

complete_reproduction == /\ Calls("complete_reproduction")
                         /\ Step([Counted EXCEPT !.phase = "repairing"])
                         /\ UNCHANGED <<sandboxVars, disk, restarted>>

complete_repair == /\ Calls("complete_repair")
                   /\ Step([Counted EXCEPT !.pc = "finish_reproduction"])
                   /\ UNCHANGED <<sandboxVars, disk, restarted>>

\* The reasons report_blocked accepts.
Justified(code) ==
    CASE code = "cannot_reproduce" -> st.phase = "reproducing" /\ st.round = MaxRounds
      [] code = "budget_exhausted" -> st.spent
      [] code = "needs_human"      -> IF st.phase = "repairing" THEN st.repair ELSE st.round > 0

\* A router that believes the model.
RouteAsReported(code) == IF st.phase = "repairing" /\ st.repair THEN "finish_reproduction"
                                                                ELSE "finish_agent_blocked"

\* route_after_repair_agent, for a blocked agent.
route_after_repair_agent(code) ==
    IF \/ st.phase = "repairing" /\ st.repair
       \/ code = "cannot_reproduce" /\ st.result
    THEN "finish_reproduction" ELSE "finish_agent_blocked"

report_blocked ==
    /\ Turn
    /\ \E code \in BlockedCodes :
          /\ Justified(code)
          /\ disk' = IF st.phase = "repairing" /\ code = "needs_human"
                     THEN [disk EXCEPT !.repair.report = "needs_human"] ELSE disk
          /\ Step([Counted EXCEPT !.blocked = code, !.pc = route_after_repair_agent(code)])
    /\ UNCHANGED <<sandboxVars, restarted>>

\* route_after_agent_reproduction_finish.
route_after_agent_reproduction_finish ==
    IF st.blocked # None THEN "finish_repair_failure" ELSE "finish_repair_success"

FinishAgentBlocked ==
    /\ At("finish_agent_blocked")
    /\ End(IF st.blocked = "cannot_reproduce" THEN "cannot_reproduce" ELSE "needs_human")
    /\ UNCHANGED <<sandboxVars, disk, restarted>>

AgentStep == \/ Probe \/ LearnProbe
             \/ ModelCallLimit \/ ModelFails \/ AnswerInText \/ FruitlessTurn \/ ToolRaises
             \/ submit_test_edits \/ submit_fix_edits
             \/ run_sandbox \/ SubmitJob \/ LearnResult
             \/ complete_reproduction \/ complete_repair \/ report_blocked
             \/ FinishReproduction(route_after_agent_reproduction_finish)
             \/ FinishAgentBlocked
=============================================================================
