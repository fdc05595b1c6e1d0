----------------------------- MODULE RepairGraph -----------------------------
(***************************************************************************)
(* The production graph (agent/graph.py, agentic repair, both publishers   *)
(* configured) as tables: what each node may conclude, which feedback      *)
(* status moves and which run status move its repository writes make, and  *)
(* which node follows.  A node's conclusion is what the checkpoint carries *)
(* to the following nodes: the gate route (named by the feedback status it *)
(* leads to), the repair agent's outcome, the validation verdict, or the   *)
(* publisher's disposition.                                                *)
(***************************************************************************)
EXTENDS FeedbackStates

Nodes == {"start_gate", "classify_gate", "route_feedback", "publish_issue",
          "finish_issue_publication", "prepare_source", "repair_agent",
          "finish_reproduction", "finish_agent_blocked", "finish_repair_success",
          "finish_repair_failure", "validate_final", "finish_validation",
          "finish_budget_exhausted", "publish_pull_request", "finish_publication"}

\* _ROUTE_TO_FEEDBACK_STATUS with ISSUE_REQUIRED published as an issue.
Routes == {"reproducing", "rejected_irrelevant", "quarantined_security",
           "publishing_issue", "out_of_scope", "needs_human", "duplicate"}

\* How the repair agent's work may end: repaired; reproduced, but given to a
\* human, left failing, refused by the sandbox, or blocked before any repair was
\* tried; not reproduced, or refused before that; blocked without a result.
RepairOutcomes == {"fixed", "unrepaired", "unfixed", "unsafe", "untried",
                   "not_reproduced", "refused", "cannot_reproduce", "needs_human"}

\* The reproduction report says REPRODUCED.
Reproduced == {"fixed", "unrepaired", "unfixed", "unsafe", "untried"}
Validations    == {"passed", "rejected", "budget"}
Dispositions   == {"opened", "stale"}

Conclusions == Routes \cup RepairOutcomes \cup Validations \cup Dispositions \cup {"none"}

\* Nodes that write the feedback row before the run row.
FinishNodes == {"start_gate", "route_feedback", "finish_issue_publication",
                "finish_reproduction", "finish_agent_blocked",
                "finish_repair_success", "finish_repair_failure",
                "finish_validation", "finish_budget_exhausted", "finish_publication"}

\* Nodes that read an artifact, and so fail with a security code if it is gone.
ReadsArtifacts == Nodes \ {"start_gate", "prepare_source", "finish_agent_blocked",
                           "finish_budget_exhausted"}

\* The feedback moves <<from, to>> of each finishing node, given what it was handed.
StartGateMoves == {<<"claimed", "gating">>}

RouteFeedbackMoves(out) == {<<"gating", out>>}

FinishIssuePublicationMoves == {<<"publishing_issue", "issue_opened">>}

FinishReproductionMoves(out) ==
    {<<"reproducing", CASE out \in Reproduced -> "repairing"
                        [] out = "refused"    -> "security_rejected"
                        [] OTHER              -> "cannot_reproduce">>}

FinishAgentBlockedMoves(out) == {<<"reproducing", out>>}

FinishRepairSuccessMoves == {<<"repairing", "validating">>}

FinishRepairFailureMoves(out) ==
    {<<"repairing", CASE out = "unrepaired" -> "needs_human"
                      [] out = "unsafe"     -> "security_rejected"
                      [] OTHER              -> "failed">>}

FinishValidationMoves(out) ==
    IF out = "passed" THEN {<<"validating", "validated">>, <<"validated", "publishing">>}
                      ELSE {<<"validating", "failed">>}

FinishBudgetExhaustedMoves == {<<"repairing", "failed">>, <<"validating", "failed">>}

FinishPublicationMoves(out) ==
    IF out = "opened" THEN {<<"publishing", "pr_opened">>}
    ELSE {<<"publishing", "stale_base">>, <<"stale_base", "pending">>,
          <<"stale_base", "needs_human">>}

Moves(n, out) ==
    CASE n = "start_gate"               -> StartGateMoves
      [] n = "route_feedback"           -> RouteFeedbackMoves(out)
      [] n = "finish_issue_publication" -> FinishIssuePublicationMoves
      [] n = "finish_reproduction"      -> FinishReproductionMoves(out)
      [] n = "finish_agent_blocked"     -> FinishAgentBlockedMoves(out)
      [] n = "finish_repair_success"    -> FinishRepairSuccessMoves
      [] n = "finish_repair_failure"    -> FinishRepairFailureMoves(out)
      [] n = "finish_validation"        -> FinishValidationMoves(out)
      [] n = "finish_budget_exhausted"  -> FinishBudgetExhaustedMoves
      [] n = "finish_publication"       -> FinishPublicationMoves(out)
      [] OTHER                          -> {}

\* The statuses a replayed node takes as "already written before the checkpoint".
AlreadyDone(n, out) ==
    ({m[2] : m \in Moves(n, out)} \ {m[1] : m \in Moves(n, out)})
        \cup (IF n = "finish_validation" THEN {"publishing"} ELSE {})

\* The run moves <<from, to>> of the repository's run methods.
mark_gating == <<"created", "gating">>

complete_gate(out) ==
    <<"gating", CASE out = "reproducing"      -> "preparing_source"
                  [] out = "publishing_issue" -> "publishing_issue"
                  [] OTHER                    -> "completed">>

mark_reproducing == <<"preparing_source", "reproducing">>

complete_issue_publication == <<"publishing_issue", "completed">>

complete_reproduction(out) ==
    <<"reproducing", CASE out \in Reproduced -> "repairing"
                       [] out = "refused"    -> "security_rejected"
                       [] OTHER              -> "completed">>

mark_validating == <<"repairing", "validating">>

complete_repair_failure(out) ==
    <<"repairing", IF out = "unsafe" THEN "security_rejected" ELSE "completed">>

complete_validation(out) ==
    <<"validating", IF out = "passed" THEN "publishing" ELSE "completed">>

\* complete_publication, or complete_stale_base.
complete_publication(out) ==
    <<"publishing", IF out = "opened" THEN "completed" ELSE "stale_base">>

\* From any status.
exhaust_budget == <<"any", "budget_exhausted">>

RunMove(n, out) ==
    CASE n = "start_gate"               -> mark_gating
      [] n = "route_feedback"           -> complete_gate(out)
      [] n = "prepare_source"           -> mark_reproducing
      [] n = "finish_issue_publication" -> complete_issue_publication
      [] n \in {"finish_reproduction", "finish_agent_blocked"} -> complete_reproduction(out)
      [] n = "finish_repair_success"    -> mark_validating
      [] n = "finish_repair_failure"    -> complete_repair_failure(out)
      [] n = "finish_validation"        -> complete_validation(out)
      [] n = "finish_publication"       -> complete_publication(out)
      [] OTHER                          -> exhaust_budget

\* A verdict that nobody looks at before publication.
AfterUnreadVerdict(out) == "publish_pull_request"

\* Where the conditional edges lead.
AfterGate(out) == CASE out = "reproducing"      -> "prepare_source"
                    [] out = "publishing_issue" -> "publish_issue"
                    [] OTHER                    -> "end"

AfterRepairAgent(out) == IF out \in Reproduced \cup {"not_reproduced", "refused"}
                         THEN "finish_reproduction" ELSE "finish_agent_blocked"

AfterReproduction(out) == CASE out = "fixed"                  -> "finish_repair_success"
                            [] out \in Reproduced \ {"fixed"} -> "finish_repair_failure"
                            [] OTHER                          -> "end"

AfterValidateFinal(out) == IF out = "budget" THEN "finish_budget_exhausted"
                                             ELSE "finish_validation"

AfterValidation(out) == IF out = "passed" THEN "publish_pull_request" ELSE "end"

\* The edges of the compiled graph.
Successor(n, out) ==
    CASE n = "start_gate"            -> "classify_gate"
      [] n = "classify_gate"         -> "route_feedback"
      [] n = "route_feedback"        -> AfterGate(out)
      [] n = "publish_issue"         -> "finish_issue_publication"
      [] n = "prepare_source"        -> "repair_agent"
      [] n = "repair_agent"          -> AfterRepairAgent(out)
      [] n = "finish_reproduction"   -> AfterReproduction(out)
      [] n = "finish_repair_success" -> "validate_final"
      [] n = "validate_final"        -> AfterValidateFinal(out)
      [] n = "finish_validation"     -> AfterValidation(out)
      [] n = "publish_pull_request"  -> "finish_publication"
      [] OTHER                       -> "end"

\* finish_repair_failure without a repair result raises before it reads the row.
LacksResult(n, out) == n = "finish_repair_failure" /\ out = "untried"

\* The errors a node raises of itself: model, GitHub, source or sandbox trouble
\* that survived its own retries, or a state it cannot work with, by how the
\* controller tells them apart.
RaisedBy(n, out) ==
    CASE n \in {"classify_gate", "prepare_source", "validate_final"} -> {"human", "other"}
      [] n = "repair_agent"         -> {"budget", "unexpected", "human", "security", "other"}
      [] LacksResult(n, out)        -> {"unexpected"}
      [] n = "publish_pull_request" -> {"publication", "unexpected"}
      [] n = "publish_issue"        -> {"issue_publication"}
      [] OTHER                      -> {}

\* The nodes at which the checkpointed AgentState still says "reproducing".
ReproducingNodes == {"repair_agent", "finish_reproduction", "finish_agent_blocked"}

\* The nodes at which it says "repairing".
RepairingNodes == {"finish_repair_success", "finish_repair_failure"}
=============================================================================
