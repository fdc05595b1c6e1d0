--------------------------- MODULE FeedbackStates ---------------------------
(***************************************************************************)
(* The status vocabulary shared by the feedback table and the agent_runs   *)
(* table (agent/domain/enums.py) and the transitions the domain layer      *)
(* allows (agent/domain/transitions.py), and how often a row may be        *)
(* claimed.  No variables: every component that touches either table is    *)
(* built on these sets.                                                    *)
(***************************************************************************)
EXTENDS Naturals

CONSTANTS MaxAttempts,   \* AGENT_MAX_CLAIM_ATTEMPTS
          MaxClaims      \* bound on the claim tokens ever handed out

ASSUME ClaimsAssumption == MaxAttempts \in Nat \ {0} /\ MaxClaims \in Nat

FeedbackStatus ==
    {"pending", "claimed", "gating", "issue_required", "rejected_irrelevant",
     "quarantined_security", "out_of_scope", "needs_human", "duplicate",
     "reproducing", "repairing", "validating", "cannot_reproduce",
     "security_rejected", "failed", "validated", "publishing",
     "publishing_issue", "stale_base", "pr_opened", "issue_opened"}

\* The statuses between the gate and a verdict: some run is working on these.
InFlight == {"gating", "reproducing", "repairing", "validating", "validated",
             "publishing", "publishing_issue", "stale_base"}

\* ISSUE_REQUIRED has no producer while an issue publisher is configured, and
\* nothing leaves it; it counts as a verdict like the others.
Verdicts == FeedbackStatus \ (InFlight \cup {"pending", "claimed"})

\* A finished duplicate that still counts as open.
OpenWithDuplicates == {"pending", "claimed", "gating", "duplicate", "reproducing",
                       "repairing", "validating", "validated", "publishing", "pr_opened"}

\* Statuses that make a second report with the same fingerprint a duplicate.
OpenStatus == {"pending", "claimed", "gating", "issue_required",
               "publishing_issue", "issue_opened", "reproducing", "repairing",
               "validating", "validated", "publishing", "pr_opened"}

\* A finalizer that forgets validation.
FinalizableBeforeValidation == {"claimed", "gating", "reproducing", "repairing",
                                "publishing", "publishing_issue"}

\* Statuses the failure finalizer is willing to move to a failure verdict.
Finalizable == {"claimed", "gating", "reproducing", "repairing", "validating",
                "publishing", "publishing_issue"}

RunStatus == {"created", "gating", "preparing_source", "reproducing",
              "repairing", "validating", "publishing", "publishing_issue",
              "completed", "failed", "cancelled", "budget_exhausted",
              "security_rejected", "stale_base"}

TerminalRun == {"completed", "failed", "cancelled", "budget_exhausted",
                "security_rejected", "stale_base"}

\* The filter of find_resumable.
ActiveRun == {"created", "gating", "publishing_issue", "preparing_source",
              "reproducing", "repairing", "validating", "publishing"}

\* ensure_feedback_transition: the moves of the feedback state machine.
CanMove(from, to) ==
    \/ from = "pending" /\ to = "claimed"
    \/ from = "claimed" /\ to \in {"gating", "needs_human", "failed"}
    \/ from = "gating" /\ to \in {"rejected_irrelevant", "quarantined_security",
                                  "issue_required", "publishing_issue",
                                  "out_of_scope", "needs_human", "duplicate",
                                  "reproducing", "security_rejected", "failed"}
    \/ from = "reproducing" /\ to \in {"repairing", "cannot_reproduce",
                                       "needs_human", "security_rejected", "failed"}
    \/ from = "repairing" /\ to \in {"validating", "needs_human",
                                     "security_rejected", "failed"}
    \/ from = "validating" /\ to \in {"validated", "needs_human",
                                      "security_rejected", "failed"}
    \/ from = "validated" /\ to \in {"publishing", "stale_base"}
    \/ from = "publishing" /\ to \in {"pr_opened", "stale_base", "failed"}
    \/ from = "publishing_issue" /\ to \in {"issue_opened", "failed"}
    \/ from = "stale_base" /\ to \in {"pending", "needs_human"}
=============================================================================
