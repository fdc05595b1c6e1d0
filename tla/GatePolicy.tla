----------------------------- MODULE GatePolicy -----------------------------
(***************************************************************************)
(* The decisions of the gate as operators: what the schema accepts as a    *)
(* classification (agent/domain/gate.py), how the policy turns one into a  *)
(* route (agent/domain/policy.py), and what the answers of Jev are made    *)
(* into (agent/providers/jev.py).                                          *)
(*                                                                         *)
(* A task is what the rules tell apart of a feedback: its type, whether    *)
(* the description is unusable (blank, too long), shows a crash or a       *)
(* broken formula, and its Markdown.  A classification has flags in place  *)
(* of scores; its draft is the title and the summary of an issue, "half"   *)
(* being one without the other, and its signals are bands of Jev's         *)
(* probabilities (up to 0.35, in between, from 0.65).                      *)
(***************************************************************************)
EXTENDS Integers, Sequences

Tasks == [type : {"bug", "feature"},
          text : {"unusable", "plain", "crash", "formula"},
          markdown : {"blank", "large", "text", "mermaid"}]

GateIntent == {"bug_report", "feature_request", "unrelated", "spam", "unknown"}
GateArea   == {"backend", "extension", "cross_component", "none", "unknown"}

BACKEND_CATEGORY_ALLOWLIST ==
    {"conversion_crash", "formula_parsing", "table_parsing", "heading_parsing",
     "list_parsing", "docx_structure", "backend_normalization"}

GateCategory == BACKEND_CATEGORY_ALLOWLIST \cup
    {"extension_ui", "visual_quality", "feature_request", "irrelevant_content",
     "prompt_injection", "unknown"}

GateRoute == {"accepted_backend_bug", "rejected_irrelevant", "quarantined_security",
              "issue_required", "out_of_scope", "needs_human", "duplicate"}

Band   == {"low", "unsure", "high"}
Signal == [related : Band, injection : Band, mixed : Band]

\* What the legacy classifier leaves empty.
NoSignals == [related |-> "high", injection |-> "low", mixed |-> "low"]

GateClassification ==
    [intent : GateIntent, area : GateArea, category : GateCategory,
     confident : BOOLEAN, sufficient : BOOLEAN, injected : BOOLEAN,
     extension : BOOLEAN, draft : {"none", "half", "full"},
     classifier : {"jev", "gate-v10"}, signals : Signal]

-----------------------------------------------------------------------------
(* The schema *)

IssueArea == {"backend", "extension", "cross_component"}

Blocked(c) == c.injected \/ c.intent \in {"unrelated", "spam"}

ExtensionSignal(c) == \/ c.area = "extension"
                      \/ c.extension
                      \/ c.category \in {"extension_ui", "visual_quality"}

IssueCandidate(c) == c.intent = "feature_request" \/ ExtensionSignal(c)

\* A schema that asks for no draft.
ValidWithoutDraft(c) ==
    ~Blocked(c) /\ IssueCandidate(c) /\ c.sufficient => c.area \in IssueArea

\* validate_issue_draft_fields: a draft exactly where an issue may be opened.
Valid(c) == IF ~Blocked(c) /\ IssueCandidate(c) /\ c.sufficient
            THEN c.area \in IssueArea /\ c.draft = "full"
            ELSE c.draft = "none"

-----------------------------------------------------------------------------
(* The policy *)

\* Checks that leave blank Markdown to the policy.
ResultIgnoringBlank(t, duplicate) ==
    CASE t.text = "unusable"                                               -> {"needs_human"}
      [] t.text # "unusable" /\ t.type = "bug" /\ t.markdown = "large"      -> {"needs_human"}
      [] OTHER -> IF duplicate THEN {"duplicate"} ELSE {}

\* deterministic_gate_result: {} if a model has to be asked.
deterministic_gate_result(t, duplicate) ==
    CASE t.text = "unusable"                                -> {"needs_human"}
      [] t.text # "unusable" /\ t.type = "bug"
         /\ t.markdown \in {"blank", "large"}               -> {"needs_human"}
      [] OTHER -> IF duplicate THEN {"duplicate"} ELSE {}

\* A normalisation that takes every bug without a place for the extension's.
NormalizeToExtension(c) ==
    IF ~Blocked(c) /\ c.intent = "bug_report" /\ (ExtensionSignal(c) \/ c.area = "unknown")
    THEN [c EXCEPT !.area = "extension", !.category = "extension_ui", !.extension = TRUE]
    ELSE c

_normalize_classification(c) ==
    CASE c.injected ->
           [c EXCEPT !.area = "none", !.category = "prompt_injection", !.draft = "none"]
      [] ~c.injected /\ Blocked(c) ->
           [c EXCEPT !.area = "none", !.category = "irrelevant_content", !.draft = "none"]
      [] ~Blocked(c) /\ c.category = "visual_quality" ->
           [c EXCEPT !.intent = "feature_request", !.area = "extension",
                     !.category = "feature_request", !.extension = TRUE]
      [] ~Blocked(c) /\ c.category # "visual_quality" /\ c.intent = "feature_request" ->
           [c EXCEPT !.area = IF ExtensionSignal(c) THEN "extension" ELSE @,
                     !.category = "feature_request"]
      [] ~Blocked(c) /\ c.category # "visual_quality" /\ c.intent = "bug_report"
         /\ ExtensionSignal(c) ->
           [c EXCEPT !.area = "extension", !.category = "extension_ui", !.extension = TRUE]
      [] ~Blocked(c) /\ c.intent = "bug_report" /\ ~ExtensionSignal(c)
         /\ c.area = "unknown" /\ c.category \in BACKEND_CATEGORY_ALLOWLIST ->
           [c EXCEPT !.area = "backend"]
      [] OTHER -> c

Bug(c) == c.intent = "bug_report"

\* Explicit evidence counts for a feedback filed as a bug, with Markdown.
Evidence(t, text) == t.type = "bug" /\ t.markdown # "blank" /\ t.text = text

\* A crash, or a diagram in a broken document, can be tried out without further information.
ReproducibleMinimum(c, t) == \/ c.category = "conversion_crash"
                             \/ c.category = "docx_structure" /\ t.markdown = "mermaid"

Rule(when, route, reason) == [when |-> when, route |-> route, reason |-> reason]

JevRules(c) ==
    LET jev == c.classifier = "jev"
    IN  << Rule(jev /\ c.signals.injection = "unsure", "needs_human", "injection_uncertain"),
           Rule(jev /\ c.signals.mixed = "unsure", "needs_human", "mixed_feedback_uncertain"),
           Rule(jev /\ c.signals.mixed = "high", "needs_human", "mixed_feedback"),
           Rule(jev /\ c.signals.related = "unsure", "needs_human", "related_uncertain"),
           Rule(jev /\ c.signals.related = "low", "rejected_irrelevant", "unrelated_feedback") >>

BlockingRules(c) ==
    << Rule(c.injected, "quarantined_security", "injection_suspected"),
       Rule(Blocked(c), "rejected_irrelevant", "irrelevant_or_spam") >>

IssueRules(c) ==
    LET issue == c.intent = "feature_request" \/ (Bug(c) /\ c.area = "extension")
    IN  << Rule(issue /\ ~c.confident, "needs_human", "confidence_below_threshold"),
           Rule(issue /\ ~c.sufficient, "needs_human", "insufficient_information"),
           Rule(issue /\ c.area \notin IssueArea, "needs_human", "issue_area_unknown"),
           Rule(issue /\ c.draft # "full", "needs_human", "issue_draft_missing"),
           Rule(issue /\ Bug(c), "issue_required", "extension_bug_requires_issue"),
           Rule(issue, "issue_required", "feature_requires_issue") >>

EvidenceRules(c, t) ==
    << Rule(Bug(c) /\ Evidence(t, "crash"), "accepted_backend_bug",
            "explicit_conversion_crash"),
       Rule(Bug(c) /\ Evidence(t, "formula"), "accepted_backend_bug",
            "explicit_formula_output_failure") >>

RepairRules(c, t) ==
    << Rule(~c.confident, "needs_human", "confidence_below_threshold"),
       Rule(~c.sufficient /\ ~(Bug(c) /\ ReproducibleMinimum(c, t)),
            "needs_human", "insufficient_information"),
       Rule(~Bug(c), "needs_human", "unsupported_intent"),
       Rule(c.category \notin BACKEND_CATEGORY_ALLOWLIST, "needs_human", "unsupported_category"),
       Rule(TRUE, "accepted_backend_bug", "backend_bug_accepted") >>

\* Rules that believe the description before anything else.
RulesEvidenceFirst(c, t) ==
    EvidenceRules(c, t) \o JevRules(c) \o BlockingRules(c) \o IssueRules(c) \o RepairRules(c, t)

\* The rules in the order the code tries them.
Rules(c, t) ==
    JevRules(c) \o BlockingRules(c) \o IssueRules(c) \o EvidenceRules(c, t) \o RepairRules(c, t)

IsFirst(rules, i) == /\ i \in DOMAIN rules /\ rules[i].when
                     /\ \A j \in DOMAIN rules : rules[j].when => i <= j

FirstRule(rules) == rules[CHOOSE i \in DOMAIN rules : IsFirst(rules, i)]

\* The category of the result, which explicit evidence overrides.
ResultCategory(c, reason) ==
    CASE reason = "explicit_conversion_crash"       -> "conversion_crash"
      [] reason = "explicit_formula_output_failure" -> "formula_parsing"
      [] OTHER                                      -> c.category

\* apply_gate_policy
apply_gate_policy(classified, t, calls) ==
    LET c    == _normalize_classification(classified)
        rule == FirstRule(Rules(c, t))
    IN  [route |-> rule.route, reason |-> rule.reason,
         category |-> ResultCategory(c, rule.reason),
         classification |-> c, calls |-> calls]

-----------------------------------------------------------------------------
(* Jev *)

\* _classification_from_answers: an answer has a choice for intent, area and category, bands
\* for its signals, and is sufficient and confident or not.
_classification_from_answers(a) ==
    [intent |-> a.intent, area |-> a.area,
     category |-> IF a.intent = "feature_request" THEN "feature_request" ELSE a.category,
     confident |-> a.confident, sufficient |-> a.sufficient,
     injected |-> a.signals.injection = "high",
     extension |-> a.area = "extension",
     draft |-> IF (a.intent = "feature_request" \/ a.area = "extension") /\ a.sufficient
               THEN "full" ELSE "none",
     classifier |-> "jev", signals |-> a.signals]
=============================================================================
