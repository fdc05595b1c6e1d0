---------------------------- MODULE FeedbackGate ----------------------------
(***************************************************************************)
(* The node classify_gate of agent/graph.py with everything it calls, and  *)
(* the reading of its result by route_feedback: checks without a model     *)
(* (agent/gate.py), Jev with its attempts and the fallback to the legacy   *)
(* classifier (agent/providers/jev.py), the attempts of that classifier's  *)
(* requests and of its format (agent/providers/openai_compatible.py), the  *)
(* policy, and the stored result.  What the models answer is any value.    *)
(*                                                                         *)
(* One execution of the nodes: their replay after a crash, and the rows    *)
(* they write, are those of FeedbackRun, for which this module decides the *)
(* route.                                                                  *)
(***************************************************************************)
EXTENDS GatePolicy

CONSTANTS
    Categories,           \* the categories that answers choose from
    ModelSignals,         \* the signals that the legacy classifier may write in Jev's name
    FirstClassifiers,     \* deployments: "jev" if a key for it is configured, else "model"
    MaxJevAttempts,       \* JevGateProvider max_attempts
    MaxFormatRetries,     \* OpenAICompatibleProvider max_format_retries
    MaxTransportRetries   \* OpenAICompatibleProvider max_transport_retries

ASSUME GateAssumption ==
    /\ Categories \subseteq GateCategory
    /\ ModelSignals \subseteq Signal
    /\ FirstClassifiers \subseteq {"jev", "model"} /\ FirstClassifiers # {}
    /\ MaxJevAttempts \in Nat \ {0}
    /\ MaxFormatRetries \in {0, 1}
    /\ MaxTransportRetries \in {0, 1, 2}

VARIABLES task,       \* the feedback, as read from its artifact
          duplicate,  \* whether find_open_by_fingerprint found another report
          pc,         \* what the nodes are waiting for
          attempt,    \* failed requests of the loop at work
          format,     \* answers of the legacy classifier refused by the schema
          result      \* gate.json

vars == <<task, duplicate, pc, attempt, format, result>>

NoResult == [route |-> "none"]

\* _terminal
Terminal(route) ==
    [route |-> route, reason |-> "deterministic", category |-> "unknown", calls |-> 0]

Init == /\ task \in Tasks
        /\ duplicate \in BOOLEAN
        /\ pc = "check" /\ attempt = 0 /\ format = 0 /\ result = NoResult

Goto(step) == pc' = step /\ attempt' = 0

Store(r) == /\ result' = r
            /\ Goto("stored")

\* execute_feedback_gate: what is decided without a model.
Check ==
    /\ pc = "check"
    /\ LET decided == deterministic_gate_result(task, duplicate)
       IN  \/ \E route \in decided : Store(Terminal(route))
           \/ /\ decided = {}
              /\ \E first \in FirstClassifiers : Goto(first)
              /\ UNCHANGED result
    /\ UNCHANGED <<task, duplicate, format>>

\* The loop of JevGateProvider, then JevFallbackProvider.
JevFailed == /\ IF attempt + 1 < MaxJevAttempts
                THEN pc' = pc /\ attempt' = attempt + 1
                ELSE Goto("model")
             /\ UNCHANGED result

JevUnavailable == /\ pc = "jev"
                  /\ JevFailed
                  /\ UNCHANGED <<task, duplicate, format>>

\* typesafe-sdk is not installed, or a message without a feedback: no attempt is made.
JevMissing == /\ pc = "jev" /\ attempt = 0
              /\ Goto("model")
              /\ UNCHANGED <<task, duplicate, format, result>>

\* _state_from_messages cuts the payload at the first closing tag, which may be one that the
\* feedback itself contains.  What is left is no JSON, and that error is not the one that
\* JevFallbackProvider catches: the node fails.
StateUnreadable == /\ pc = "jev" /\ attempt = 0
                   /\ Goto("failed")
                   /\ UNCHANGED <<task, duplicate, format, result>>

\* Jev answers; what the schema refuses of it is an exception like any other.
JevAnswers(answer) ==
    /\ pc = "jev"
    /\ LET c == _classification_from_answers(answer)
       IN  IF Valid(c) THEN Store(apply_gate_policy(c, task, 1)) ELSE JevFailed
    /\ UNCHANGED <<task, duplicate, format>>

\* A retryable failure of _post: timeout, transport, 408, 429, 5xx.  The last attempt, at the
\* fallback model if there is one, is the end of the call.
ModelUnavailable ==
    /\ pc = "model"
    /\ IF attempt < MaxTransportRetries
       THEN pc' = pc /\ attempt' = attempt + 1
       ELSE Goto("failed")
    /\ UNCHANGED <<task, duplicate, format, result>>

\* Failures that are not retried: 401, 403, 413 and other 4xx, a refusal, a reply of another
\* shape or without content, a valid answer that comes with tool calls, and one in Jev's name
\* with a signal that float() does not take (apply_gate_policy).
ModelRefuses == /\ pc = "model"
                /\ Goto("failed")
                /\ UNCHANGED <<task, duplicate, format, result>>

\* A round of format that nothing counts.
FormatRefusedUncounted == UNCHANGED format /\ Goto("model")

\* One more round with a hint, whose requests are counted afresh, then the call fails.
FormatRefused == IF format < MaxFormatRetries
                 THEN format' = format + 1 /\ Goto("model")
                 ELSE UNCHANGED format /\ Goto("failed")

\* An answer that is no JSON, or that the schema refuses.
ModelAnswersBadly == /\ pc = "model"
                     /\ FormatRefused
                     /\ UNCHANGED <<task, duplicate, result>>

ModelAnswers(c) == /\ pc = "model"
                   /\ Store(apply_gate_policy(c, task, format + 1))
                   /\ UNCHANGED <<task, duplicate, format>>

HasClassification(r) == "classification" \in DOMAIN r

\* read_gate validates the stored result again, its classification included.
ReadsBack(r) == HasClassification(r) => Valid(r.classification)

\* route_feedback
Route == /\ pc = "stored"
         /\ Goto(IF ReadsBack(result) THEN "routed" ELSE "failed")
         /\ UNCHANGED <<task, duplicate, format, result>>

-----------------------------------------------------------------------------

\* Answers to the questions of JevGateProvider.  An unrelated feedback cannot reach the
\* default threshold of the routing score, of which relatedness is 40 %.
JevAnswer ==
    {a \in [intent : GateIntent \ {"spam"}, area : GateArea \ {"none"},
            category : Categories \ {"visual_quality", "irrelevant_content", "prompt_injection"},
            signals : Signal, sufficient : BOOLEAN, confident : BOOLEAN] :
        a.confident => a.signals.related # "low"}

\* Valid answers of the legacy classifier, which may fill in the optional fields: with "jev" for
\* the classifier its signals, and its routing score if it gives one, are read as Jev's are.
\* "gate-v10" stands for no classifier, too, as the policy looks only for "jev".
ModelAnswer ==
    {c \in [intent : GateIntent, area : GateArea, category : Categories, confident : BOOLEAN,
            sufficient : BOOLEAN, injected : BOOLEAN, extension : BOOLEAN,
            draft : {"none", "half", "full"}, classifier : {"jev", "gate-v10"},
            signals : ModelSignals \cup {NoSignals}] :
        Valid(c) /\ (c.classifier = "gate-v10" => c.signals = NoSignals)}

Next == \/ Check
        \/ JevUnavailable \/ JevMissing \/ StateUnreadable
        \/ \E a \in JevAnswer : JevAnswers(a)
        \/ ModelUnavailable \/ ModelRefuses \/ ModelAnswersBadly
        \/ \E c \in ModelAnswer : ModelAnswers(c)
        \/ Route

Spec == Init /\ [][Next]_vars

-----------------------------------------------------------------------------
(* Properties *)

Classified == pc \in {"stored", "routed"} /\ HasClassification(result)

\* What the policy has rewritten without validation is still a valid classification when
\* route_feedback reads it: no feedback fails for what its own gate stored
\* (_normalize_classification, read_gate).
StoredResultReadsBack == pc = "stored" => ReadsBack(result)

\* Schema and policy agree on when an issue needs an area and a draft: the policy's own
\* checks never have to turn an issue down (validate_issue_draft_fields, apply_gate_policy).
SchemaAgreesWithPolicy ==
    Classified => result.reason \notin {"issue_area_unknown", "issue_draft_missing"}

\* In a classification by Jev, or in its name, nothing speaks against the feedback.  A high
\* probability of an injection does so by the flag alone, which Jev's own answers set with it.
Undoubted(c) ==
    c.classifier = "jev" => /\ c.signals.related = "high" /\ c.signals.mixed = "low"
                            /\ c.signals.injection # "unsure"

\* A bug of the backend, clear by what the reporter wrote or by the classification.  As in
\* the code, a crash that the classification reports needs no Markdown to be tried out, which
\* only a feedback filed as a feature can lack (RepairWithoutMarkdown).
WorthRepair(c, t) ==
    /\ Bug(c) /\ ~c.injected /\ c.area # "extension" /\ Undoubted(c)
    /\ \/ Evidence(t, "crash") \/ Evidence(t, "formula")
       \/ /\ c.confident /\ c.category \in BACKEND_CATEGORY_ALLOWLIST
          /\ c.sufficient \/ ReproducibleMinimum(c, t)

\* A request, or a bug of the extension, that somebody can act upon.
WorthIssue(c) ==
    /\ c.intent = "feature_request" \/ (Bug(c) /\ c.area = "extension")
    /\ ~c.injected /\ Undoubted(c) /\ c.confident /\ c.sufficient

\* The agent works on a feedback, or publishes it, exactly if it is clear enough: no order
\* of the rules lets a doubtful one through or loses a clear one (apply_gate_policy).
WorkIsWarranted ==
    Classified =>
        LET c == result.classification
        IN  /\ result.route = "accepted_backend_bug" <=> WorthRepair(c, task)
            /\ result.route = "issue_required" <=> WorthIssue(c)

\* A crash needs no more information than the Markdown that the reporter has given, says a
\* comment of apply_gate_policy, which does not look whether there is any.  That is left to
\* deterministic_gate_result, which asks it of what was filed as a bug: without Markdown, a
\* feedback goes to repair only if it was filed as a feature, and is then sufficient of itself
\* or classified as a crash.
RepairWithoutMarkdown ==
    Classified /\ result.route = "accepted_backend_bug" /\ task.markdown = "blank"
        => /\ task.type = "feature"
           /\ result.classification.sufficient \/ result.classification.category = "conversion_crash"

ModelRequests == (MaxFormatRetries + 1) * (MaxTransportRetries + 1)

\* The requests that the nodes may still make, and their steps without one.
Remaining ==
    CASE pc = "check"  -> MaxJevAttempts + ModelRequests + 2
      [] pc = "jev"    -> (MaxJevAttempts - attempt) + ModelRequests + 1
      [] pc = "model"  -> (MaxFormatRetries + 1 - format) * (MaxTransportRetries + 1) - attempt + 1
      [] pc = "stored" -> 1
      [] OTHER         -> 0

\* Every step takes the gate nearer to its end: attempts at Jev, rounds of format and attempts
\* at a request are nested, and all of them count, so that one feedback costs at most nine
\* requests and no answer keeps a run in its gate.
EveryStepCounts == [][Remaining' \in 0..(Remaining - 1)]_vars
=============================================================================
