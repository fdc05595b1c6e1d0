------------------------- MODULE FeedbackGate_proofs -------------------------
(***************************************************************************)
(* For every number of attempts: the gate runs out of steps, and what it   *)
(* stores can be read back, whatever the classifiers answer.               *)
(***************************************************************************)
EXTENDS FeedbackGate, SequenceTheorems, TLAPS

-----------------------------------------------------------------------------
(* The gate runs out of steps *)

Steps == {"check", "jev", "model", "stored", "routed", "failed"}

CountersOK ==
    /\ pc \in Steps
    /\ attempt \in 0..(IF pc = "jev" THEN MaxJevAttempts - 1 ELSE MaxTransportRetries)
    /\ format \in 0..MaxFormatRetries

\* Going on to a step other than Jev, or to Jev, starts a count of its own.
LEMMA GotoCounts ==
    ASSUME GateAssumption, CountersOK, NEW step \in Steps, Goto(step), UNCHANGED format
    PROVE  CountersOK'
  BY DEF GateAssumption, CountersOK, Goto, Steps

\* Every step keeps the counters in their bounds.
LEMMA CountersKept ==
    ASSUME GateAssumption, CountersOK, Next
    PROVE  CountersOK'
  <1>1. CASE Check
    <2>1. \E step \in Steps : Goto(step) /\ UNCHANGED format
      BY <1>1 DEF Check, Store, GateAssumption, Steps
    <2> QED
      BY <2>1, GotoCounts
  <1>2. CASE JevUnavailable
    BY <1>2 DEF JevUnavailable, JevFailed, Goto, CountersOK, GateAssumption, Steps
  <1>3. CASE JevMissing \/ StateUnreadable
    BY <1>3, GotoCounts DEF JevMissing, StateUnreadable, Steps
  <1>4. ASSUME NEW a \in JevAnswer, JevAnswers(a)
        PROVE  CountersOK'
    <2>1. UNCHANGED format /\ (Goto("stored") \/ JevFailed) /\ pc = "jev"
      BY <1>4 DEF JevAnswers, Store
    <2>2. CASE Goto("stored")
      BY <2>1, <2>2, GotoCounts DEF Steps
    <2>3. CASE JevFailed
      BY <2>1, <2>3 DEF JevFailed, Goto, CountersOK, GateAssumption, Steps
    <2> QED
      BY <2>1, <2>2, <2>3
  <1>5. CASE ModelUnavailable
    BY <1>5 DEF ModelUnavailable, Goto, CountersOK, GateAssumption, Steps
  <1>6. CASE ModelRefuses
    BY <1>6, GotoCounts DEF ModelRefuses, Steps
  <1>7. CASE ModelAnswersBadly
    BY <1>7 DEF ModelAnswersBadly, FormatRefused, Goto, CountersOK, GateAssumption, Steps
  <1>8. ASSUME NEW c \in ModelAnswer, ModelAnswers(c)
        PROVE  CountersOK'
    BY <1>8, GotoCounts DEF ModelAnswers, Store, Steps
  <1>9. CASE Route
    <2>1. \E step \in Steps : Goto(step) /\ UNCHANGED format
      BY <1>9 DEF Route, Steps
    <2> QED
      BY <2>1, GotoCounts
  <1> QED
    BY <1>1, <1>2, <1>3, <1>4, <1>5, <1>6, <1>7, <1>8, <1>9 DEF Next

\* What an attempt at the legacy classifier leaves of the requests it may make.
LEMMA ModelRemaining ==
    ASSUME GateAssumption, NEW a \in 0..MaxTransportRetries, NEW f \in 0..MaxFormatRetries
    PROVE  LET left == (MaxFormatRetries + 1 - f) * (MaxTransportRetries + 1) - a + 1
           IN  left \in 2..(ModelRequests + 1)
  <1>1. CASE MaxFormatRetries = 0
    <2>1. f = 0
      BY <1>1
    <2> QED
      BY <1>1, <2>1 DEF GateAssumption, ModelRequests
  <1>2. CASE MaxFormatRetries = 1
    <2>1. CASE f = 0
      BY <1>2, <2>1 DEF GateAssumption, ModelRequests
    <2>2. CASE f = 1
      BY <1>2, <2>2 DEF GateAssumption, ModelRequests
    <2> QED
      BY <1>2, <2>1, <2>2
  <1> QED
    BY <1>1, <1>2 DEF GateAssumption

\* Every step leaves less to do.
LEMMA StepCounts ==
    ASSUME GateAssumption, CountersOK, Next
    PROVE  Remaining' \in 0..(Remaining - 1)
  <1>k. CountersOK'
    BY CountersKept
  <1>r. ModelRequests \in Nat \ {0}
    <2>1. (MaxFormatRetries + 1) \in {1, 2} /\ (MaxTransportRetries + 1) \in {1, 2, 3}
      BY DEF GateAssumption
    <2> QED
      BY <2>1 DEF ModelRequests
  <1>m. ASSUME pc = "model"
        PROVE  Remaining \in 2..(ModelRequests + 1)
    <2>1. attempt \in 0..MaxTransportRetries /\ format \in 0..MaxFormatRetries
      BY <1>m DEF CountersOK
    <2> QED
      BY <1>m, <2>1, ModelRemaining DEF Remaining
  <1>n. ASSUME pc' = "model"
        PROVE  Remaining' \in 2..(ModelRequests + 1)
    <2>1. attempt' \in 0..MaxTransportRetries /\ format' \in 0..MaxFormatRetries
      BY <1>k, <1>n DEF CountersOK
    <2>2. Remaining' = (MaxFormatRetries + 1 - format') * (MaxTransportRetries + 1) - attempt' + 1
      BY <1>n DEF Remaining
    <2> QED
      BY <2>1, <2>2, ModelRemaining
  <1>j. pc = "jev" => Remaining = (MaxJevAttempts - attempt) + ModelRequests + 1
                      /\ attempt \in 0..(MaxJevAttempts - 1)
    BY DEF Remaining, CountersOK
  <1>e. pc' \in {"stored", "routed", "failed"} => Remaining' = IF pc' = "stored" THEN 1 ELSE 0
    BY DEF Remaining
  <1>1. CASE Check
    <2>1. Remaining = MaxJevAttempts + ModelRequests + 2
      BY <1>1 DEF Check, Remaining
    <2>2. CASE pc' = "jev"
      <3>1. attempt' = 0
        BY <1>1 DEF Check, Goto, Store
      <3>2. Remaining' = MaxJevAttempts + ModelRequests + 1
        BY <2>2, <3>1, <1>r DEF Remaining, ModelRequests, GateAssumption
      <3> QED
        BY <2>1, <3>2, <1>r DEF GateAssumption
    <2>3. CASE pc' = "model"
      BY <2>1, <2>3, <1>n, <1>r DEF GateAssumption
    <2>4. CASE pc' = "stored"
      BY <2>1, <2>4, <1>e, <1>r DEF GateAssumption
    <2> QED
      BY <1>1, <2>2, <2>3, <2>4 DEF Check, Store, Goto, GateAssumption
  <1>2. ASSUME pc = "jev", JevFailed
        PROVE  Remaining' \in 0..(Remaining - 1)
    <2>1. CASE attempt + 1 < MaxJevAttempts
      <3>1. pc' = "jev" /\ attempt' = attempt + 1
        BY <1>2, <2>1 DEF JevFailed
      <3>2. Remaining' = (MaxJevAttempts - attempt') + ModelRequests + 1
        BY <3>1 DEF Remaining, ModelRequests
      <3> QED
        BY <1>2, <1>j, <1>r, <2>1, <3>1, <3>2 DEF GateAssumption
    <2>2. CASE ~(attempt + 1 < MaxJevAttempts)
      <3>1. pc' = "model"
        BY <1>2, <2>2 DEF JevFailed, Goto
      <3> QED
        BY <1>2, <1>j, <1>n, <1>r, <3>1 DEF GateAssumption
    <2> QED
      BY <2>1, <2>2
  <1>3. CASE JevUnavailable
    BY <1>2, <1>3 DEF JevUnavailable
  <1>4. CASE JevMissing
    <2>1. pc = "jev" /\ pc' = "model"
      BY <1>4 DEF JevMissing, Goto
    <2> QED
      BY <2>1, <1>j, <1>n, <1>r DEF GateAssumption
  <1>5. ASSUME NEW a \in JevAnswer, JevAnswers(a)
        PROVE  Remaining' \in 0..(Remaining - 1)
    <2>1. pc = "jev" /\ (pc' = "stored" \/ JevFailed)
      BY <1>5 DEF JevAnswers, Store, Goto
    <2>2. CASE pc' = "stored"
      BY <2>1, <2>2, <1>j, <1>e, <1>r DEF GateAssumption
    <2> QED
      BY <1>2, <2>1, <2>2
  <1>6. ASSUME pc = "model", pc' \in {"stored", "failed"}
        PROVE  Remaining' \in 0..(Remaining - 1)
    BY <1>6, <1>m, <1>e, <1>r
  <1>u. CASE StateUnreadable
    <2>1. pc = "jev" /\ pc' = "failed"
      BY <1>u DEF StateUnreadable, Goto
    <2> QED
      BY <2>1, <1>j, <1>e, <1>r DEF GateAssumption
  <1>7. CASE ModelUnavailable
    <2>1. CASE attempt < MaxTransportRetries
      <3>1. /\ pc = "model" /\ pc' = "model" /\ attempt' = attempt + 1 /\ format' = format
            /\ attempt \in Nat
        BY <1>7, <2>1 DEF ModelUnavailable, CountersOK
      <3>2. Remaining = (MaxFormatRetries + 1 - format) * (MaxTransportRetries + 1) - attempt + 1
        BY <3>1 DEF Remaining
      <3>3. Remaining' = (MaxFormatRetries + 1 - format) * (MaxTransportRetries + 1) - attempt' + 1
        BY <3>1 DEF Remaining
      <3>4. (MaxFormatRetries + 1 - format) * (MaxTransportRetries + 1) \in Int
        BY DEF CountersOK, GateAssumption
      <3> QED
        BY <3>1, <3>2, <3>3, <3>4, <1>n
    <2>2. CASE ~(attempt < MaxTransportRetries)
      BY <1>6, <1>7, <2>2 DEF ModelUnavailable, Goto
    <2> QED
      BY <2>1, <2>2
  <1>8. CASE ModelRefuses
    BY <1>6, <1>8 DEF ModelRefuses, Goto
  <1>9. CASE ModelAnswersBadly
    <2>1. CASE format < MaxFormatRetries
      <3>1. /\ pc = "model" /\ pc' = "model" /\ attempt' = 0 /\ format = 0 /\ format' = 1
            /\ MaxFormatRetries = 1
        BY <1>9, <2>1 DEF ModelAnswersBadly, FormatRefused, Goto, CountersOK, GateAssumption
      <3>2. attempt \in 0..MaxTransportRetries /\ MaxTransportRetries \in Nat
        BY <3>1 DEF CountersOK, GateAssumption
      <3>3. Remaining = 2 * (MaxTransportRetries + 1) - attempt + 1
        BY <3>1, <3>2 DEF Remaining
      <3>4. Remaining' = MaxTransportRetries + 2
        BY <3>1, <3>2 DEF Remaining
      <3> QED
        BY <3>2, <3>3, <3>4
    <2>2. CASE ~(format < MaxFormatRetries)
      BY <1>6, <1>9, <2>2 DEF ModelAnswersBadly, FormatRefused, Goto
    <2> QED
      BY <2>1, <2>2
  <1>10. ASSUME NEW c \in ModelAnswer, ModelAnswers(c)
         PROVE  Remaining' \in 0..(Remaining - 1)
    BY <1>6, <1>10 DEF ModelAnswers, Store, Goto
  <1>11. CASE Route
    <2>1. Remaining = 1
      BY <1>11 DEF Route, Remaining
    <2>2. pc' \in {"routed", "failed"}
      BY <1>11 DEF Route, Goto
    <2> QED
      BY <2>1, <2>2, <1>e
  <1> QED
    BY <1>1, <1>3, <1>4, <1>5, <1>u, <1>7, <1>8, <1>9, <1>10, <1>11 DEF Next

\* Whatever Jev and the legacy classifier answer, and however often they fail, every step of
\* the gate uses up one of the finitely many steps it has.
THEOREM GateRunsOut == Spec => EveryStepCounts
  <1>1. Init => CountersOK
    BY GateAssumption DEF Init, CountersOK, Steps, GateAssumption
  <1>2. CountersOK /\ [Next]_vars => CountersOK'
    <2>1. CASE UNCHANGED vars
      BY <2>1 DEF vars, CountersOK
    <2> QED
      BY <2>1, GateAssumption, CountersKept
  <1>3. CountersOK /\ [Next]_vars => [Remaining' \in 0..(Remaining - 1)]_vars
    BY GateAssumption, StepCounts
  <1> QED
    BY <1>1, <1>2, <1>3, PTL DEF Spec, EveryStepCounts

-----------------------------------------------------------------------------
(* What is stored can be read back *)

\* The policy's rewriting of a valid classification leaves it valid, although nothing
\* validates it.
LEMMA NormalizeKeepsValid ==
    ASSUME NEW c \in GateClassification, Valid(c)
    PROVE  Valid(_normalize_classification(c))
  <1>1. CASE Blocked(c)
    BY <1>1 DEF _normalize_classification, Valid, Blocked, GateClassification
  <1>2. CASE ~Blocked(c) /\ c.category = "visual_quality"
    BY <1>2 DEF _normalize_classification, Valid, Blocked, IssueCandidate, ExtensionSignal,
                IssueArea, GateClassification
  <1>3. CASE ~Blocked(c) /\ c.category # "visual_quality" /\ c.intent = "feature_request"
    BY <1>3 DEF _normalize_classification, Valid, Blocked, IssueCandidate, ExtensionSignal,
                IssueArea, GateClassification
  <1>4. CASE /\ ~Blocked(c) /\ c.category # "visual_quality" /\ c.intent = "bug_report"
             /\ ExtensionSignal(c)
    BY <1>4 DEF _normalize_classification, Valid, Blocked, IssueCandidate, ExtensionSignal,
                IssueArea, GateClassification
  <1>5. CASE /\ ~Blocked(c) /\ c.intent = "bug_report" /\ ~ExtensionSignal(c)
             /\ c.area = "unknown" /\ c.category \in BACKEND_CATEGORY_ALLOWLIST
    BY <1>5 DEF _normalize_classification, Valid, Blocked, IssueCandidate, ExtensionSignal,
                IssueArea, GateClassification
  <1> QED
    BY <1>1, <1>2, <1>3, <1>4, <1>5 DEF _normalize_classification, Blocked, ExtensionSignal

\* What the policy makes of a valid classification can be read back.
LEMMA PolicyReadsBack ==
    ASSUME NEW c \in GateClassification, Valid(c), NEW t, NEW calls
    PROVE  ReadsBack(apply_gate_policy(c, t, calls))
  <1>1. apply_gate_policy(c, t, calls).classification = _normalize_classification(c)
    BY DEF apply_gate_policy
  <1> QED
    BY <1>1, NormalizeKeepsValid DEF ReadsBack

\* What a classifier answers has the fields of a classification.
LEMMA AnswersAreClassifications ==
    /\ \A a \in JevAnswer : _classification_from_answers(a) \in GateClassification
    /\ \A c \in ModelAnswer : c \in GateClassification /\ Valid(c)
  <1>1. ASSUME NEW a \in JevAnswer
        PROVE  _classification_from_answers(a) \in GateClassification
    BY <1>1, GateAssumption DEF GateAssumption, JevAnswer, _classification_from_answers,
       GateClassification, GateIntent, GateArea, GateCategory, Signal
  <1>2. NoSignals \in Signal
    BY DEF NoSignals, Signal, Band
  <1>3. \A c \in ModelAnswer : c \in GateClassification /\ Valid(c)
    BY <1>2, GateAssumption DEF GateAssumption, ModelAnswer, GateClassification
  <1> QED
    BY <1>1, <1>3

\* No feedback fails for a result that its own gate stored.
THEOREM ResultReadsBack == Spec => []StoredResultReadsBack
  <1>1. Init => StoredResultReadsBack
    BY DEF Init, StoredResultReadsBack
  <1>2. StoredResultReadsBack /\ [Next]_vars => StoredResultReadsBack'
    <2> SUFFICES ASSUME StoredResultReadsBack, [Next]_vars, pc' = "stored"
                 PROVE  ReadsBack(result')
      BY DEF StoredResultReadsBack, ReadsBack, HasClassification
    <2>1. CASE UNCHANGED vars
      BY <2>1 DEF vars, StoredResultReadsBack
    <2>2. CASE Check
      <3>1. PICK route : result' = Terminal(route)
        BY <2>2, GateAssumption DEF Check, Store, Goto, GateAssumption
      <3>2. ~HasClassification(Terminal(route))
        BY DEF HasClassification, Terminal
      <3> QED
        BY <3>1, <3>2 DEF ReadsBack
    <2>3. ASSUME NEW a \in JevAnswer, JevAnswers(a)
          PROVE  ReadsBack(result')
      <3>1. /\ Valid(_classification_from_answers(a))
            /\ result' = apply_gate_policy(_classification_from_answers(a), task, 1)
        BY <2>3 DEF JevAnswers, JevFailed, Store, Goto
      <3> QED
        BY <3>1, PolicyReadsBack, AnswersAreClassifications
    <2>4. ASSUME NEW c \in ModelAnswer, ModelAnswers(c)
          PROVE  ReadsBack(result')
      <3>1. result' = apply_gate_policy(c, task, format + 1)
        BY <2>4 DEF ModelAnswers, Store
      <3> QED
        BY <3>1, PolicyReadsBack, AnswersAreClassifications
    <2>5. ~(JevUnavailable \/ JevMissing \/ StateUnreadable \/ ModelUnavailable \/ ModelRefuses
            \/ ModelAnswersBadly \/ Route)
      BY DEF JevUnavailable, JevFailed, JevMissing, StateUnreadable, ModelUnavailable,
             ModelRefuses, ModelAnswersBadly, FormatRefused, Route, Goto
    <2> QED
      BY <2>1, <2>2, <2>3, <2>4, <2>5 DEF Next
  <1> QED
    BY <1>1, <1>2, PTL DEF Spec
-----------------------------------------------------------------------------
(* The rules in their order *)

Reason == {"injection_uncertain", "mixed_feedback_uncertain", "mixed_feedback",
           "related_uncertain", "unrelated_feedback", "injection_suspected",
           "irrelevant_or_spam", "confidence_below_threshold", "insufficient_information",
           "issue_area_unknown", "issue_draft_missing", "extension_bug_requires_issue",
           "feature_requires_issue", "explicit_conversion_crash",
           "explicit_formula_output_failure", "unsupported_intent", "unsupported_category",
           "backend_bug_accepted"}

Decision == [when : BOOLEAN, route : GateRoute, reason : Reason]

\* A list of rules comes to r, or to nothing.
Decides(rules, r) == \E i \in DOMAIN rules : IsFirst(rules, i) /\ rules[i] = r
NoneApplies(rules) == \A i \in DOMAIN rules : ~rules[i].when

\* There is one first rule.
LEMMA FirstDecides ==
    ASSUME NEW rules \in Seq(Decision), NEW r, Decides(rules, r)
    PROVE  FirstRule(rules) = r
  <1>1. PICK i \in DOMAIN rules : IsFirst(rules, i) /\ rules[i] = r
    BY DEF Decides
  <1>2. DOMAIN rules \subseteq Int
    OBVIOUS
  <1>3. \A j \in DOMAIN rules : IsFirst(rules, j) => j = i
    BY <1>1, <1>2 DEF IsFirst
  <1> QED
    BY <1>1, <1>3 DEF FirstRule

LEMMA RuleDecides ==
    ASSUME NEW when \in BOOLEAN, NEW route \in GateRoute, NEW reason \in Reason
    PROVE  Rule(when, route, reason) \in Decision
  BY DEF Rule, Decision

LEMMA FiveRules ==
    ASSUME NEW a \in Decision, NEW b \in Decision, NEW c \in Decision, NEW d \in Decision,
           NEW e \in Decision
    PROVE  LET list == <<a, b, c, d, e>>
           IN  list \in Seq(Decision) /\ DOMAIN list = 1..5 /\ Len(list) = 5
  OBVIOUS

\* What an earlier list decides stands, and a later one is heard if the earlier is silent.
LEMMA ConcatDecides ==
    ASSUME NEW s \in Seq(Decision), NEW t \in Seq(Decision)
    PROVE  /\ s \o t \in Seq(Decision)
           /\ \A r : Decides(s, r) => Decides(s \o t, r)
           /\ \A r : NoneApplies(s) /\ Decides(t, r) => Decides(s \o t, r)
           /\ NoneApplies(s) /\ NoneApplies(t) => NoneApplies(s \o t)
  <1> DEFINE st == s \o t
  <1>1. /\ st \in Seq(Decision) /\ Len(st) = Len(s) + Len(t)
        /\ \A i \in 1..Len(s) + Len(t) : st[i] = IF i <= Len(s) THEN s[i] ELSE t[i - Len(s)]
    BY ConcatProperties
  <1>2. /\ DOMAIN s = 1..Len(s) /\ DOMAIN t = 1..Len(t) /\ DOMAIN st = 1..Len(s) + Len(t)
        /\ Len(s) \in Nat /\ Len(t) \in Nat
    BY <1>1
  <1> HIDE DEF st
  <1>3. ASSUME NEW r, Decides(s, r)
        PROVE  Decides(st, r)
    <2>1. PICK i \in DOMAIN s : IsFirst(s, i) /\ s[i] = r
      BY <1>3 DEF Decides
    <2>2. IsFirst(st, i) /\ st[i] = r /\ i \in DOMAIN st
      BY <1>1, <1>2, <2>1 DEF IsFirst
    <2> QED
      BY <2>2 DEF Decides
  <1>4. ASSUME NEW r, NoneApplies(s), Decides(t, r)
        PROVE  Decides(st, r)
    <2>1. PICK i \in DOMAIN t : IsFirst(t, i) /\ t[i] = r
      BY <1>4 DEF Decides
    <2> DEFINE k == Len(s) + i
    <2>2. k \in DOMAIN st /\ st[k] = t[i] /\ ~(k <= Len(s))
      BY <1>1, <1>2, <2>1
    <2>3. ASSUME NEW j \in DOMAIN st, st[j].when
          PROVE  k <= j
      <3>1. CASE j <= Len(s)
        BY <1>1, <1>2, <1>4, <2>3, <3>1 DEF NoneApplies
      <3>2. CASE ~(j <= Len(s))
        <4>1. st[j] = t[j - Len(s)] /\ j - Len(s) \in DOMAIN t
          BY <1>1, <1>2, <3>2
        <4>2. i <= j - Len(s)
          BY <2>1, <2>3, <4>1 DEF IsFirst
        <4> QED
          BY <1>2, <2>1, <4>2
      <3> QED
        BY <3>1, <3>2
    <2>4. IsFirst(st, k) /\ st[k] = r
      BY <2>1, <2>2, <2>3 DEF IsFirst
    <2> QED
      BY <2>2, <2>4 DEF Decides
  <1>5. ASSUME NoneApplies(s), NoneApplies(t)
        PROVE  NoneApplies(st)
    <2> SUFFICES ASSUME NEW j \in DOMAIN st PROVE ~st[j].when
      BY DEF NoneApplies
    <2>1. CASE j <= Len(s)
      BY <1>1, <1>2, <1>5, <2>1 DEF NoneApplies
    <2>2. CASE ~(j <= Len(s))
      <3>1. st[j] = t[j - Len(s)] /\ j - Len(s) \in DOMAIN t
        BY <1>1, <1>2, <2>2
      <3> QED
        BY <1>5, <3>1 DEF NoneApplies
    <2> QED
      BY <2>1, <2>2
  <1> QED
    BY <1>1, <1>3, <1>4, <1>5 DEF st
\* Where some rule of a short list applies, one of them does so first.
LEMMA SomeDecides ==
    ASSUME NEW rules \in Seq(Decision), Len(rules) <= 6, ~NoneApplies(rules)
    PROVE  \E i \in DOMAIN rules : IsFirst(rules, i)
  <1> DEFINE n == Len(rules)
  <1>0. n \in Nat /\ n <= 6 /\ DOMAIN rules = 1..n
    OBVIOUS
  <1> HIDE DEF n
  <1>1. DOMAIN rules = 1..n /\ n \in 0..6
    BY <1>0
  <1> DEFINE on(i) == i \in DOMAIN rules /\ rules[i].when
  <1>2. \E i \in 1..6 : on(i)
    BY <1>1 DEF NoneApplies
  <1>3. \E i \in 1..6 : on(i) /\ \A j \in 1..6 : on(j) => i <= j
    <2> HIDE DEF on
    <2>1. CASE on(1)
      BY <2>1
    <2>2. CASE ~on(1) /\ on(2)
      BY <2>2
    <2>3. CASE ~on(1) /\ ~on(2) /\ on(3)
      BY <2>3
    <2>4. CASE ~on(1) /\ ~on(2) /\ ~on(3) /\ on(4)
      BY <2>4
    <2>5. CASE ~on(1) /\ ~on(2) /\ ~on(3) /\ ~on(4) /\ on(5)
      BY <2>5
    <2>6. CASE ~on(1) /\ ~on(2) /\ ~on(3) /\ ~on(4) /\ ~on(5)
      BY <1>2, <2>6
    <2> QED
      BY <2>1, <2>2, <2>3, <2>4, <2>5, <2>6
  <1> QED
    BY <1>1, <1>3 DEF IsFirst

\* Whether Jev's own probabilities leave a doubt.
Doubted(c) == /\ c.classifier = "jev"
              /\ \/ c.signals.injection = "unsure" \/ c.signals.mixed # "low"
                 \/ c.signals.related # "high"

\* Lists that send nobody to work decide on a route without it.
Harmless(r) == /\ r.route \notin {"accepted_backend_bug", "issue_required"}
           /\ r.reason \notin {"issue_area_unknown", "issue_draft_missing"}

LEMMA JevDecides ==
    ASSUME NEW c \in GateClassification
    PROVE  /\ JevRules(c) \in Seq(Decision)
           /\ ~Doubted(c) => NoneApplies(JevRules(c))
           /\ Doubted(c) => \E r : Decides(JevRules(c), r) /\ Harmless(r)
  <1> DEFINE rules == JevRules(c)
  <1>0. \A i \in 1..5 : rules[i] \in Decision
    <2>1. /\ rules[1] \in Decision /\ rules[2] \in Decision /\ rules[3] \in Decision
          /\ rules[4] \in Decision
      BY RuleDecides DEF JevRules, GateRoute, Reason
    <2>2. rules[5] \in Decision
      BY RuleDecides DEF JevRules, GateRoute, Reason
    <2> QED
      BY <2>1, <2>2
  <1>1. /\ rules \in Seq(Decision) /\ DOMAIN rules = 1..5 /\ Len(rules) = 5
    <2>1. DOMAIN rules = 1..5 /\ Len(rules) = 5
      BY DEF JevRules
    <2> QED
      BY <1>0, <2>1 DEF JevRules
  <1>2. \A i \in 1..5 : Harmless(rules[i])
    BY DEF JevRules, Rule, Harmless
  <1>3. Doubted(c) <=> ~NoneApplies(rules)
    <2>1. c.signals \in Signal
      BY DEF GateClassification
    <2>2. NoneApplies(rules) <=> ~rules[1].when /\ ~rules[2].when /\ ~rules[3].when
                                 /\ ~rules[4].when /\ ~rules[5].when
      BY <1>1 DEF NoneApplies
    <2> QED
      BY <2>1, <2>2 DEF JevRules, Rule, Doubted, Signal, Band
  <1>4. ASSUME Doubted(c)
        PROVE  \E r : Decides(rules, r) /\ Harmless(r)
    <2>1. PICK i \in 1..5 : IsFirst(rules, i)
      <3> HIDE DEF rules
      <3>1. rules \in Seq(Decision) /\ Len(rules) <= 6 /\ ~NoneApplies(rules)
        BY <1>1, <1>3, <1>4
      <3> QED
        BY <1>1, <3>1, SomeDecides
    <2> QED
      BY <1>1, <1>2, <2>1 DEF Decides
  <1> QED
    BY <1>1, <1>3, <1>4

LEMMA BlockingDecides ==
    ASSUME NEW c \in GateClassification
    PROVE  /\ BlockingRules(c) \in Seq(Decision)
           /\ ~Blocked(c) => NoneApplies(BlockingRules(c))
           /\ Blocked(c) => \E r : Decides(BlockingRules(c), r) /\ Harmless(r)
  <1> DEFINE rules == BlockingRules(c)
  <1>0. \A i \in 1..2 : rules[i] \in Decision
    <2>1. rules[1] \in Decision
      BY RuleDecides DEF BlockingRules, GateRoute, Reason, GateClassification
    <2>2. rules[2] \in Decision
      BY RuleDecides DEF BlockingRules, GateRoute, Reason, Blocked
    <2> QED
      BY <2>1, <2>2
  <1>1. /\ rules \in Seq(Decision) /\ DOMAIN rules = 1..2 /\ Len(rules) = 2
    <2>1. DOMAIN rules = 1..2 /\ Len(rules) = 2
      BY DEF BlockingRules
    <2> QED
      BY <1>0, <2>1 DEF BlockingRules
  <1>2. \A i \in 1..2 : Harmless(rules[i])
    BY DEF BlockingRules, Rule, Harmless
  <1>3. Blocked(c) <=> ~NoneApplies(rules)
    <2>1. NoneApplies(rules) <=> ~rules[1].when /\ ~rules[2].when
      BY <1>1 DEF NoneApplies
    <2> QED
      BY <2>1 DEF BlockingRules, Rule, Blocked
  <1>4. ASSUME Blocked(c)
        PROVE  \E r : Decides(rules, r) /\ Harmless(r)
    <2>1. PICK i \in 1..2 : IsFirst(rules, i)
      <3> HIDE DEF rules
      <3>1. rules \in Seq(Decision) /\ Len(rules) <= 6 /\ ~NoneApplies(rules)
        BY <1>1, <1>3, <1>4
      <3> QED
        BY <1>1, <3>1, SomeDecides
    <2> QED
      BY <1>1, <1>2, <2>1 DEF Decides
  <1> QED
    BY <1>1, <1>3, <1>4
\* What may become an issue, if it is clear enough.
ForIssue(c) == c.intent = "feature_request" \/ (Bug(c) /\ c.area = "extension")

\* A decision that is not about a draft or an area that the schema has let through.
NoGap(r) == r.reason \notin {"issue_area_unknown", "issue_draft_missing"}

\* An issue that is due exactly if it is clear enough.
Issuable(r, c) == /\ NoGap(r) /\ r.route # "accepted_backend_bug"
                  /\ r.route = "issue_required" <=> c.confident /\ c.sufficient

LEMMA IssueRulesDecide ==
    ASSUME NEW c
    PROVE  IssueRules(c) \in Seq(Decision) /\ DOMAIN IssueRules(c) = 1..6 /\ Len(IssueRules(c)) = 6
  <1> DEFINE rules == IssueRules(c)
  <1>0. \A i \in 1..6 : rules[i] \in Decision
    <2>1. rules[1] \in Decision /\ rules[2] \in Decision
      BY RuleDecides DEF IssueRules, GateRoute, Reason
    <2>2. rules[3] \in Decision /\ rules[4] \in Decision
      BY RuleDecides DEF IssueRules, GateRoute, Reason
    <2>3. rules[5] \in Decision /\ rules[6] \in Decision
      BY RuleDecides DEF IssueRules, GateRoute, Reason
    <2> QED
      BY <2>1, <2>2, <2>3
  <1>1. /\ rules \in Seq(Decision) /\ DOMAIN rules = 1..6 /\ Len(rules) = 6
    <2>1. DOMAIN rules = 1..6 /\ Len(rules) = 6
      BY DEF IssueRules
    <2> QED
      BY <1>0, <2>1 DEF IssueRules
  <1> QED
    BY <1>1

LEMMA IssueDecides ==
    ASSUME NEW c \in GateClassification, Valid(c), ~Blocked(c)
    PROVE  /\ ~ForIssue(c) => NoneApplies(IssueRules(c))
           /\ ForIssue(c) => \E r : Decides(IssueRules(c), r) /\ Issuable(r, c)
  <1> DEFINE rules == IssueRules(c)
  <1>1. rules \in Seq(Decision) /\ DOMAIN rules = 1..6 /\ Len(rules) = 6
    BY IssueRulesDecide
  <1>2. /\ rules[1].when <=> ForIssue(c) /\ ~c.confident
        /\ rules[2].when <=> ForIssue(c) /\ ~c.sufficient
        /\ rules[3].when <=> ForIssue(c) /\ c.area \notin IssueArea
        /\ rules[4].when <=> ForIssue(c) /\ c.draft # "full"
        /\ rules[5].when <=> ForIssue(c) /\ Bug(c)
        /\ rules[6].when <=> ForIssue(c)
    BY DEF IssueRules, Rule, ForIssue
  <1>3. /\ rules[1].route = "needs_human" /\ rules[2].route = "needs_human"
        /\ rules[5].route = "issue_required" /\ rules[6].route = "issue_required"
        /\ NoGap(rules[1]) /\ NoGap(rules[2]) /\ NoGap(rules[5]) /\ NoGap(rules[6])
    BY DEF IssueRules, Rule, NoGap
  <1>4. ForIssue(c) /\ c.sufficient => c.area \in IssueArea /\ c.draft = "full"
    BY DEF Valid, ForIssue, IssueCandidate, ExtensionSignal
  <1> HIDE DEF rules
  <1>5. ~ForIssue(c) => NoneApplies(rules)
    BY <1>1, <1>2 DEF NoneApplies
  <1>6. ASSUME ForIssue(c)
        PROVE  \E r : Decides(rules, r) /\ Issuable(r, c)
    <2>1. \E i \in DOMAIN rules : IsFirst(rules, i)
      <3>1. ~NoneApplies(rules)
        BY <1>1, <1>2, <1>6 DEF NoneApplies
      <3>2. Len(rules) <= 6
        BY <1>1
      <3> QED
        BY <1>1, <3>1, <3>2, SomeDecides
    <2>2. PICK i \in 1..6 : IsFirst(rules, i)
      BY <1>1, <2>1
    <2>3. Decides(rules, rules[i])
      BY <1>1, <2>2 DEF Decides
    <2>4. /\ rules[i].when
          /\ \A j \in 1..6 : rules[j].when => i <= j
      BY <1>1, <2>2 DEF IsFirst
    <2>5. CASE ~c.confident \/ ~c.sufficient
      <3>1. i = 1 \/ i = 2
        BY <1>2, <1>6, <2>4, <2>5
      <3> QED
        BY <1>3, <2>3, <2>5, <3>1 DEF Issuable
    <2>6. CASE c.confident /\ c.sufficient
      <3>1. i = 5 \/ i = 6
        BY <1>2, <1>4, <1>6, <2>4, <2>6
      <3> QED
        BY <1>3, <2>3, <2>6, <3>1 DEF Issuable
    <2> QED
      BY <2>5, <2>6
  <1> QED
    BY <1>1, <1>5, <1>6 DEF rules

\* Evidence that the reporter gave.
Shown(c, t) == Bug(c) /\ (Evidence(t, "crash") \/ Evidence(t, "formula"))

LEMMA EvidenceDecides ==
    ASSUME NEW c \in GateClassification, NEW t \in Tasks
    PROVE  /\ EvidenceRules(c, t) \in Seq(Decision)
           /\ ~Shown(c, t) => NoneApplies(EvidenceRules(c, t))
           /\ Shown(c, t) => \E r : /\ Decides(EvidenceRules(c, t), r) /\ NoGap(r)
                                    /\ r.route = "accepted_backend_bug"
  <1> DEFINE rules == EvidenceRules(c, t)
  <1>0. rules[1] \in Decision /\ rules[2] \in Decision
    BY RuleDecides DEF EvidenceRules, GateRoute, Reason, Bug
  <1>1. /\ rules \in Seq(Decision) /\ DOMAIN rules = 1..2 /\ Len(rules) = 2
    <2>1. DOMAIN rules = 1..2 /\ Len(rules) = 2
      BY DEF EvidenceRules
    <2> QED
      BY <1>0, <2>1 DEF EvidenceRules
  <1>2. \A i \in 1..2 : rules[i].route = "accepted_backend_bug" /\ NoGap(rules[i])
    BY DEF EvidenceRules, Rule, NoGap
  <1>3. Shown(c, t) <=> rules[1].when \/ rules[2].when
    BY DEF EvidenceRules, Rule, Shown
  <1> HIDE DEF rules
  <1>4. Shown(c, t) <=> ~NoneApplies(rules)
    BY <1>1, <1>3 DEF NoneApplies
  <1>5. ASSUME Shown(c, t)
        PROVE  \E r : Decides(rules, r) /\ NoGap(r) /\ r.route = "accepted_backend_bug"
    <2>1. \E i \in DOMAIN rules : IsFirst(rules, i)
      BY <1>1, <1>4, <1>5, SomeDecides
    <2> QED
      BY <1>1, <1>2, <2>1 DEF Decides
  <1> QED
    BY <1>1, <1>4, <1>5 DEF rules
\* What the classification alone makes worth a repair.
ForRepair(c, t) == /\ c.confident /\ (c.sufficient \/ (Bug(c) /\ ReproducibleMinimum(c, t)))
                   /\ Bug(c) /\ c.category \in BACKEND_CATEGORY_ALLOWLIST

LEMMA RepairDecides ==
    ASSUME NEW c \in GateClassification, NEW t \in Tasks
    PROVE  /\ RepairRules(c, t) \in Seq(Decision)
           /\ \E r : /\ Decides(RepairRules(c, t), r) /\ NoGap(r)
                     /\ r.route # "issue_required"
                     /\ r.route = "accepted_backend_bug" <=> ForRepair(c, t)
  <1> DEFINE rules == RepairRules(c, t)
  <1>0. \A i \in 1..5 : rules[i] \in Decision
    <2>1. rules[1] \in Decision /\ rules[2] \in Decision
      BY RuleDecides DEF RepairRules, GateRoute, Reason, GateClassification
    <2>2. rules[3] \in Decision /\ rules[4] \in Decision
      BY RuleDecides DEF RepairRules, GateRoute, Reason
    <2>3. rules[5] \in Decision
      BY RuleDecides DEF RepairRules, GateRoute, Reason
    <2> QED
      BY <2>1, <2>2, <2>3
  <1>1. /\ rules \in Seq(Decision) /\ DOMAIN rules = 1..5 /\ Len(rules) = 5
    <2> DEFINE list == <<rules[1], rules[2], rules[3], rules[4], rules[5]>>
    <2>1. rules = list
      BY DEF RepairRules
    <2> HIDE DEF rules
    <2>2. list \in Seq(Decision) /\ DOMAIN list = 1..5 /\ Len(list) = 5
      BY <1>0, FiveRules
    <2> HIDE DEF list
    <2> QED
      BY <2>1, <2>2
  <1>2. /\ rules[1].when <=> ~c.confident
        /\ rules[2].when <=> ~c.sufficient /\ ~(Bug(c) /\ ReproducibleMinimum(c, t))
        /\ rules[3].when <=> ~Bug(c)
        /\ rules[4].when <=> c.category \notin BACKEND_CATEGORY_ALLOWLIST
        /\ rules[5].when
    BY DEF RepairRules, Rule
  <1>3. /\ \A i \in 1..4 : rules[i].route = "needs_human"
        /\ rules[5].route = "accepted_backend_bug"
        /\ \A i \in 1..5 : NoGap(rules[i])
    BY DEF RepairRules, Rule, NoGap
  <1> HIDE DEF rules
  <1>4. PICK i \in 1..5 : IsFirst(rules, i)
    <2>1. ~NoneApplies(rules)
      BY <1>1, <1>2 DEF NoneApplies
    <2>2. Len(rules) <= 6
      BY <1>1
    <2> QED
      BY <1>1, <2>1, <2>2, SomeDecides
  <1>5. Decides(rules, rules[i])
    BY <1>1, <1>4 DEF Decides
  <1>6. /\ rules[i].when
        /\ \A j \in 1..5 : rules[j].when => i <= j
    BY <1>1, <1>4 DEF IsFirst
  <1>7. i = 5 <=> ForRepair(c, t)
    BY <1>2, <1>6 DEF ForRepair
  <1>8. rules[i].route = "accepted_backend_bug" <=> i = 5
    BY <1>3
  <1>9. rules[i].route # "issue_required"
    BY <1>3
  <1> QED
    BY <1>1, <1>3, <1>5, <1>7, <1>8, <1>9 DEF rules

\* What the rules, in the order of the code, make of a valid classification.
LEMMA RulesDecide ==
    ASSUME NEW c \in GateClassification, Valid(c), NEW t \in Tasks
    PROVE  LET r == FirstRule(Rules(c, t))
           IN  /\ NoGap(r)
               /\ r.route = "issue_required" <=>
                      ~Doubted(c) /\ ~Blocked(c) /\ ForIssue(c) /\ c.confident /\ c.sufficient
               /\ r.route = "accepted_backend_bug" <=>
                      /\ ~Doubted(c) /\ ~Blocked(c) /\ ~ForIssue(c)
                      /\ Shown(c, t) \/ ForRepair(c, t)
  <1> DEFINE J == JevRules(c)
             B == BlockingRules(c)
             I == IssueRules(c)
             E == EvidenceRules(c, t)
             R == RepairRules(c, t)
             F == J \o B
             L == F \o I
             K == L \o E
             Right(r) == /\ NoGap(r)
                         /\ r.route = "issue_required" <=>
                                /\ ~Doubted(c) /\ ~Blocked(c) /\ ForIssue(c)
                                /\ c.confident /\ c.sufficient
                         /\ r.route = "accepted_backend_bug" <=>
                                /\ ~Doubted(c) /\ ~Blocked(c) /\ ~ForIssue(c)
                                /\ Shown(c, t) \/ ForRepair(c, t)
  <1>1. J \in Seq(Decision) /\ B \in Seq(Decision) /\ E \in Seq(Decision) /\ R \in Seq(Decision)
    BY JevDecides, BlockingDecides, EvidenceDecides, RepairDecides
  <1>2. I \in Seq(Decision)
    BY IssueRulesDecide
  <1>3. Rules(c, t) = K \o R
    BY DEF Rules
  <1>4. /\ ~Doubted(c) => NoneApplies(J)
        /\ Doubted(c) => \E r : Decides(J, r) /\ Harmless(r)
        /\ ~Blocked(c) => NoneApplies(B)
        /\ Blocked(c) => \E r : Decides(B, r) /\ Harmless(r)
    BY JevDecides, BlockingDecides
  <1>5. ~Blocked(c) =>
            /\ ~ForIssue(c) => NoneApplies(I)
            /\ ForIssue(c) => \E r : Decides(I, r) /\ Issuable(r, c)
    BY IssueDecides
  <1>6. /\ ~Shown(c, t) => NoneApplies(E)
        /\ Shown(c, t) => \E r : /\ Decides(E, r) /\ NoGap(r)
                                /\ r.route = "accepted_backend_bug"
    BY EvidenceDecides
  <1>7. \E r : /\ Decides(R, r) /\ NoGap(r) /\ r.route # "issue_required"
               /\ r.route = "accepted_backend_bug" <=> ForRepair(c, t)
    BY RepairDecides
  <1> HIDE DEF J, B, I, E, R
  <1>8. /\ F \in Seq(Decision) /\ L \in Seq(Decision) /\ K \in Seq(Decision)
        /\ K \o R \in Seq(Decision)
    <2>1. F \in Seq(Decision)
      BY <1>1, ConcatDecides
    <2> HIDE DEF F
    <2>2. L \in Seq(Decision)
      BY <1>2, <2>1, ConcatDecides
    <2> HIDE DEF L
    <2>3. K \in Seq(Decision)
      BY <1>1, <2>2, ConcatDecides
    <2> HIDE DEF K
    <2>4. K \o R \in Seq(Decision)
      BY <1>1, <2>3, ConcatDecides
    <2> QED
      BY <2>1, <2>2, <2>3, <2>4
  <1>a. ASSUME NEW r
        PROVE  /\ Decides(J, r) => Decides(F, r)
               /\ NoneApplies(J) /\ Decides(B, r) => Decides(F, r)
               /\ Decides(F, r) => Decides(L, r)
               /\ NoneApplies(F) /\ Decides(I, r) => Decides(L, r)
               /\ Decides(L, r) => Decides(K, r)
               /\ NoneApplies(L) /\ Decides(E, r) => Decides(K, r)
               /\ Decides(K, r) => Decides(Rules(c, t), r)
               /\ NoneApplies(K) /\ Decides(R, r) => Decides(Rules(c, t), r)
    <2>1. /\ Decides(J, r) => Decides(F, r)
          /\ NoneApplies(J) /\ Decides(B, r) => Decides(F, r)
      BY <1>1, ConcatDecides
    <2> HIDE DEF F
    <2>2. /\ Decides(F, r) => Decides(L, r)
          /\ NoneApplies(F) /\ Decides(I, r) => Decides(L, r)
      BY <1>2, <1>8, ConcatDecides
    <2> HIDE DEF L
    <2>3. /\ Decides(L, r) => Decides(K, r)
          /\ NoneApplies(L) /\ Decides(E, r) => Decides(K, r)
      BY <1>1, <1>8, ConcatDecides
    <2> HIDE DEF K
    <2>4. /\ Decides(K, r) => Decides(K \o R, r)
          /\ NoneApplies(K) /\ Decides(R, r) => Decides(K \o R, r)
      BY <1>1, <1>8, ConcatDecides
    <2> QED
      BY <1>3, <2>1, <2>2, <2>3, <2>4
  <1>b. /\ NoneApplies(J) /\ NoneApplies(B) => NoneApplies(F)
        /\ NoneApplies(F) /\ NoneApplies(I) => NoneApplies(L)
        /\ NoneApplies(L) /\ NoneApplies(E) => NoneApplies(K)
    <2>1. NoneApplies(J) /\ NoneApplies(B) => NoneApplies(F)
      BY <1>1, ConcatDecides
    <2> HIDE DEF F
    <2>2. NoneApplies(F) /\ NoneApplies(I) => NoneApplies(L)
      BY <1>2, <1>8, ConcatDecides
    <2> HIDE DEF L
    <2>3. NoneApplies(L) /\ NoneApplies(E) => NoneApplies(K)
      BY <1>1, <1>8, ConcatDecides
    <2> QED
      BY <2>1, <2>2, <2>3
  <1>c. ASSUME NEW r, Decides(Rules(c, t), r), Right(r)
        PROVE  Right(FirstRule(Rules(c, t)))
    <2>1. FirstRule(Rules(c, t)) = r
      <3> HIDE DEF K
      <3> QED
        BY <1>3, <1>8, <1>c, FirstDecides
    <2> QED
      BY <1>c, <2>1
  <1> HIDE DEF F, L, K
  <1>11. CASE Doubted(c)
    <2>1. PICK r : Decides(J, r) /\ Harmless(r)
      BY <1>4, <1>11
    <2>2. Right(r)
      BY <1>11, <2>1 DEF Harmless, NoGap
    <2> QED
      BY <1>a, <1>c, <2>1, <2>2
  <1>12. CASE ~Doubted(c) /\ Blocked(c)
    <2>1. PICK r : Decides(B, r) /\ Harmless(r)
      BY <1>4, <1>12
    <2>2. Right(r)
      BY <1>12, <2>1 DEF Harmless, NoGap
    <2> QED
      BY <1>4, <1>12, <1>a, <1>c, <2>1, <2>2
  <1>14. CASE ~Doubted(c) /\ ~Blocked(c) /\ ForIssue(c)
    <2>1. PICK r : Decides(I, r) /\ Issuable(r, c)
      BY <1>5, <1>14
    <2>2. Right(r)
      BY <1>14, <2>1 DEF Issuable
    <2> QED
      BY <1>4, <1>14, <1>a, <1>b, <1>c, <2>1, <2>2
  <1>16. CASE ~Doubted(c) /\ ~Blocked(c) /\ ~ForIssue(c) /\ Shown(c, t)
    <2>1. PICK r : Decides(E, r) /\ NoGap(r) /\ r.route = "accepted_backend_bug"
      BY <1>6, <1>16
    <2>2. Right(r)
      BY <1>16, <2>1
    <2> QED
      BY <1>4, <1>5, <1>16, <1>a, <1>b, <1>c, <2>1, <2>2
  <1>17. CASE ~Doubted(c) /\ ~Blocked(c) /\ ~ForIssue(c) /\ ~Shown(c, t)
    <2>1. PICK r : /\ Decides(R, r) /\ NoGap(r) /\ r.route # "issue_required"
                   /\ r.route = "accepted_backend_bug" <=> ForRepair(c, t)
      BY <1>7
    <2>2. Right(r)
      BY <1>17, <2>1
    <2> QED
      BY <1>4, <1>5, <1>6, <1>17, <1>a, <1>b, <1>c, <2>1, <2>2
  <1> QED
    BY <1>11, <1>12, <1>14, <1>16, <1>17
-----------------------------------------------------------------------------
(* What comes of a classification *)

\* What a classifier may have answered when the policy has seen it.
Answered(c) == c \in GateClassification /\ Valid(c)

\* A stored classification is the policy's work on an answer.
ClassifiedByPolicy ==
    /\ task \in Tasks
    /\ Classified => \E c, calls : Answered(c) /\ result = apply_gate_policy(c, task, calls)

LEMMA NormalizeAnswers ==
    ASSUME NEW c, Answered(c)
    PROVE  Answered(_normalize_classification(c))
  <1> DEFINE n == _normalize_classification(c)
  <1>1. Valid(n)
    BY NormalizeKeepsValid DEF Answered
  <1>2. n \in GateClassification
    <2>1. CASE c.injected
      BY <2>1 DEF Answered, _normalize_classification, Blocked, GateClassification, GateArea,
                  GateCategory
    <2>2. CASE ~c.injected /\ Blocked(c)
      BY <2>2 DEF Answered, _normalize_classification, Blocked, GateClassification, GateArea,
                  GateCategory
    <2>3. CASE ~Blocked(c) /\ c.category = "visual_quality"
      BY <2>3 DEF Answered, _normalize_classification, Blocked, GateClassification, GateArea,
                  GateCategory, GateIntent
    <2>4. CASE ~Blocked(c) /\ c.category # "visual_quality" /\ c.intent = "feature_request"
      BY <2>4 DEF Answered, _normalize_classification, Blocked, GateClassification, GateArea,
                  GateCategory
    <2>5. CASE /\ ~Blocked(c) /\ c.category # "visual_quality" /\ c.intent = "bug_report"
               /\ ExtensionSignal(c)
      BY <2>5 DEF Answered, _normalize_classification, Blocked, GateClassification, GateArea,
                  GateCategory
    <2>6. CASE /\ ~Blocked(c) /\ c.intent = "bug_report" /\ ~ExtensionSignal(c)
               /\ c.area = "unknown" /\ c.category \in BACKEND_CATEGORY_ALLOWLIST
      BY <2>6 DEF Answered, _normalize_classification, Blocked, GateClassification, GateArea,
                  ExtensionSignal
    <2> QED
      BY <2>1, <2>2, <2>3, <2>4, <2>5, <2>6
         DEF Answered, _normalize_classification, Blocked, ExtensionSignal
  <1> QED
    BY <1>1, <1>2 DEF Answered

LEMMA ClassifiedStep ==
    ASSUME ClassifiedByPolicy, [Next]_vars
    PROVE  ClassifiedByPolicy'
  <1>1. task' = task
    BY DEF Next, vars, Check, JevUnavailable, JevMissing, StateUnreadable, JevAnswers,
           ModelUnavailable, ModelRefuses, ModelAnswersBadly, ModelAnswers, Route
  <1>2. task' \in Tasks
    BY <1>1 DEF ClassifiedByPolicy
  <1> SUFFICES ASSUME Classified'
               PROVE  \E c, calls : Answered(c) /\ result' = apply_gate_policy(c, task, calls)
    BY <1>1, <1>2 DEF ClassifiedByPolicy
  <1>3. pc' \in {"stored", "routed"} /\ HasClassification(result')
    BY DEF Classified, HasClassification
  <1>4. CASE UNCHANGED vars \/ Route
    <2>1. result' = result /\ pc \in {"stored", "routed"}
      BY <1>3, <1>4 DEF vars, Route, Goto
    <2>2. Classified
      BY <1>3, <2>1 DEF Classified
    <2> QED
      BY <2>1, <2>2 DEF ClassifiedByPolicy
  <1>5. CASE Check
    <2>1. PICK route : result' = Terminal(route)
      BY <1>3, <1>5, GateAssumption DEF Check, Store, Goto, GateAssumption
    <2>2. ~HasClassification(Terminal(route))
      BY DEF HasClassification, Terminal
    <2> QED
      BY <1>3, <2>1, <2>2
  <1>6. ASSUME NEW a \in JevAnswer, JevAnswers(a)
        PROVE  \E c, calls : Answered(c) /\ result' = apply_gate_policy(c, task, calls)
    <2> DEFINE c == _classification_from_answers(a)
    <2>1. Valid(c) /\ result' = apply_gate_policy(c, task, 1)
      BY <1>3, <1>6 DEF JevAnswers, JevFailed, Store, Goto
    <2>2. c \in GateClassification
      BY AnswersAreClassifications
    <2> QED
      BY <2>1, <2>2 DEF Answered
  <1>7. ASSUME NEW c \in ModelAnswer, ModelAnswers(c)
        PROVE  \E d, calls : Answered(d) /\ result' = apply_gate_policy(d, task, calls)
    <2>1. result' = apply_gate_policy(c, task, format + 1)
      BY <1>7 DEF ModelAnswers, Store
    <2>2. c \in GateClassification /\ Valid(c)
      BY AnswersAreClassifications
    <2> QED
      BY <2>1, <2>2 DEF Answered
  <1>8. ~(JevUnavailable \/ JevMissing \/ StateUnreadable \/ ModelUnavailable
          \/ ModelRefuses \/ ModelAnswersBadly)
    BY <1>3 DEF JevUnavailable, JevFailed, JevMissing, StateUnreadable, ModelUnavailable,
                ModelRefuses, ModelAnswersBadly, FormatRefused, Goto
  <1> QED
    BY <1>4, <1>5, <1>6, <1>7, <1>8 DEF Next

LEMMA ClassifiedAlways == Spec => []ClassifiedByPolicy
  <1>1. Init => ClassifiedByPolicy
    BY DEF Init, ClassifiedByPolicy, Classified
  <1> QED
    BY <1>1, ClassifiedStep, PTL DEF Spec

\* What the policy makes of an answer.
LEMMA PolicyDecides ==
    ASSUME NEW d, Answered(d), NEW t \in Tasks, NEW calls
    PROVE  LET r == apply_gate_policy(d, t, calls)
               c == r.classification
           IN  /\ NoGap(r)
               /\ r.route = "accepted_backend_bug" <=> WorthRepair(c, t)
               /\ r.route = "issue_required" <=> WorthIssue(c)
  <1> DEFINE r == apply_gate_policy(d, t, calls)
             c == _normalize_classification(d)
             first == FirstRule(Rules(c, t))
  <1>1. r.classification = c /\ r.route = first.route /\ r.reason = first.reason
    BY DEF apply_gate_policy
  <1>2. Answered(c)
    BY NormalizeAnswers
  <1> HIDE DEF c
  <1>3. c.injected => Blocked(c)
    BY DEF Blocked
  <1>4. Undoubted(c) <=> ~Doubted(c)
    BY DEF Undoubted, Doubted
  <1>5. (Bug(c) \/ c.intent = "feature_request") /\ ~c.injected => ~Blocked(c)
    BY DEF Blocked, Bug
  <1>6. WorthIssue(c) <=> /\ ~Doubted(c) /\ ~Blocked(c) /\ ForIssue(c)
                          /\ c.confident /\ c.sufficient
    BY <1>3, <1>4, <1>5 DEF WorthIssue, ForIssue
  <1>7. WorthRepair(c, t) <=> /\ ~Doubted(c) /\ ~Blocked(c) /\ ~ForIssue(c)
                              /\ Shown(c, t) \/ ForRepair(c, t)
    BY <1>3, <1>4, <1>5 DEF WorthRepair, ForIssue, Shown, ForRepair, Bug
  <1>8. /\ NoGap(first)
        /\ first.route = "issue_required" <=> WorthIssue(c)
        /\ first.route = "accepted_backend_bug" <=> WorthRepair(c, t)
    BY <1>2, <1>6, <1>7, RulesDecide DEF Answered
  <1> QED
    BY <1>1, <1>8 DEF NoGap

\* Whatever the classifiers answer, the schema that validated the answer and the rules that
\* read it agree on when an issue has an area and a draft (validate_issue_draft_fields,
\* apply_gate_policy).
THEOREM SchemaAgrees == Spec => []SchemaAgreesWithPolicy
  <1>1. ClassifiedByPolicy => SchemaAgreesWithPolicy
    BY PolicyDecides DEF ClassifiedByPolicy, SchemaAgreesWithPolicy, NoGap
  <1> QED
    BY <1>1, ClassifiedAlways, PTL

\* A feedback is repaired exactly if it is worth a repair, and becomes an issue exactly if it
\* is worth one, for every feedback and every answer (apply_gate_policy).
THEOREM WorkWarranted == Spec => []WorkIsWarranted
  <1>1. ClassifiedByPolicy => WorkIsWarranted
    <2> SUFFICES ASSUME ClassifiedByPolicy, Classified
                 PROVE  LET c == result.classification
                        IN  /\ result.route = "accepted_backend_bug" <=> WorthRepair(c, task)
                            /\ result.route = "issue_required" <=> WorthIssue(c)
      BY DEF WorkIsWarranted
    <2>1. PICK d, calls : Answered(d) /\ result = apply_gate_policy(d, task, calls)
      BY DEF ClassifiedByPolicy
    <2> QED
      BY <2>1, PolicyDecides DEF ClassifiedByPolicy
  <1> QED
    BY <1>1, ClassifiedAlways, PTL

\* A classifier is asked only about what the checks without a model let through.
AskedOnly == pc \in {"jev", "model"} \/ Classified
                 => deterministic_gate_result(task, duplicate) = {}

LEMMA AskedStep ==
    ASSUME AskedOnly, [Next]_vars
    PROVE  AskedOnly'
  <1>1. task' = task /\ duplicate' = duplicate
    BY DEF Next, vars, Check, JevUnavailable, JevMissing, StateUnreadable, JevAnswers,
           ModelUnavailable, ModelRefuses, ModelAnswersBadly, ModelAnswers, Route
  <1>2. deterministic_gate_result(task, duplicate)' = deterministic_gate_result(task, duplicate)
    BY <1>1
  <1> SUFFICES ASSUME pc' \in {"jev", "model"} \/ Classified'
               PROVE  deterministic_gate_result(task, duplicate) = {}
    BY <1>2 DEF AskedOnly
  <1>3. CASE Check
    <2>1. CASE \E route \in deterministic_gate_result(task, duplicate) : Store(Terminal(route))
      BY <2>1 DEF Store, Terminal, Goto, Classified, HasClassification
    <2> QED
      BY <1>3, <2>1 DEF Check
  <1>4. CASE UNCHANGED vars \/ Route
    <2>1. result' = result /\ (pc' = pc \/ (pc = "stored" /\ pc' \in {"routed", "failed"}))
      BY <1>4 DEF vars, Route, Goto
    <2> QED
      BY <2>1 DEF AskedOnly, Classified, HasClassification
  <1>5. CASE pc \in {"jev", "model"}
    BY <1>5 DEF AskedOnly
  <1> QED
    BY <1>3, <1>4, <1>5 DEF Next, JevUnavailable, JevMissing, StateUnreadable, JevAnswers,
           ModelUnavailable, ModelRefuses, ModelAnswersBadly, ModelAnswers

LEMMA AskedAlways == Spec => []AskedOnly
  <1>1. Init => AskedOnly
    BY DEF Init, AskedOnly, Classified
  <1> QED
    BY <1>1, AskedStep, PTL DEF Spec

\* Without Markdown only a feedback filed as a feature goes to repair, and then as a crash
\* unless it is sufficient of itself (deterministic_gate_result, apply_gate_policy).
THEOREM RepairedWithoutMarkdown == Spec => []RepairWithoutMarkdown
  <1>1. ClassifiedByPolicy /\ AskedOnly => RepairWithoutMarkdown
    <2> DEFINE c == result.classification
    <2> SUFFICES ASSUME ClassifiedByPolicy, AskedOnly, Classified,
                        result.route = "accepted_backend_bug", task.markdown = "blank"
                 PROVE  /\ task.type = "feature"
                        /\ c.sufficient \/ c.category = "conversion_crash"
      BY DEF RepairWithoutMarkdown
    <2>1. task \in Tasks /\ deterministic_gate_result(task, duplicate) = {}
      BY DEF ClassifiedByPolicy, AskedOnly
    <2>2. task.type = "feature"
      BY <2>1 DEF deterministic_gate_result, Tasks
    <2>3. PICK d, calls : Answered(d) /\ result = apply_gate_policy(d, task, calls)
      BY DEF ClassifiedByPolicy
    <2>4. WorthRepair(c, task)
      BY <2>1, <2>3, PolicyDecides
    <2> QED
      BY <2>2, <2>4 DEF WorthRepair, Evidence, ReproducibleMinimum
  <1> QED
    BY <1>1, ClassifiedAlways, AskedAlways, PTL
=============================================================================
