----------------------------- MODULE Publishing -----------------------------
(***************************************************************************)
(* Publication as a whole: processes call the two publishers for the       *)
(* feedback rows that are ready (graph nodes publish_pull_request,         *)
(* publish_issue and their finish nodes), crash, resume and retry; a stale *)
(* base sends the feedback back for another run, with another patch.       *)
(* FeedbackRun takes a whole call for one step; here every request is one. *)
(***************************************************************************)
EXTENDS PullRequestPublisher, IssuePublisher

CONSTANTS Batches,       \* sets of feedback rows that are under way together
          IssueWorkers,  \* processes that publish issues
          MaxRetries     \* bound: retries of a failed publication

ASSUME PublishingAssumption == /\ Batches \subseteq SUBSET (PullFeedback \cup IssueFeedback)
                               /\ IssueWorkers \subseteq Workers
                               /\ MaxRetries \in Nat

VARIABLE task            \* the feedback row as far as publishing goes

vars == <<repository, call, token, task>>

Feedback == PullFeedback \cup IssueFeedback

Task == [status : {"absent", "waiting", "publishing", "opened", "failed", "needs_human"},
         patch : Patches \cup {"none"}, cat : Categories \cup {"none"},
         base : 0..MaxMoves, requeues : 0..1, retries : 0..MaxRetries]

\* Branches, pull requests, issues, calls and rows have the shapes of the
\* GitHub payloads and of PublicationRequest; a row is requeued at most once.
TypeOK == /\ RepositoryTypeOK
          /\ CallsTypeOK
          /\ task \in [Feedback -> Task]

Init == /\ RepositoryInit
        /\ CallsInit
        /\ \E batch \in Batches :
              task = [f \in Feedback |->
                        [status |-> IF f \notin batch THEN "absent"
                                    ELSE IF f \in PullFeedback THEN "waiting" ELSE "publishing",
                         patch |-> "none", cat |-> "none", base |-> 0,
                         requeues |-> 0, retries |-> 0]]

\* A run gates the feedback and validates a patch against the main of the moment.
RunValidates(f) ==
    /\ f \in PullFeedback /\ task[f].status = "waiting"
    /\ \E p \in Patches, c \in Categories :
          task' = [task EXCEPT ![f].status = "publishing", ![f].patch = p,
                               ![f].cat = c, ![f].base = main]
    /\ UNCHANGED <<repository, call, token>>

\* A process starts or resumes the run at its publish node.
CallPublisher(w, f) ==
    /\ call[w].pc = "idle" /\ task[f].status = "publishing"
    /\ f \in IssueFeedback => w \in IssueWorkers
    /\ call' = [call EXCEPT ![w] = [NoCall EXCEPT !.pc = "token", !.f = f, !.page = 1,
                     !.patch = task[f].patch, !.cat = task[f].cat, !.base = task[f].base]]
    /\ UNCHANGED <<repository, token, task>>

\* Does the row still belong to the run this call was made for?
SameRun(w) == LET t == task[call[w].f] IN
    /\ t.status = "publishing"
    /\ t.patch = call[w].patch /\ t.cat = call[w].cat /\ t.base = call[w].base

\* A stale base sends the row back once, then to a person.
AfterStale(t) == IF t.requeues = 0
                 THEN [t EXCEPT !.status = "waiting", !.requeues = 1]
                 ELSE [t EXCEPT !.status = "needs_human"]

\* A caller that takes a conflict for "it is there already".
AfterConflictOpened(t, result) ==
    CASE result \in {"opened", "reused", "conflict"} -> [t EXCEPT !.status = "opened"]
      [] result = "stale" -> AfterStale(t)
      [] OTHER -> [t EXCEPT !.status = "failed"]

\* A caller that leaves a failed publication to the next poll.
AfterFailureAgain(t, result) ==
    CASE result \in {"opened", "reused"} -> [t EXCEPT !.status = "opened"]
      [] result = "stale" -> AfterStale(t)
      [] OTHER -> t

\* The row after a call that ended with this result.
After(t, result) == CASE result \in {"opened", "reused"} -> [t EXCEPT !.status = "opened"]
                      [] result = "stale" -> AfterStale(t)
                      [] OTHER -> [t EXCEPT !.status = "failed"]

\* The finish node, or the failure finalizer, of the run that owns the row.
Finish(w) ==
    /\ call[w].pc = "returned"
    /\ task' = IF SameRun(w) THEN [task EXCEPT ![call[w].f] = After(@, call[w].result)]
                             ELSE task
    /\ call' = [call EXCEPT ![w] = NoCall]
    /\ UNCHANGED <<repository, token>>

\* retry-publication: a maintainer reopens a publication that failed.
RetryPublication(f) ==
    /\ task[f].status = "failed" /\ task[f].retries < MaxRetries
    /\ task' = [task EXCEPT ![f].status = "publishing", ![f].retries = @ + 1]
    /\ UNCHANGED <<repository, call, token>>

\* A process dies; its providers' tokens die with it.
Crash(w) == /\ call[w].pc # "idle"
            /\ Fault("crash")
            /\ call' = [call EXCEPT ![w] = NoCall]
            /\ token' = [token EXCEPT ![w] = [k \in Kinds |-> NoToken]]
            /\ UNCHANGED <<main, branch, pulls, issues, late, landed, task>>

\* One step of the publisher a process is executing.
Step(w) == \/ GetToken(w) /\ UNCHANGED task
           \/ PublishStep(w) /\ UNCHANGED task
           \/ PublishIssueStep(w) /\ UNCHANGED task
           \/ RequestFails(w) /\ UNCHANGED task
           \/ Finish(w)

Next == \/ RepositoryNext /\ UNCHANGED <<call, token, task>>
        \/ \E f \in Feedback : RunValidates(f) \/ RetryPublication(f)
        \/ \E w \in Workers : \/ Step(w)
                              \/ TokenAges(w) /\ UNCHANGED task
                              \/ Crash(w)
                              \/ \E f \in Feedback : CallPublisher(w, f)

Spec == Init /\ [][Next]_vars

\* A process that runs keeps executing its call, and the scheduler keeps
\* claiming and resuming (Scheduler.run_forever); nobody has to retry.
FairSpec == /\ Spec
            /\ \A w \in Workers : WF_vars(Step(w))
            /\ \A f \in Feedback : /\ WF_vars(RunValidates(f))
                                   /\ WF_vars(\E w \in Workers : CallPublisher(w, f))

-----------------------------------------------------------------------------
(* Properties *)

\* A pull request shows the patch its marker names: its branch holds the
\* commit of that feedback and that patch, whoever created the branch and
\* whatever became of the run (github.py _verify_existing_branch).
PullShowsItsPatch ==
    \A i \in DOMAIN pulls : branch[pulls[i].head] = pulls[i].marker

\* A row is only recorded as opened when its pull request, with the marker of
\* the row's own patch, or its issue exists (finish_publication).
OpenedExists ==
    \A f \in Feedback : task[f].status = "opened" =>
        IF f \in PullFeedback
        THEN \E i \in DOMAIN pulls : pulls[i].marker = [f |-> f, patch |-> task[f].patch]
        ELSE IssuesOf(f) # {}

\* A feedback gets one issue through any number of retries and lost replies,
\* and one more at most for each creation that landed after the lookup that
\* was to recover it (github.py publish_issue).
OneIssuePerFeedback ==
    \A f \in IssueFeedback : Cardinality(IssuesOf(f)) <= 1 + landed[f]

\* A retry never takes what an earlier attempt of the same run left behind for
\* somebody else's: a call ends with PublicationConflictError because another patch
\* owns the branch, or because GitHub refused a request of it for reasons of its own
\* (_verify_existing_branch, _find_existing_pull and their callers).
ConflictIsReal ==
    \A w \in Workers : call[w].result = "conflict" /\ ~call[w].refused =>
        branch[HeadOf(w)] \notin {NoCommit, Mark(w)}

\* Publication driven by the scheduler comes to an end: published, given to a
\* person, or failed for a maintainer to look at.
EveryPublicationEnds ==
    \A f \in Feedback : <>[](task[f].status \in {"absent", "opened", "needs_human", "failed"})

\* One patch per branch, shown as what it is.
Once == INSTANCE PublishOnce WITH
    Owners <- Marker, Nobody <- NoCommit,
    owner <- branch,
    shown <- [b \in Branches |-> {pulls[i].marker : i \in PullsOf(b)}]
PublishesOnce == Once!Spec
=============================================================================
