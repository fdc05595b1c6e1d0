--------------------------- MODULE IssuePublisher ---------------------------
(***************************************************************************)
(* GitHubIssuePublisher.publish_issue: look the issue up page by page,     *)
(* create it if no page holds the marker, and look again when the creation *)
(* fails in any way.  The marker names the feedback, not the run.          *)
(***************************************************************************)
EXTENDS PublicationCalls

CONSTANT PageSize        \* issues on a page

ASSUME PageAssumption == PageSize \in Nat \ {0} /\ MaxPages \in Nat \ {0}

\* Is the page just read the last one?
LastPage(w) == PageIsShort(call[w].page, PageSize)

\* A limit one page too late.
LimitPassed(w) == call[w].page > MaxPages

LimitReached(w) == call[w].page = MaxPages

\* One page of _find_existing; none is what a lookup that found nothing does.
ReadPage(w, found, none) ==
    /\ \/ call[w].f \in Page(call[w].page, PageSize) /\ found
       \/ /\ call[w].f \notin Page(call[w].page, PageSize)
          /\ IF LastPage(w) THEN none
             ELSE IF LimitReached(w) THEN Return(w, "error")
             ELSE call' = [call EXCEPT ![w].page = @ + 1]
    /\ UNCHANGED <<main, branch, pulls, issues, late, landed>>

\* A publisher that creates before it looks.
LookUpAfterwards(w) == /\ Request(w, "lookup")
                       /\ Goto(w, "post_issue")
                       /\ UNCHANGED <<main, branch, pulls, issues, late, landed>>

LookUpIssue(w) == /\ Request(w, "lookup")
                  /\ ReadPage(w, Return(w, "reused"), Goto(w, "post_issue"))

Recover(w) == call' = [call EXCEPT ![w].pc = "recover", ![w].page = 1]

PostIssue(w) == /\ call[w].f \notin Unpublishable
                /\ Request(w, "post_issue")
                /\ OpenIssue(call[w].f)
                /\ Return(w, "opened")
                /\ UNCHANGED <<main, branch, pulls, late, landed>>

\* The issue is there, but the body of the answer is not JSON: nothing recovers that.
IssueUnreadable(w) ==
    /\ call[w].pc = "post_issue" /\ call[w].f \notin Unpublishable /\ Authorized(w)
    /\ Fault("lost") /\ OpenIssue(call[w].f)
    /\ Return(w, "error")
    /\ UNCHANGED <<main, branch, pulls, late, landed, token>>

\* build_issue_content finds a sensitive or an instruction pattern.
DraftRefused(w) == /\ call[w].pc = "post_issue" /\ call[w].f \in Unpublishable
                   /\ Return(w, "error")
                   /\ UNCHANGED <<repository, token>>

\* POST issues raised: refused, or carried out with its reply lost, or late.
PostIssueFails(w) ==
    /\ call[w].pc = "post_issue" /\ call[w].f \notin Unpublishable
    /\ \/ ~Authorized(w) /\ UNCHANGED <<issues, late, faults>>
       \/ Fault("refused") /\ UNCHANGED <<issues, late>>
       \/ Authorized(w) /\ Fault("lost") /\ OpenIssue(call[w].f) /\ UNCHANGED late
       \/ Authorized(w) /\ Delay("issue", call[w].f, NoCommit) /\ UNCHANGED issues
    /\ Recover(w)
    /\ UNCHANGED <<main, branch, pulls, landed, token>>

RecoverIssue(w) == /\ Request(w, "recover")
                   /\ ReadPage(w, Return(w, "reused"), Return(w, "error"))

PublishIssueStep(w) ==
    \/ LookUpIssue(w) \/ PostIssue(w) \/ IssueUnreadable(w) \/ DraftRefused(w)
    \/ PostIssueFails(w) \/ RecoverIssue(w)
=============================================================================
