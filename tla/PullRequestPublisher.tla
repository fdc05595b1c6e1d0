------------------------ MODULE PullRequestPublisher ------------------------
(***************************************************************************)
(* GitHubPullRequestPublisher.publish, one step per request to GitHub:     *)
(* find the pull request of this marker, compare main with the validated   *)
(* base, find or create the branch, open the pull request, and look once   *)
(* more when GitHub says there already is one.                             *)
(***************************************************************************)
EXTENDS PublicationCalls

Mark(w)  == [f |-> call[w].f, patch |-> call[w].patch]
HeadOf(w)  == Branch(call[w].f, call[w].cat)

\* Pull requests of the head, in any state.
Known(w) == PullsOf(HeadOf(w))

Mine(w) == {i \in Known(w) : pulls[i].marker = Mark(w)}

\* _find_existing_pull, before anything is created and after a conflict.
FindPull(w) ==
    /\ Request(w, "find")
    /\ \/ Mine(w) # {} /\ Return(w, "reused")
       \/ Mine(w) = {} /\ Known(w) # {} /\ Return(w, "conflict")
       \/ Known(w) = {} /\ Goto(w, "main")
    /\ UNCHANGED <<main, branch, pulls, issues, late, landed>>

ReadMain(w) ==
    /\ Request(w, "main")
    /\ IF main # call[w].base THEN Return(w, "stale") ELSE Goto(w, "branch")
    /\ UNCHANGED <<main, branch, pulls, issues, late, landed>>

\* A publisher that takes any branch of that name for its own.
ReadBranchUnverified(w) ==
    /\ Request(w, "branch")
    /\ Goto(w, IF branch[HeadOf(w)] = NoCommit THEN "commit" ELSE "post")
    /\ UNCHANGED <<main, branch, pulls, issues, late, landed>>

ReadBranch(w) ==
    /\ Request(w, "branch")
    /\ Goto(w, IF branch[HeadOf(w)] = NoCommit THEN "commit" ELSE "verify")
    /\ UNCHANGED <<main, branch, pulls, issues, late, landed>>

\* A verification that asks for the feedback and not for the patch.
VerifiedByFeedback(w) == branch[HeadOf(w)].f = call[w].f

\* _verify_existing_branch: the commit's message holds this marker.
Verified(w) == branch[HeadOf(w)] = Mark(w)

VerifyBranch(w) ==
    /\ Request(w, "verify") \/ Request(w, "reverify")
    /\ IF Verified(w) THEN Goto(w, "post") ELSE Return(w, "conflict")
    /\ UNCHANGED <<main, branch, pulls, issues, late, landed>>

\* The blobs, the tree and the commit: objects nothing points to yet.
CreateCommit(w) ==
    /\ Request(w, "commit")
    /\ Goto(w, "ref")
    /\ UNCHANGED <<main, branch, pulls, issues, late, landed>>

\* POST git/refs.  422: the branch exists by now, or GitHub refuses otherwise.
PostRef(w) ==
    /\ \/ /\ Request(w, "ref")
          /\ IF branch[HeadOf(w)] = NoCommit
             THEN CreateRef(HeadOf(w), Mark(w)) /\ Goto(w, "post")
             ELSE UNCHANGED branch /\ Goto(w, "reref")
       \/ /\ call[w].pc = "ref" /\ Authorized(w) /\ Fault("refused")
          /\ Refused(w, "reref")
          /\ UNCHANGED <<branch, token>>
    /\ UNCHANGED <<main, pulls, issues, late, landed>>

\* The client gives the request up: it was carried out, or still will be.
RefReplyLost(w) ==
    /\ call[w].pc = "ref" /\ Authorized(w)
    /\ Return(w, "error")
    /\ \/ /\ Fault("lost") /\ branch[HeadOf(w)] = NoCommit
          /\ CreateRef(HeadOf(w), Mark(w))
          /\ UNCHANGED late
       \/ Delay("ref", HeadOf(w), Mark(w)) /\ UNCHANGED branch
    /\ UNCHANGED <<main, pulls, issues, landed, token>>

\* A branch that is still not there: the refusal of POST git/refs is raised again.
RereadRef(w) ==
    /\ Request(w, "reref")
    /\ IF branch[HeadOf(w)] = NoCommit THEN Return(w, "conflict") ELSE Goto(w, "reverify")
    /\ UNCHANGED <<main, branch, pulls, issues, late, landed>>

\* POST pulls.  422: there is an open pull request for the head.
PostPull(w) ==
    /\ call[w].patch \notin Unpublishable
    /\ \/ /\ Request(w, "post")
          /\ IF CanOpen(HeadOf(w))
             THEN OpenPull(HeadOf(w), Mark(w)) /\ Return(w, "opened")
             ELSE UNCHANGED pulls /\ Goto(w, "refind")
       \/ /\ call[w].pc = "post" /\ Authorized(w) /\ Fault("refused")
          /\ Refused(w, "refind")
          /\ UNCHANGED <<pulls, token>>
    /\ UNCHANGED <<main, branch, issues, late, landed>>

\* build_pull_request_body finds a sensitive pattern: the branch stays behind.
BodyRefused(w) ==
    /\ call[w].pc = "post" /\ call[w].patch \in Unpublishable
    /\ Return(w, "error")
    /\ UNCHANGED <<repository, token>>

PullReplyLost(w) ==
    /\ call[w].pc = "post" /\ call[w].patch \notin Unpublishable /\ Authorized(w)
    /\ Return(w, "error")
    /\ \/ /\ Fault("lost") /\ CanOpen(HeadOf(w))
          /\ OpenPull(HeadOf(w), Mark(w))
          /\ UNCHANGED late
       \/ Delay("pull", HeadOf(w), Mark(w)) /\ UNCHANGED pulls
    /\ UNCHANGED <<main, branch, issues, landed, token>>

\* A publisher that gives up when GitHub says the pull request exists.
RefindNothing(w) ==
    /\ Request(w, "refind")
    /\ Return(w, "conflict")
    /\ UNCHANGED <<main, branch, pulls, issues, late, landed>>

\* Another patch's pull request is a conflict; without any, the refusal of POST pulls,
\* which is one too, is raised again.
RefindPull(w) ==
    /\ Request(w, "refind")
    /\ Return(w, IF Mine(w) # {} THEN "reused" ELSE "conflict")
    /\ UNCHANGED <<main, branch, pulls, issues, late, landed>>

PublishStep(w) ==
    \/ FindPull(w) \/ ReadMain(w) \/ ReadBranch(w) \/ VerifyBranch(w)
    \/ CreateCommit(w) \/ PostRef(w) \/ RefReplyLost(w) \/ RereadRef(w)
    \/ PostPull(w) \/ BodyRefused(w) \/ PullReplyLost(w) \/ RefindPull(w)
=============================================================================
