----------------------- MODULE FeedbackOwnership_proofs -----------------------
(***************************************************************************)
(* Who owns what, for every set of rows, processes and faults: a claim     *)
(* token names one run of one feedback, and a run that got past its first  *)
(* node holds its feedback row until it has seen main leave its base       *)
(* behind.  No step shows that by itself, because a process decides on a   *)
(* row, a conclusion or a pull request some requests before it writes,     *)
(* and a checkpoint may bring the decision back to another process.  On    *)
(* it rest one pull request per feedback, the bound on stale runs, and     *)
(* that the rows implement FeedbackLifecycle.                              *)
(***************************************************************************)
EXTENDS FeedbackRun_proofs

\* A process that has no token in its hands.
Resting == {"idle", "claim"}

\* The statuses of a row that the next claim may give to somebody else.
Unowned == {"absent", "pending", "claimed"}

Holds(t) == Owns(t) /\ fb[run[t].fid].status \notin Unowned

Bound(t) == t \in moved \/ Holds(t)

\* Tokens are handed out once: runs and processes only know tokens there are, and
\* a run about to be created is nobody else's.
TokensInv ==
    /\ \A t \in Tokens : Created(t) => t <= claims
    /\ \A t \in Tokens : ~Created(t) => run[t].fid = NoFeedback
    /\ \A p \in Procs : proc[p].pc \notin Resting => proc[p].tok <= claims
    /\ \A p \in Procs : proc[p].pc = "create" => ~Created(proc[p].tok)
    /\ \A p, q \in Procs : proc[p].pc = "create" /\ proc[q].pc = "create" /\ p # q
                              => proc[p].tok # proc[q].tok
    /\ \A p \in Procs : proc[p].pc \notin Fresh => run[proc[p].tok].fid = proc[p].fid

\* A run that is to execute n next, having concluded out, has what it says it has.
Position(t, n, out) ==
    /\ out = "opened" => t \in pulls
    /\ out = "stale"  => t \in moved
    /\ n = "finish_publication" => out \in Dispositions
    /\ n = "finish_issue_publication" => t \in issues
    /\ n \notin {"start_gate", "end"} => Bound(t)

Saved(t) == Position(t, ckpt[t].node, ckpt[t].out)

InMemory(p) ==
    /\ proc[p].pc \in Fresh => proc[p].unsaved = FALSE
    /\ proc[p].pc \notin Fresh \cup {"save"} =>
          Position(proc[p].tok, proc[p].node, proc[p].out)
    /\ proc[p].pc = "save" => Position(proc[p].tok, Following(p), proc[p].out)
    /\ proc[p].pc \in {"runget", "patch"} /\ proc[p].mode = "graph" => Bound(proc[p].tok)

PositionsInv == (\A t \in Tokens : Saved(t)) /\ (\A p \in Procs : InMemory(p))

\* What a process may be about to write to a feedback row, or to its run.
Aim(p) ==
    /\ proc[p].pc \in {"get", "cas"} =>
          /\ proc[p].goal # "claimed"
          /\ proc[p].goal = "pending"      => proc[p].tok \in moved
          /\ proc[p].goal = "pr_opened"    => proc[p].tok \in pulls
          /\ proc[p].goal = "issue_opened" => proc[p].tok \in issues
    /\ proc[p].pc = "cas" =>
          /\ proc[p].mode = "reopen" => proc[p].seen = "failed"
          /\ proc[p].mode # "reopen" => CanMove(proc[p].seen, proc[p].goal)
          /\ proc[p].goal = "pending" /\ fb[proc[p].fid].token = proc[p].tok
                => fb[proc[p].fid].requeues = 0
    /\ proc[p].pc = "patch" /\ proc[p].goal = "stale_base" => proc[p].tok \in moved

AimsInv == \A p \in Procs : Aim(p)

\* The rows, the runs and GitHub.
PlacesInv ==
    /\ \A t \in pulls \cup issues \cup moved : Created(t)
    /\ \A t \in Tokens : run[t].status = "stale_base" => t \in moved
    /\ \A t \in moved : Holds(t) \/ fb[run[t].fid].requeues = 1
    /\ \A t, u \in moved : run[t].fid = run[u].fid /\ ~Holds(t) /\ ~Holds(u) => t = u

\* A row whose work is under way names the run, and one that reports a publication
\* names a run that has it.
RowsInv == \A f \in Feedback :
    /\ fb[f].status \in InFlight => fb[f].token \in Tokens /\ run[fb[f].token].fid = f
    /\ fb[f].status = "pr_opened"    => fb[f].token \in pulls
    /\ fb[f].status = "issue_opened" => fb[f].token \in issues

OwnershipInv == TokensInv /\ PositionsInv /\ AimsInv /\ PlacesInv /\ RowsInv
                /\ OnePullPerFeedback

-----------------------------------------------------------------------------
(* What a step may leave a process with *)

\* A step of p that only changes fields of its record.
LEMMA RecordStep ==
    ASSUME TypeInv, NEW p \in Procs, NEW r, proc' = [proc EXCEPT ![p] = r]
    PROVE  proc'[p] = r /\ \A q \in Procs \ {p} : proc'[q] = proc[q]
BY DEF TypeInv, ProcsOK

LEMMA ExecutingFields ==
    ASSUME TypeInv, NEW t \in Tokens, NEW f \in Feedback
    PROVE  /\ Executing(t, f) \in Process
           /\ Executing(t, f).pc = "node" /\ Executing(t, f).tok = t
           /\ Executing(t, f).fid = f /\ Executing(t, f).mode = "graph"
           /\ Executing(t, f).node = ckpt[t].node /\ Executing(t, f).out = ckpt[t].out
<1>1. Executing(t, f) \in Process
  BY ExecutingOK DEF ProcOK
<1> QED
  BY <1>1 DEF Executing, Idle

\* A process that has found a run knows nothing else of it.
LEMMA FoundFields ==
    ASSUME NEW t, NEW f
    PROVE  /\ Reopened(t, f).pc = "start" /\ Reopened(t, f).tok = t
           /\ Reopened(t, f).fid = f /\ Reopened(t, f).node = "end"
           /\ Reopened(t, f).out = "none"
BY DEF Reopened, Idle

LEMMA ResumingFields ==
    ASSUME NEW t
    PROVE  /\ Resuming(t).pc = "resume" /\ Resuming(t).tok = t
           /\ Resuming(t).fid = run[t].fid /\ Resuming(t).node = "end"
           /\ Resuming(t).out = "none"
BY DEF Resuming, Idle

\* An exception leaves a process idle, or finalizing the run it was working on.
LEMMA Raised ==
    ASSUME TypeInv, NEW p \in Procs, NEW e, Raise(p, e)
    PROVE  /\ \A q \in Procs \ {p} : proc'[q] = proc[q]
           /\ \/ proc'[p] = Idle
              \/ /\ proc[p].pc \notin {"claim", "create"}
                 /\ proc'[p].pc = "fail" /\ proc'[p].mode = "final"
                 /\ proc'[p].tok = proc[p].tok /\ proc'[p].fid = proc[p].fid
                 /\ proc'[p].node = proc[p].node /\ proc'[p].out = proc[p].out
<1>1. proc[p] \in Process /\ proc \in [Procs -> Process]
  BY DEF TypeInv, ProcsOK
<1> DEFINE failed == [proc[p] EXCEPT !.pc = "fail", !.mode = "final", !.err = e,
                                     !.seen = "none", !.goal = "none", !.unsaved = FALSE]
<1>2. \/ proc[p].pc \notin {"claim", "create"} /\ proc' = [proc EXCEPT ![p] = failed]
      \/ proc' = [proc EXCEPT ![p] = Idle]
  BY DEF Raise, BeforeGraph
<1>3. /\ failed.pc = "fail" /\ failed.mode = "final"
      /\ failed.tok = proc[p].tok /\ failed.fid = proc[p].fid
      /\ failed.node = proc[p].node /\ failed.out = proc[p].out
  BY <1>1 DEF Process
<1> HIDE DEF failed
<1> QED
  BY <1>1, <1>2, <1>3

-----------------------------------------------------------------------------
(* What a step may do to the tables *)

\* What may happen to a row, as far as ownership goes: nothing; it is submitted,
\* given up or claimed; or a process writes what it has aimed at.
RowSame(f) == /\ fb'[f].status = fb[f].status
              /\ fb'[f].token = fb[f].token
              /\ fb'[f].requeues = fb[f].requeues

RowQueued(f) ==
    /\ fb[f].status \in Unowned
    /\ fb'[f].requeues = fb[f].requeues
    /\ \/ fb'[f].status = "pending" /\ fb'[f].token = fb[f].token
       \/ fb'[f].status = "needs_human" /\ fb'[f].token = NoToken
       \/ fb'[f].status = "claimed" /\ fb'[f].token = claims + 1 /\ claims' = claims + 1

RowRequeued(f) ==
    /\ fb[f].status = "stale_base"
    /\ fb'[f].status = "pending" /\ fb'[f].token = NoToken /\ fb'[f].requeues = 1

WritesRow(p, f) ==
    /\ proc[p].pc = "cas" /\ proc[p].fid = f /\ Matches(p)
    /\ IF proc[p].seen = "stale_base" /\ proc[p].goal = "pending"
       THEN RowRequeued(f)
       ELSE /\ fb'[f].status = proc[p].goal
            /\ fb'[f].token = fb[f].token
            /\ fb'[f].requeues = fb[f].requeues

RowSteps(f) == RowSame(f) \/ RowQueued(f) \/ \E p \in Procs : WritesRow(p, f)

LEMMA GivenUpQueued ==
    ASSUME TypeInv, NEW gone \in SUBSET Feedback, NEW f \in Feedback,
           \A g \in gone : Claimable(g), fb'[f] = GivenUp(gone)[f]
    PROVE  RowSame(f) \/ RowQueued(f)
<1>1. fb[f] \in FeedbackRow
  BY DEF TypeInv, RowsOK
<1>2. CASE f \in gone
  BY <1>1, <1>2 DEF GivenUp, RowQueued, Claimable, Unowned, FeedbackRow
<1>3. CASE f \notin gone
  BY <1>3 DEF GivenUp, RowSame
<1> QED
  BY <1>2, <1>3

LEMMA ClaimQueued ==
    ASSUME TypeInv, NEW p \in Procs, NEW gone \in SUBSET Feedback, NEW g \in Feedback,
           \A h \in gone : Claimable(h), Claimable(g), Claim(p, g, gone),
           NEW f \in Feedback
    PROVE  RowSame(f) \/ RowQueued(f)
<1>1. fb[g] \in FeedbackRow
  BY DEF TypeInv, RowsOK
<1>2. f # g => fb'[f] = GivenUp(gone)[f]
  BY DEF Claim, Claimed, GivenUp
<1>3. fb'[g] = [fb[g] EXCEPT !.status = "claimed", !.token = claims + 1, !.lease = TRUE,
                             !.attempts = @ + 1, !.err = "none"]
  BY DEF Claim, Claimed, GivenUp
<1>4. CASE f = g
  BY <1>1, <1>3, <1>4 DEF Claim, RowQueued, Claimable, Unowned, FeedbackRow
<1> QED
  BY <1>2, <1>4, GivenUpQueued

LEMMA WritesOwnRow ==
    ASSUME TypeInv, NEW p \in Procs, proc[p].pc = "cas", Matches(p), fb' = Written(p)
    PROVE  WritesRow(p, proc[p].fid)
<1> DEFINE f == proc[p].fid
<1>1. fb[f] \in FeedbackRow /\ f \in Feedback /\ fb \in [Feedback -> FeedbackRow]
  BY Started DEF TypeInv, RowsOK
<1>2. CASE proc[p].seen = "stale_base" /\ proc[p].goal = "pending"
  <2>1. fb'[f] = [fb[f] EXCEPT !.status = "pending", !.token = NoToken, !.lease = FALSE,
                               !.requeues = 1, !.err = "none"]
    BY <1>1, <1>2 DEF Written
  <2>2. RowRequeued(f)
    BY <1>1, <1>2, <2>1 DEF RowRequeued, Matches, FeedbackRow
  <2> QED
    BY <1>2, <2>2 DEF WritesRow
<1>3. CASE ~(proc[p].seen = "stale_base" /\ proc[p].goal = "pending")
  <2>1. \E e : fb'[f] = [fb[f] EXCEPT !.status = proc[p].goal, !.lease = FALSE, !.err = e]
    BY <1>1, <1>3 DEF Written
  <2> QED
    BY <1>1, <1>3, <2>1 DEF WritesRow, FeedbackRow
<1> QED
  BY <1>2, <1>3

LEMMA WrittenRow ==
    ASSUME TypeInv, NEW p \in Procs, proc[p].pc = "cas", Matches(p), fb' = Written(p),
           NEW f \in Feedback
    PROVE  RowSame(f) \/ WritesRow(p, f)
<1>1. fb \in [Feedback -> FeedbackRow]
  BY DEF TypeInv, RowsOK
<1>2. CASE f # proc[p].fid
  BY <1>1, <1>2 DEF Written, RowSame
<1> QED
  BY <1>2, WritesOwnRow

LEMMA RowsStep ==
    ASSUME TypeInv, [Next]_vars, NEW f \in Feedback
    PROVE  RowSteps(f)
<1>p. Schedulers \subseteq Procs /\ Maintainers \subseteq Procs
  BY DEF Procs
<1>r. fb[f] \in FeedbackRow /\ fb \in [Feedback -> FeedbackRow]
  BY DEF TypeInv, RowsOK
<1>1. ASSUME NEW g \in Feedback, Submit(g) \/ ExpireLease(g)
      PROVE  RowSteps(f)
  <2>1. CASE Submit(g)
    BY <1>r, <2>1 DEF Submit, RowSteps, RowSame, RowQueued, Unowned, FeedbackRow
  <2>2. CASE ExpireLease(g)
    BY <1>r, <2>2 DEF ExpireLease, RowSteps, RowSame, FeedbackRow
  <2> QED
    BY <1>1, <2>1, <2>2
<1>2. ASSUME NEW p \in Procs, Poll(p)
      PROVE  UNCHANGED fb
  BY <1>2 DEF Poll, PollResume, PollEmpty
<1>3. ASSUME NEW p \in Procs, Command(p)
      PROVE  RowSteps(f)
  <2>1. ASSUME NEW t \in Tokens, ResumeById(p, t)
        PROVE  UNCHANGED fb
    BY <2>1 DEF ResumeById
  <2>2. ASSUME NEW g \in Feedback, ClaimById(p, g)
        PROVE  RowSteps(f)
    <3>1. Claimable(g) /\ (GiveUp(p, {g}) \/ Claim(p, g, {}))
      BY <2>2 DEF ClaimById
    <3>2. CASE GiveUp(p, {g})
      BY <3>1, <3>2, GivenUpQueued DEF GiveUp, RowSteps
    <3>3. CASE Claim(p, g, {})
      BY <3>1, <3>3, ClaimQueued DEF RowSteps
    <3> QED
      BY <3>1, <3>2, <3>3
  <2> QED
    BY <1>3, <2>1, <2>2 DEF Command, RowSteps, RowSame
<1>4. ASSUME NEW p \in Procs, Work(p)
      PROVE  RowSteps(f)
  <2>1. CASE ClaimNext(p)
    <3> DEFINE gone == {g \in Feedback : Exhausted(g)}
    <3>1. \A g \in gone : Claimable(g)
      BY DEF Exhausted
    <3>2. CASE GiveUp(p, gone)
      BY <3>1, <3>2, GivenUpQueued DEF GiveUp, RowSteps
    <3>3. ASSUME NEW g \in Feedback, Claimable(g), Claim(p, g, gone)
          PROVE  RowSteps(f)
      BY <3>1, <3>3, ClaimQueued DEF RowSteps
    <3> QED
      BY <2>1, <3>2, <3>3 DEF ClaimNext
  <2>2. CASE WriteFeedback(p)
    <3>1. UNCHANGED fb \/ (proc[p].pc = "cas" /\ Matches(p) /\ fb' = Written(p))
      BY <2>2 DEF WriteFeedback
    <3> QED
      BY <3>1, WrittenRow DEF RowSteps, RowSame
  <2>3. CASE ~ClaimNext(p) /\ ~WriteFeedback(p)
    <3>1. UNCHANGED fb
      BY <1>4, <2>3
         DEF Work, CreateRun, ReadRunToResume, ReadThread, StartGraph, ClassifyGate,
             PrepareSource, RepairAgent, ValidateFinal, PublishIssue, LookForPull,
             PostPull, PostFails, NothingPending, NodeFails, ArtifactMissing,
             ReadFeedback, FinalizeFailure, CheckTransition, CheckReopen,
             ReadRunInGraph, ReadRunToFail, ReadRunToReopen, PatchRun, NextNode
    <3> QED
      BY <3>1 DEF RowSteps, RowSame
  <2> QED
    BY <2>1, <2>2, <2>3
<1>5. ASSUME NEW p \in Procs, Faulty(p)
      PROVE  RowSteps(f)
  <2>1. UNCHANGED fb \/ (proc[p].pc = "cas" /\ Matches(p) /\ fb' = Written(p))
    BY <1>5 DEF Faulty, Crash, RepoError, LostReply
  <2> QED
    BY <2>1, WrittenRow DEF RowSteps, RowSame
<1>6. (\/ UNCHANGED vars \/ \E t \in Tokens : LoseArtifacts(t)
       \/ \E p \in Procs : PutCheckpoint(p))
         => UNCHANGED fb
  BY DEF vars, LoseArtifacts, PutCheckpoint
<1> QED
  BY <1>p, <1>1, <1>2, <1>3, <1>4, <1>5, <1>6 DEF Next, RowSteps, RowSame

\* What may happen to a run row.
RunSame(t) == run'[t].status = run[t].status /\ run'[t].fid = run[t].fid

CreatesRun(p, t) == /\ proc[p].pc = "create" /\ proc[p].tok = t /\ proc'[p].pc # "create"
                    /\ run'[t].status = "created" /\ run'[t].fid = proc[p].fid

PatchesRun(p, t) == /\ proc[p].pc = "patch" /\ proc[p].tok = t
                    /\ run'[t].status = proc[p].goal /\ run'[t].fid = run[t].fid

RunSteps(t) == RunSame(t) \/ \E p \in Procs : CreatesRun(p, t) \/ PatchesRun(p, t)

LEMMA CreatedRun ==
    ASSUME TypeInv, NEW p \in Procs, proc[p].pc = "create", proc'[p].pc # "create",
           run' = RunCreated(proc[p].tok, proc[p].fid), NEW t \in Tokens
    PROVE  RunSame(t) \/ CreatesRun(p, t)
<1>1. run \in [Tokens -> RunRow] /\ proc[p].tok \in Tokens
  BY Started DEF TypeInv, RunsOK
<1>2. CASE t = proc[p].tok
  BY <1>1, <1>2 DEF RunCreated, CreatesRun
<1>3. CASE t # proc[p].tok
  BY <1>1, <1>3 DEF RunCreated, RunSame
<1> QED
  BY <1>2, <1>3

LEMMA PatchedRun ==
    ASSUME TypeInv, NEW p \in Procs, proc[p].pc = "patch", run' = Patched(p),
           NEW t \in Tokens
    PROVE  RunSame(t) \/ PatchesRun(p, t)
<1>1. run \in [Tokens -> RunRow] /\ proc[p].tok \in Tokens /\ run[proc[p].tok] \in RunRow
  BY Started DEF TypeInv, RunsOK
<1>2. CASE t = proc[p].tok
  <2>1. PatchedRow(p).status = proc[p].goal /\ PatchedRow(p).fid = run[proc[p].tok].fid
    BY <1>1 DEF PatchedRow, RunRow
  <2> QED
    BY <1>1, <1>2, <2>1 DEF Patched, PatchesRun
<1>3. CASE t # proc[p].tok
  BY <1>1, <1>3 DEF Patched, RunSame
<1> QED
  BY <1>2, <1>3

LEMMA CreateRunRun ==
    ASSUME TypeInv, NEW p \in Procs, CreateRun(p)
    PROVE  /\ proc'[p] = Executing(proc[p].tok, proc[p].fid)
           /\ \A q \in Procs \ {p} : proc'[q] = proc[q]
           /\ proc'[p].pc = "node" /\ CreatesRun(p, proc[p].tok)
<1>1. proc[p].tok \in Tokens /\ proc[p].fid \in Feedback /\ proc[p].pc = "create"
  BY Started DEF CreateRun
<1>2. proc' = [proc EXCEPT ![p] = Executing(proc[p].tok, proc[p].fid)]
  BY DEF CreateRun
<1>3. /\ proc'[p] = Executing(proc[p].tok, proc[p].fid)
      /\ \A q \in Procs \ {p} : proc'[q] = proc[q]
  BY <1>2, RecordStep
<1>4. proc'[p].pc = "node"
  BY <1>1, <1>3, ExecutingFields
<1>5. run \in [Tokens -> RunRow]
  BY DEF TypeInv, RunsOK
<1>6. CreatesRun(p, proc[p].tok)
  BY <1>1, <1>4, <1>5 DEF CreatesRun, CreateRun, RunCreated
<1> QED
  BY <1>3, <1>4, <1>6

\* What may happen on GitHub, and to the clock of claims.
Opens(p)      == /\ proc[p].pc = "post" /\ OtherPulls(proc[p].tok) = {}
                 /\ pulls' = pulls \cup {proc[p].tok}
SeesMoved(p)  == /\ At(p, "publish_pull_request") /\ moved' = moved \cup {proc[p].tok}
OpensIssue(p) == At(p, "publish_issue") /\ issues' = issues \cup {proc[p].tok}

PlaceSteps ==
    /\ claims' \in {claims, claims + 1}
    /\ UNCHANGED pulls  \/ \E p \in Procs : Opens(p)
    /\ UNCHANGED moved  \/ \E p \in Procs : SeesMoved(p)
    /\ UNCHANGED issues \/ \E p \in Procs : OpensIssue(p)

LEMMA RunsAndPlacesStep ==
    ASSUME TypeInv, [Next]_vars
    PROVE  PlaceSteps /\ \A t \in Tokens : RunSteps(t)
<1>p. Schedulers \subseteq Procs /\ Maintainers \subseteq Procs
  BY DEF Procs
<1>q. ASSUME UNCHANGED <<run, pulls, moved, issues>>, claims' \in {claims, claims + 1}
      PROVE  PlaceSteps /\ \A t \in Tokens : RunSteps(t)
  BY <1>q DEF PlaceSteps, RunSteps, RunSame
<1>r. ASSUME NEW p \in Procs, UNCHANGED <<claims, pulls, moved, issues>>,
             \/ /\ proc[p].pc = "create" /\ proc'[p].pc # "create"
                /\ run' = RunCreated(proc[p].tok, proc[p].fid)
             \/ proc[p].pc = "patch" /\ run' = Patched(p)
      PROVE  PlaceSteps /\ \A t \in Tokens : RunSteps(t)
  BY <1>r, CreatedRun, PatchedRun DEF PlaceSteps, RunSteps
<1>1. ASSUME NEW g \in Feedback, Submit(g) \/ ExpireLease(g)
      PROVE  PlaceSteps /\ \A t \in Tokens : RunSteps(t)
  BY <1>1, <1>q DEF Submit, ExpireLease
<1>2. ASSUME NEW p \in Procs, Poll(p) \/ Command(p)
      PROVE  PlaceSteps /\ \A t \in Tokens : RunSteps(t)
  BY <1>2, <1>q DEF Poll, PollResume, PollEmpty, Command, ResumeById, ClaimById, GiveUp, Claim
<1>3. ASSUME NEW p \in Procs, Work(p)
      PROVE  PlaceSteps /\ \A t \in Tokens : RunSteps(t)
  <2>1. CASE CreateRun(p) \/ PatchRun(p)
    <3>1. CreateRun(p) => proc'[p].pc # "create"
      BY CreateRunRun
    <3> QED
      BY <2>1, <3>1, <1>q, <1>r DEF CreateRun, PatchRun
  <2>2. CASE \/ PublishIssue(p) \/ LookForPull(p) \/ PostPull(p) \/ PostFails(p)
             \/ NodeFails(p)
    <3>1. UNCHANGED <<claims, run>>
      BY <2>2 DEF PublishIssue, LookForPull, PostPull, PostFails, NodeFails
    <3>2. UNCHANGED pulls \/ Opens(p)
      BY <2>2 DEF PublishIssue, LookForPull, PostPull, PostFails, NodeFails, Posted, Opens
    <3>3. UNCHANGED moved \/ SeesMoved(p)
      BY <2>2 DEF PublishIssue, LookForPull, PostPull, PostFails, NodeFails, SeesMoved
    <3>4. UNCHANGED issues \/ OpensIssue(p)
      BY <2>2 DEF PublishIssue, LookForPull, PostPull, PostFails, NodeFails, OpensIssue
    <3> QED
      BY <3>1, <3>2, <3>3, <3>4 DEF PlaceSteps, RunSteps, RunSame
  <2>3. CASE ClaimNext(p)
    BY <2>3, <1>q DEF ClaimNext, GiveUp, Claim
  <2>4. CASE \/ ClassifyGate(p) \/ PrepareSource(p) \/ RepairAgent(p) \/ ValidateFinal(p)
             \/ NothingPending(p) \/ ArtifactMissing(p) \/ ReadFeedback(p)
             \/ FinalizeFailure(p) \/ CheckTransition(p) \/ CheckReopen(p)
             \/ WriteFeedback(p) \/ ReadRunInGraph(p) \/ ReadRunToFail(p)
             \/ ReadRunToReopen(p) \/ NextNode(p) \/ ReadRunToResume(p)
             \/ ReadThread(p) \/ StartGraph(p)
    BY <2>4, <1>q
       DEF ClassifyGate, PrepareSource, RepairAgent, ValidateFinal, NothingPending,
           ArtifactMissing, ReadFeedback, FinalizeFailure, CheckTransition, CheckReopen,
           WriteFeedback, ReadRunInGraph, ReadRunToFail, ReadRunToReopen, NextNode,
           ReadRunToResume, ReadThread, StartGraph
  <2> QED
    BY <1>3, <2>1, <2>2, <2>3, <2>4 DEF Work
<1>4. ASSUME NEW p \in Procs, Faulty(p)
      PROVE  PlaceSteps /\ \A t \in Tokens : RunSteps(t)
  <2>1. proc[p].pc = "create" /\ LostReply(p) => proc'[p].pc # "create"
    BY Raised DEF LostReply, Idle
  <2> QED
    BY <1>4, <2>1, <1>q, <1>r DEF Faulty, Crash, RepoError, LostReply
<1>5. (\/ UNCHANGED vars \/ \E t \in Tokens : LoseArtifacts(t)
       \/ \E p \in Procs : PutCheckpoint(p))
         => UNCHANGED <<run, pulls, moved, issues, claims>>
  BY DEF vars, LoseArtifacts, PutCheckpoint
<1> QED
  BY <1>p, <1>q, <1>1, <1>2, <1>3, <1>4, <1>5 DEF Next

-----------------------------------------------------------------------------
(* What a step may do to a process *)

\* What a process does in one step, as far as tokens and positions go: it rests,
\* claims a row, takes up a run at its checkpoint, ...
Rests(p) == \/ proc'[p] = Idle
            \/ /\ proc[p].pc = "idle" /\ proc'[p].pc = "claim"
               /\ proc'[p].unsaved = proc[p].unsaved

ClaimsRow(p) == /\ proc'[p].pc = "create" /\ proc'[p].tok = claims + 1
                /\ claims' = claims + 1 /\ proc'[p].unsaved = FALSE
                /\ proc[p].pc \in Resting

TakesUp(p) == \E t \in Tokens :
    /\ proc'[p].tok = t /\ proc'[p].node = ckpt[t].node /\ proc'[p].out = ckpt[t].out
    /\ proc[p].pc \notin Resting
    /\ t = proc[p].tok /\ proc'[p].fid = proc[p].fid
    /\ \/ proc[p].pc = "create" /\ CreatesRun(p, t)
       \/ proc[p].pc = "start"
    /\ proc'[p].pc = "node"

\* (having found the run, read its row and what there is of its thread)
Finds(p) == \E t \in Tokens :
    /\ proc'[p].tok = t /\ proc'[p].node = "end" /\ proc'[p].out = "none"
    /\ \/ /\ proc[p].pc = "idle" /\ Created(t) /\ proc'[p].fid = run[t].fid
          /\ proc'[p].pc = "resume"
       \/ /\ proc[p].pc \notin Fresh /\ t = proc[p].tok /\ proc'[p].fid = proc[p].fid
          /\ proc'[p].pc = "start"

\* ... goes on with the run it has, ...
SameRun(p) == /\ proc[p].pc \notin Fresh
              /\ proc'[p].tok = proc[p].tok /\ proc'[p].fid = proc[p].fid

\* (and aims at a write only with a reason to)
Gated(p) == fb[proc[p].fid].token = proc[p].tok /\ fb[proc[p].fid].status = "gating"

MayGet(p, goal) ==
    \/ proc[p].mode = "graph" /\ \E m \in Moves(proc[p].node, proc[p].out) : goal = m[2]
    \/ goal \in {"security_rejected", "needs_human", "failed"}

MayCas(p, seen, goal) ==
    \/ proc[p].mode = "reopen" /\ seen = "failed" /\ goal \in RetryGoals
    \/ LET row == fb[proc[p].fid] IN
       /\ proc[p].mode # "reopen" /\ proc[p].pc = "get"
       /\ seen = row.status /\ goal = proc[p].goal /\ UNCHANGED fb
       /\ CanMove(seen, goal)
       /\ seen = "stale_base" /\ goal = "pending" => row.requeues = 0

MayTouchRun(p) ==
    proc[p].mode = "graph" =>
       \/ proc[p].pc = "runget" \/ proc[p].node \notin {"start_gate", "end"}
       \/ Gated(p) /\ UNCHANGED <<fb, run>>
       \/ WritesRow(p, proc[p].fid)

MayPatch(p, goal) ==
    goal = "stale_base" => /\ proc[p].mode = "graph" /\ proc[p].node = "finish_publication"
                           /\ proc[p].out # "opened"

Justified(p, pc, goal, seen) ==
    /\ pc = "get"   => MayGet(p, goal)
    /\ pc = "cas"   => MayCas(p, seen, goal)
    /\ pc = "patch" => MayPatch(p, goal)
    /\ pc \in {"runget", "patch"} => MayTouchRun(p)

Reads(p) == /\ SameRun(p) /\ proc[p].pc \in {"resume", "load"}
            /\ proc'[p].node = proc[p].node /\ proc'[p].out = proc[p].out
            /\ \/ proc'[p].pc \in {"load", "start"}
               \/ /\ proc'[p].pc = "get" /\ proc'[p].mode = "reopen"
                  /\ proc'[p].goal \in RetryGoals

GoesOn(p) == /\ SameRun(p) /\ proc[p].pc # "save"
             /\ proc'[p].node = proc[p].node /\ proc'[p].out = proc[p].out
             /\ \/ proc'[p].pc = "fail"
                \/ /\ proc'[p].pc = "post" /\ proc[p].pc = "node"
                   /\ proc[p].node = "publish_pull_request"
                   /\ proc[p].tok \notin moved
                \/ /\ proc'[p].pc \in {"get", "cas", "runget", "patch"}
                   /\ proc'[p].mode = proc[p].mode
                   /\ Justified(p, proc'[p].pc, proc'[p].goal, proc'[p].seen)

ReadyToSave(p) == /\ SameRun(p) /\ proc'[p].pc = "save"
                  /\ proc[p].pc \in {"runget", "patch"} /\ proc[p].mode = "graph"
                  /\ proc'[p].node = proc[p].node /\ proc'[p].out = proc[p].out

\* ... concludes the node it is at, or proceeds to the next.
Concludes(p) == /\ SameRun(p) /\ proc'[p].pc = "save" /\ proc[p].pc \in {"node", "post"}
                /\ proc'[p].node = proc[p].node
                /\ \/ proc'[p].out \notin Dispositions
                   \/ proc'[p].out = proc[p].out
                   \/ proc'[p].out = "opened" /\ proc[p].tok \in pulls'
                   \/ proc'[p].out = "stale"  /\ proc[p].tok \in moved'
                /\ proc[p].node = "publish_pull_request" => proc'[p].out \in Dispositions
                /\ proc[p].node = "publish_issue" => proc[p].tok \in issues'
                /\ proc[p].node \notin WritingNodes \cup {"end"}

Proceeds(p) == /\ SameRun(p) /\ proc[p].pc = "save" /\ proc'[p].pc = "node"
               /\ proc'[p].node = Following(p) /\ proc'[p].out = proc[p].out

\* ... or its latest checkpoint is written.
Puts(p) == /\ proc[p].unsaved /\ proc[p].pc # "save" /\ proc'[p].unsaved = FALSE
           /\ proc'[p].pc = proc[p].pc /\ proc'[p].mode = proc[p].mode
           /\ proc'[p].tok = proc[p].tok /\ proc'[p].fid = proc[p].fid
           /\ proc'[p].node = proc[p].node /\ proc'[p].out = proc[p].out
           /\ proc'[p].seen = proc[p].seen /\ proc'[p].goal = proc[p].goal

\* A process that knows what it knew, but for the checkpoint that it was behind.
Retains(p) == /\ proc'[p].pc = proc[p].pc /\ proc'[p].mode = proc[p].mode
             /\ proc'[p].tok = proc[p].tok /\ proc'[p].fid = proc[p].fid
             /\ proc'[p].node = proc[p].node /\ proc'[p].out = proc[p].out
             /\ proc'[p].seen = proc[p].seen /\ proc'[p].goal = proc[p].goal
             /\ proc'[p].unsaved \in {proc[p].unsaved, FALSE}

Course(p) == /\ \A q \in Procs \ {p} : proc'[q] = proc[q]
             /\ \/ Rests(p) \/ ClaimsRow(p) \/ TakesUp(p) \/ Finds(p) \/ Reads(p)
                \/ GoesOn(p) \/ ReadyToSave(p) \/ Concludes(p) \/ Proceeds(p)
                \/ Puts(p) /\ UNCHANGED <<fb, run>>

\* The checkpoint of its run is written behind it, at the end of the graph, or by an
\* exception.
PointsTo(n, out) == [node |-> n, out |-> out]

SavesAt(p) ==
    \/ UNCHANGED ckpt
    \/ /\ proc[p].unsaved /\ proc[p].pc # "save"
       /\ ckpt' = [ckpt EXCEPT ![proc[p].tok] = PointsTo(proc[p].node, proc[p].out)]
    \/ /\ proc[p].pc = "save"
       /\ ckpt' = [ckpt EXCEPT ![proc[p].tok] = PointsTo(Following(p), proc[p].out)]

LEMMA RaiseCourse ==
    ASSUME TypeInv, NEW p \in Procs, NEW e, Raise(p, e), proc[p].pc \notin {"idle", "save"}
    PROVE  Course(p) /\ SavesAt(p)
<1>1. Course(p)
  BY Raised DEF Course, Rests, GoesOn, SameRun, Fresh
<1>2. SavesAt(p)
  BY DEF Raise, SavesAt, PointsTo
<1> QED
  BY <1>1, <1>2

LEMMA GotoCourse ==
    ASSUME TypeInv, NEW p \in Procs, NEW pc, Goto(p, pc), UNCHANGED ckpt,
           \/ proc[p].pc = "idle" /\ pc = "claim"
           \/ proc[p].pc \notin Fresh \cup {"save"} /\ pc = "runget" /\ MayTouchRun(p)
           \/ proc[p].pc \in {"runget", "patch"} /\ pc = "save" /\ proc[p].mode = "graph"
           \/ At(p, "publish_pull_request") /\ pc = "post" /\ proc[p].tok \notin moved
    PROVE  Course(p) /\ SavesAt(p)
<1> DEFINE next == [proc[p] EXCEPT !.pc = pc, !.seen = "none", !.goal = "none"]
<1>1. proc[p] \in Process /\ proc \in [Procs -> Process]
  BY DEF TypeInv, ProcsOK
<1>2. proc' = [proc EXCEPT ![p] = next]
  BY <1>1 DEF Goto
<1>3. /\ next.pc = pc /\ next.tok = proc[p].tok /\ next.fid = proc[p].fid
      /\ next.node = proc[p].node /\ next.out = proc[p].out
      /\ next.unsaved = proc[p].unsaved /\ next.mode = proc[p].mode
      /\ next.goal = "none" /\ next.seen = "none"
  BY <1>1 DEF Process
<1> HIDE DEF next
<1>4. proc'[p] = next /\ \A q \in Procs \ {p} : proc'[q] = proc[q]
  BY <1>2, RecordStep
<1>5. CASE pc = "claim" /\ proc[p].pc = "idle"
  BY <1>3, <1>4, <1>5 DEF Course, Rests, SavesAt
<1>6. CASE pc = "runget" /\ proc[p].pc \notin Fresh \cup {"save"} /\ MayTouchRun(p)
  <2>1. GoesOn(p)
    BY <1>3, <1>4, <1>6 DEF GoesOn, SameRun, Justified
  <2> QED
    BY <1>4, <2>1 DEF Course, SavesAt
<1>7. CASE pc = "save" /\ proc[p].pc \in {"runget", "patch"} /\ proc[p].mode = "graph"
  BY <1>3, <1>4, <1>7 DEF Course, ReadyToSave, SameRun, Fresh, SavesAt
<1>8. CASE At(p, "publish_pull_request") /\ pc = "post" /\ proc[p].tok \notin moved
  <2>1. GoesOn(p)
    BY <1>3, <1>4, <1>8 DEF GoesOn, SameRun, Fresh, At
  <2> QED
    BY <1>4, <2>1 DEF Course, SavesAt
<1> QED
  BY <1>5, <1>6, <1>7, <1>8

LEMMA IdleCourse ==
    ASSUME TypeInv, NEW p \in Procs, proc' = [proc EXCEPT ![p] = Idle], UNCHANGED ckpt
    PROVE  Course(p) /\ SavesAt(p)
BY RecordStep DEF Course, Rests, SavesAt

\* A process goes on with some of goal, seen and error changed.
Rewrites(p, pc, goal, seen, err) ==
    proc' = [proc EXCEPT ![p] = [proc[p] EXCEPT !.pc = pc, !.goal = goal,
                                                !.seen = seen, !.err = err]]

LEMMA GoOnCourse ==
    ASSUME TypeInv, NEW p \in Procs, NEW pc \in {"get", "cas", "runget", "patch"},
           NEW goal, NEW seen, NEW err, UNCHANGED ckpt, Justified(p, pc, goal, seen),
           Rewrites(p, pc, goal, seen, err), proc[p].pc \notin Fresh \cup {"save"}
    PROVE  Course(p) /\ SavesAt(p)
<1> DEFINE next == [proc[p] EXCEPT !.pc = pc, !.goal = goal, !.seen = seen, !.err = err]
<1>1. proc[p] \in Process
  BY DEF TypeInv, ProcsOK
<1>2. /\ next.pc = pc /\ next.tok = proc[p].tok /\ next.fid = proc[p].fid
      /\ next.node = proc[p].node /\ next.out = proc[p].out /\ next.mode = proc[p].mode
      /\ next.goal = goal /\ next.seen = seen
  BY <1>1 DEF Process
<1> HIDE DEF next
<1>3. proc'[p] = next /\ \A q \in Procs \ {p} : proc'[q] = proc[q]
  BY RecordStep DEF next, Rewrites
<1>4. GoesOn(p)
  BY <1>2, <1>3 DEF GoesOn, SameRun
<1> QED
  BY <1>3, <1>4 DEF Course, SavesAt

LEMMA EntryCourse ==
    ASSUME TypeInv, WorksOnRun, NEW p \in Procs,
           Poll(p) \/ Command(p) \/ ClaimNext(p) \/ CreateRun(p)
    PROVE  Course(p) /\ SavesAt(p)
<1>1. ASSUME NEW t \in Tokens, PollResume(p, t) \/ ResumeById(p, t)
      PROVE  Course(p) /\ SavesAt(p)
  <2>1. Created(t) /\ UNCHANGED ckpt /\ proc[p].pc = "idle"
        /\ proc' = [proc EXCEPT ![p] = Resuming(t)]
    BY <1>1 DEF PollResume, ResumeById, Active, ActiveRun, Created
  <2>2. proc'[p] = Resuming(t) /\ \A q \in Procs \ {p} : proc'[q] = proc[q]
    BY <2>1, RecordStep
  <2>3. /\ proc'[p].pc = "resume" /\ proc'[p].tok = t /\ proc'[p].fid = run[t].fid
        /\ proc'[p].node = "end" /\ proc'[p].out = "none"
    BY <2>2, ResumingFields
  <2>4. Finds(p)
    BY <2>1, <2>3 DEF Finds
  <2> QED
    BY <2>1, <2>2, <2>4 DEF Course, SavesAt
<1>2. CASE PollEmpty(p)
  BY <1>2, GotoCourse DEF PollEmpty
<1>3. ASSUME NEW gone, GiveUp(p, gone)
      PROVE  Course(p) /\ SavesAt(p)
  BY <1>3, IdleCourse DEF GiveUp
<1>4. ASSUME NEW f, NEW gone, Claim(p, f, gone), proc[p].pc \in Resting
      PROVE  Course(p) /\ SavesAt(p)
  <2> DEFINE next == [Idle EXCEPT !.pc = "create", !.tok = claims + 1, !.fid = f]
  <2>1. next.pc = "create" /\ next.tok = claims + 1 /\ next.unsaved = FALSE
    BY DEF Idle
  <2>2. proc' = [proc EXCEPT ![p] = next] /\ claims' = claims + 1 /\ UNCHANGED ckpt
    BY <1>4 DEF Claim
  <2> HIDE DEF next
  <2>3. proc'[p] = next /\ \A q \in Procs \ {p} : proc'[q] = proc[q]
    BY <2>2, RecordStep
  <2> QED
    BY <1>4, <2>1, <2>2, <2>3 DEF Course, SavesAt, ClaimsRow
<1>5. CASE CreateRun(p)
  <2>1. proc[p].tok \in Tokens /\ proc[p].fid \in Feedback /\ proc[p].pc = "create"
    BY <1>5, Started DEF CreateRun
  <2>2. /\ proc'[p] = Executing(proc[p].tok, proc[p].fid)
        /\ \A q \in Procs \ {p} : proc'[q] = proc[q]
        /\ CreatesRun(p, proc[p].tok)
    BY <1>5, CreateRunRun
  <2>4. TakesUp(p)
    BY <2>1, <2>2, ExecutingFields DEF TakesUp, Resting
  <2> QED
    BY <1>5, <2>2, <2>4 DEF Course, SavesAt, CreateRun
<1> QED
  BY <1>1, <1>2, <1>3, <1>4, <1>5 DEF Poll, Command, ClaimNext, ClaimById, Resting

LEMMA ResumeCourse ==
    ASSUME TypeInv, WorksOnRun, NEW p \in Procs,
           ReadRunToResume(p) \/ ReadThread(p) \/ StartGraph(p)
    PROVE  Course(p) /\ SavesAt(p)
<1>1. proc[p] \in Process /\ proc \in [Procs -> Process]
  BY DEF TypeInv, ProcsOK
<1>2. CASE ReadRunToResume(p)
  <2> DEFINE row == run[proc[p].tok]
             next == [proc[p] EXCEPT !.pc = "load", !.seen = row.status, !.err = row.err]
  <2>1. proc' = [proc EXCEPT ![p] = next] /\ proc[p].pc = "resume" /\ UNCHANGED ckpt
    BY <1>1, <1>2 DEF ReadRunToResume
  <2>2. /\ next.pc = "load" /\ next.tok = proc[p].tok /\ next.node = proc[p].node
        /\ next.out = proc[p].out /\ next.fid = proc[p].fid
    BY <1>1 DEF Process
  <2> HIDE DEF next
  <2>3. proc'[p] = next /\ \A q \in Procs \ {p} : proc'[q] = proc[q]
    BY <2>1, RecordStep
  <2> QED
    BY <2>1, <2>2, <2>3 DEF Course, Reads, SameRun, SavesAt, Fresh
<1>3. CASE ReadThread(p)
  <2> DEFINE known == [proc[p] EXCEPT !.seen = "none", !.err = "none"]
             go    == [known EXCEPT !.pc = "start"]
             read(goal) == [known EXCEPT !.pc = "get", !.mode = "reopen", !.goal = goal]
  <2>0. ReopenGoals(p) \subseteq RetryGoals
    BY DEF ReopenGoals, RetryGoals
  <2>1. /\ proc[p].pc = "load" /\ UNCHANGED ckpt
        /\ \/ \E goal \in RetryGoals : proc' = [proc EXCEPT ![p] = read(goal)]
           \/ proc' = [proc EXCEPT ![p] = go]
           \/ proc' = [proc EXCEPT ![p] = Idle]
    BY <1>3, <2>0 DEF ReadThread
  <2>2. /\ go.pc = "start" /\ go.tok = proc[p].tok /\ go.node = proc[p].node
        /\ go.out = proc[p].out /\ go.fid = proc[p].fid
    BY <1>1 DEF Process
  <2>3. ASSUME NEW goal
        PROVE  /\ read(goal).pc = "get" /\ read(goal).tok = proc[p].tok
               /\ read(goal).node = proc[p].node /\ read(goal).out = proc[p].out
               /\ read(goal).fid = proc[p].fid /\ read(goal).mode = "reopen"
               /\ read(goal).goal = goal
    BY <1>1 DEF Process
  <2> HIDE DEF go, read
  <2>4. ASSUME NEW r, proc' = [proc EXCEPT ![p] = r],
               \/ r = go
               \/ \E goal \in RetryGoals : r = read(goal)
        PROVE  Course(p) /\ SavesAt(p)
    <3>1. proc'[p] = r /\ \A q \in Procs \ {p} : proc'[q] = proc[q]
      BY <2>4, RecordStep
    <3>2. Reads(p)
      BY <2>1, <2>2, <2>3, <2>4, <3>1 DEF Reads, SameRun, Fresh
    <3> QED
      BY <2>1, <3>1, <3>2 DEF Course, SavesAt
  <2>5. CASE proc' = [proc EXCEPT ![p] = Idle]
    BY <2>1, <2>5, IdleCourse
  <2> QED
    BY <2>1, <2>4, <2>5
<1>4. CASE StartGraph(p)
  <2>1. proc[p].tok \in Tokens /\ proc[p].fid \in Feedback /\ proc[p].pc = "start"
    BY <1>4, Started DEF StartGraph
  <2>2. /\ proc'[p] = Executing(proc[p].tok, proc[p].fid)
        /\ \A q \in Procs \ {p} : proc'[q] = proc[q]
    BY <1>4, RecordStep DEF StartGraph
  <2>3. TakesUp(p)
    BY <2>1, <2>2, ExecutingFields DEF TakesUp, Resting
  <2> QED
    BY <1>4, <2>2, <2>3 DEF Course, SavesAt, StartGraph
<1> QED
  BY <1>2, <1>3, <1>4

LEMMA ConcludeCourse ==
    ASSUME TypeInv, NEW p \in Procs, NEW out, Conclude(p, out),
           proc[p].pc \in {"node", "post"},
           proc[p].node \notin WritingNodes \cup {"end"},
           \/ out \notin Dispositions \/ out = proc[p].out
           \/ out = "opened" /\ proc[p].tok \in pulls'
           \/ out = "stale"  /\ proc[p].tok \in moved',
           proc[p].node = "publish_pull_request" => out \in Dispositions,
           proc[p].node = "publish_issue" => proc[p].tok \in issues'
    PROVE  Course(p) /\ SavesAt(p)
<1> DEFINE next == [proc[p] EXCEPT !.pc = "save", !.out = out]
<1>1. proc[p] \in Process /\ proc \in [Procs -> Process]
  BY DEF TypeInv, ProcsOK
<1>2. /\ next.pc = "save" /\ next.tok = proc[p].tok /\ next.fid = proc[p].fid
      /\ next.node = proc[p].node /\ next.out = out
  BY <1>1 DEF Process
<1>3. proc' = [proc EXCEPT ![p] = next] /\ UNCHANGED ckpt
  BY <1>1 DEF Conclude
<1> HIDE DEF next
<1>4. proc'[p] = next /\ \A q \in Procs \ {p} : proc'[q] = proc[q]
  BY <1>3, RecordStep
<1>5. Concludes(p)
  BY <1>2, <1>4 DEF Concludes, SameRun, Fresh
<1> QED
  BY <1>3, <1>4, <1>5 DEF Course, SavesAt

LEMMA NodeCourse ==
    ASSUME TypeInv, WorksOnRun, NEW p \in Procs,
           \/ ClassifyGate(p) \/ PrepareSource(p) \/ RepairAgent(p) \/ ValidateFinal(p)
           \/ PublishIssue(p) \/ LookForPull(p) \/ PostPull(p) \/ PostFails(p)
           \/ NothingPending(p) \/ NodeFails(p) \/ ArtifactMissing(p)
    PROVE  Course(p) /\ SavesAt(p)
<1>1. proc[p].pc \in {"node", "post"}
  BY DEF ClassifyGate, PrepareSource, RepairAgent, ValidateFinal, PublishIssue,
         LookForPull, PostPull, PostFails, NothingPending, NodeFails, ArtifactMissing, At
<1>n. {"classify_gate", "repair_agent", "validate_final", "publish_issue",
       "publish_pull_request"} \cap (WritingNodes \cup {"end"}) = {}
  BY DEF WritingNodes, FinishNodes
<1>d. Routes \cap Dispositions = {} /\ RepairOutcomes \cap Dispositions = {}
      /\ Validations \cap Dispositions = {}
  BY DEF Routes, RepairOutcomes, Validations, Dispositions
<1>2. CASE ClassifyGate(p)
  <2>1. proc[p].node = "classify_gate" /\ \E out \in Routes : Conclude(p, out)
    BY <1>2, RunAssumption DEF ClassifyGate, At, Routes, RunAssumption
  <2> QED
    BY <1>1, <1>n, <1>d, <2>1, ConcludeCourse
<1>3. CASE PrepareSource(p)
  BY <1>1, <1>3, GotoCourse DEF PrepareSource, Fresh, MayTouchRun, At
<1>4. CASE RepairAgent(p)
  <2>1. proc[p].node = "repair_agent" /\ \E out \in RepairOutcomes : Conclude(p, out)
    BY <1>4, RunAssumption DEF RepairAgent, At, RunAssumption
  <2> QED
    BY <1>1, <1>n, <1>d, <2>1, ConcludeCourse
<1>5. CASE ValidateFinal(p)
  <2>1. proc[p].node = "validate_final" /\ \E out \in Validations : Conclude(p, out)
    BY <1>5 DEF ValidateFinal, At, Validations
  <2> QED
    BY <1>1, <1>n, <1>d, <2>1, ConcludeCourse
<1>6. CASE PublishIssue(p)
  <2>1. /\ proc[p].node = "publish_issue" /\ Conclude(p, proc[p].out)
        /\ proc[p].tok \in issues'
    BY <1>6 DEF PublishIssue, At
  <2> QED
    BY <1>1, <1>n, <2>1, ConcludeCourse
<1>7. CASE LookForPull(p) /\ ~Goto(p, "post")
  <2>1. /\ proc[p].node = "publish_pull_request"
        /\ \/ Conclude(p, "opened") /\ proc[p].tok \in pulls'
           \/ Conclude(p, "stale") /\ proc[p].tok \in moved'
    BY <1>7 DEF LookForPull, At
  <2> QED
    BY <1>1, <1>n, <2>1, ConcludeCourse DEF Dispositions
<1>10. CASE LookForPull(p) /\ Goto(p, "post") /\ proc[p].tok \notin moved /\ UNCHANGED ckpt
  BY <1>10, GotoCourse DEF LookForPull
<1>11. LookForPull(p) /\ Goto(p, "post") => proc[p].tok \notin moved /\ UNCHANGED ckpt
  <2>1. ASSUME NEW out, Conclude(p, out), Goto(p, "post")
        PROVE  FALSE
    <3>1. proc[p] \in Process /\ proc \in [Procs -> Process]
      BY DEF TypeInv, ProcsOK
    <3>2. proc'[p].pc = "save"
      BY <2>1, <3>1 DEF Conclude, Process
    <3>3. proc'[p].pc = "post"
      BY <2>1, <3>1 DEF Goto, Process
    <3> QED
      BY <3>2, <3>3
  <2> QED
    BY <2>1 DEF LookForPull
<1>12. CASE PostPull(p)
  <2>1. proc[p].node = "publish_pull_request" /\ Conclude(p, "opened")
        /\ proc[p].tok \in pulls'
    BY <1>12 DEF PostPull, Posted, TypeInv, ProcsOK, ProcOK
  <2> QED
    BY <1>1, <1>n, <2>1, ConcludeCourse DEF Dispositions
<1>8. CASE NothingPending(p)
  BY <1>8, IdleCourse DEF NothingPending
<1>9. CASE \E e : Raise(p, e)
  BY <1>1, <1>9, RaiseCourse
<1> QED
  BY <1>2, <1>3, <1>4, <1>5, <1>6, <1>7, <1>8, <1>9, <1>10, <1>11, <1>12
     DEF NodeFails, PostFails, ArtifactMissing

\* The ways the actions write down that a process goes on.
LEMMA GoOnForms ==
    ASSUME TypeInv, NEW p \in Procs, UNCHANGED ckpt, proc[p].pc \notin Fresh \cup {"save"},
           NEW s, NEW e, NEW g,
           \/ proc' = [proc EXCEPT ![p].pc = "get", ![p].goal = g] /\ MayGet(p, g)
           \/ proc' = [proc EXCEPT ![p].pc = "runget", ![p].goal = g] /\ MayTouchRun(p)
           \/ /\ proc' = [proc EXCEPT ![p].pc = "cas", ![p].seen = s]
              /\ MayCas(p, s, proc[p].goal)
           \/ /\ proc' = [proc EXCEPT ![p].pc = "cas", ![p].seen = s, ![p].err = e, ![p].goal = g]
              /\ MayCas(p, s, g)
           \/ /\ proc' = [proc EXCEPT ![p].pc = "get", ![p].goal = g, ![p].seen = s]
              /\ MayGet(p, g)
           \/ /\ proc' = [proc EXCEPT ![p].pc = "runget", ![p].seen = s, ![p].goal = g]
              /\ MayTouchRun(p)
           \/ ContinueAt(p, s, g) /\ MayPatch(p, g) /\ MayTouchRun(p)
    PROVE  Course(p) /\ SavesAt(p)
<1>1. proc[p] \in Process /\ proc \in [Procs -> Process]
  BY DEF TypeInv, ProcsOK
<1>2. CASE proc' = [proc EXCEPT ![p].pc = "get", ![p].goal = g] /\ MayGet(p, g)
  <2>1. Rewrites(p, "get", g, proc[p].seen, proc[p].err)
    BY <1>1, <1>2 DEF Process, Rewrites
  <2>2. Justified(p, "get", g, proc[p].seen)
    BY <1>2 DEF Justified
  <2> QED
    BY <2>1, <2>2, GoOnCourse
<1>3. CASE proc' = [proc EXCEPT ![p].pc = "runget", ![p].goal = g] /\ MayTouchRun(p)
  <2>1. Rewrites(p, "runget", g, proc[p].seen, proc[p].err)
    BY <1>1, <1>3 DEF Process, Rewrites
  <2>2. Justified(p, "runget", g, proc[p].seen)
    BY <1>3 DEF Justified
  <2> QED
    BY <2>1, <2>2, GoOnCourse
<1>4. CASE proc' = [proc EXCEPT ![p].pc = "cas", ![p].seen = s] /\ MayCas(p, s, proc[p].goal)
  <2>1. Rewrites(p, "cas", proc[p].goal, s, proc[p].err)
    BY <1>1, <1>4 DEF Process, Rewrites
  <2>2. Justified(p, "cas", proc[p].goal, s)
    BY <1>4 DEF Justified
  <2> QED
    BY <2>1, <2>2, GoOnCourse
<1>5. CASE /\ proc' = [proc EXCEPT ![p].pc = "cas", ![p].seen = s, ![p].err = e, ![p].goal = g]
           /\ MayCas(p, s, g)
  <2>1. Rewrites(p, "cas", g, s, e)
    BY <1>1, <1>5 DEF Process, Rewrites
  <2>2. Justified(p, "cas", g, s)
    BY <1>5 DEF Justified
  <2> QED
    BY <2>1, <2>2, GoOnCourse
<1>6. CASE proc' = [proc EXCEPT ![p].pc = "get", ![p].goal = g, ![p].seen = s] /\ MayGet(p, g)
  <2>1. Rewrites(p, "get", g, s, proc[p].err)
    BY <1>1, <1>6 DEF Process, Rewrites
  <2>2. Justified(p, "get", g, s)
    BY <1>6 DEF Justified
  <2> QED
    BY <2>1, <2>2, GoOnCourse
<1>7. CASE /\ proc' = [proc EXCEPT ![p].pc = "runget", ![p].seen = s, ![p].goal = g]
           /\ MayTouchRun(p)
  <2>1. Rewrites(p, "runget", g, s, proc[p].err)
    BY <1>1, <1>7 DEF Process, Rewrites
  <2>2. Justified(p, "runget", g, s)
    BY <1>7 DEF Justified
  <2> QED
    BY <2>1, <2>2, GoOnCourse
<1>8. CASE ContinueAt(p, s, g) /\ MayPatch(p, g) /\ MayTouchRun(p)
  <2>1. Rewrites(p, "patch", g, s, proc[p].err)
    BY <1>1, <1>8 DEF Process, Rewrites, ContinueAt
  <2>2. Justified(p, "patch", g, s)
    BY <1>8 DEF Justified
  <2> QED
    BY <2>1, <2>2, GoOnCourse
<1> QED
  BY <1>2, <1>3, <1>4, <1>5, <1>6, <1>7, <1>8

LEMMA WriteCourse ==
    ASSUME TypeInv, WorksOnRun, NEW p \in Procs,
           \/ ReadFeedback(p) \/ FinalizeFailure(p) \/ CheckTransition(p)
           \/ CheckReopen(p) \/ WriteFeedback(p)
    PROVE  Course(p) /\ SavesAt(p)
<1> DEFINE row == fb[proc[p].fid]
<1>1. proc[p].pc \in {"node", "fail", "get", "cas"}
  BY DEF ReadFeedback, FinalizeFailure, CheckTransition, CheckReopen, WriteFeedback
<1>2. /\ proc[p].pc \notin Fresh \cup {"save"} /\ proc[p].pc \notin {"idle", "save"}
      /\ ProcOK(proc[p])
  BY <1>1, Started DEF Fresh
<1>3. CASE \E e : Raise(p, e)
  BY <1>2, <1>3, RaiseCourse
<1>4. ASSUME UNCHANGED ckpt, Goto(p, "runget"), MayTouchRun(p)
      PROVE  Course(p) /\ SavesAt(p)
  BY <1>2, <1>4, GotoCourse
<1>5. ASSUME UNCHANGED ckpt, NEW g, MayGet(p, g),
             proc' = [proc EXCEPT ![p].pc = "get", ![p].goal = g]
      PROVE  Course(p) /\ SavesAt(p)
  BY <1>2, <1>5, GoOnForms
<1>7. CASE ReadFeedback(p)
  <2>1. UNCHANGED <<fb, run>> /\ proc[p].mode = "graph"
    BY <1>2, <1>7 DEF ReadFeedback, ProcOK
  <2>2. ASSUME NEW m \in Moves(proc[p].node, proc[p].out)
        PROVE  MayGet(p, m[2])
    BY <2>1, <2>2 DEF MayGet
  <2>3. ASSUME ~Disowned(p, row), row.status \in AlreadyDone(proc[p].node, proc[p].out)
        PROVE  MayTouchRun(p)
    <3>1. CASE proc[p].node = "start_gate"
      BY <2>1, <2>3, <3>1 DEF MayTouchRun, Gated, Disowned, AlreadyDone, Moves, StartGateMoves
    <3>2. proc[p].node # "end"
      BY <1>7 DEF ReadFeedback, FinishNodes
    <3> QED
      BY <3>1, <3>2 DEF MayTouchRun
  <2> QED
    BY <1>3, <1>4, <1>5, <1>7, <2>2, <2>3 DEF ReadFeedback
<1>8. CASE FinalizeFailure(p)
  <2>1. proc[p].mode = "final"
    BY <1>2, <1>8 DEF FinalizeFailure, ProcOK
  <2>2. MayTouchRun(p) /\ MayGet(p, FailureVerdict(proc[p].err)) /\ UNCHANGED ckpt
    BY <1>8, <2>1 DEF MayTouchRun, MayGet, FailureVerdict, FinalizeFailure
  <2> QED
    BY <1>4, <1>5, <1>8, <2>2 DEF FinalizeFailure
<1>9. CASE CheckTransition(p)
  <2>1. ASSUME UNCHANGED ckpt, proc' = [proc EXCEPT ![p].pc = "cas", ![p].seen = row.status],
               CanMove(row.status, proc[p].goal),
               ~(row.status = "stale_base" /\ proc[p].goal = "pending" /\ row.requeues >= 1)
        PROVE  Course(p) /\ SavesAt(p)
    <3>1. row.requeues \in 0..1
      BY <1>1, <1>9, Started DEF FeedbackRow, CheckTransition
    <3>2. row.requeues >= 1 \/ row.requeues = 0
      BY <3>1
    <3>3. UNCHANGED fb /\ proc[p].pc = "get" /\ proc[p].mode # "reopen"
      BY <1>9 DEF CheckTransition
    <3> HIDE DEF row
    <3>4. row = fb[proc[p].fid]
      BY DEF row
    <3>5. MayCas(p, row.status, proc[p].goal)
      BY <2>1, <3>2, <3>3, <3>4 DEF MayCas
    <3> QED
      BY <1>2, <2>1, <3>5, GoOnForms
  <2> QED
    BY <1>3, <1>9, <2>1 DEF CheckTransition
<1>10. CASE CheckReopen(p)
  <2> DEFINE g == IF row.err = "issue_publication" THEN "publishing_issue" ELSE proc[p].goal
  <2>0. proc[p].mode = "reopen" /\ g \in RetryGoals
    BY <1>2, <1>10 DEF CheckReopen, ProcOK, RetryGoals
  <2>1. \/ Raise(p, "other")
        \/ UNCHANGED ckpt /\ proc' = [proc EXCEPT ![p].pc = "runget", ![p].goal = row.status]
        \/ /\ UNCHANGED ckpt
           /\ proc' = [proc EXCEPT ![p].pc = "cas", ![p].seen = "failed", ![p].err = row.err,
                                   ![p].goal = g]
    BY <1>10 DEF CheckReopen, TypeInv, ProcsOK
  <2> HIDE DEF row, g
  <2>2. MayTouchRun(p) /\ MayCas(p, "failed", g)
    BY <2>0 DEF MayTouchRun, MayCas
  <2> QED
    BY <1>2, <1>3, <2>1, <2>2, GoOnForms
<1>11. CASE WriteFeedback(p)
  <2> DEFINE g == IF proc[p].mode = "reopen" THEN proc[p].goal ELSE "none"
  <2>1. \/ Raise(p, "other")
        \/ /\ UNCHANGED ckpt /\ Matches(p) /\ fb' = Written(p)
           /\ \/ \E m \in Chained(p) :
                    proc' = [proc EXCEPT ![p].pc = "get", ![p].goal = m[2], ![p].seen = "none"]
              \/ proc' = [proc EXCEPT ![p].pc = "runget", ![p].seen = "none", ![p].goal = g]
    BY <1>11 DEF WriteFeedback, TypeInv, ProcsOK
  <2> HIDE DEF g
  <2>2. ASSUME NEW m \in Chained(p)
        PROVE  MayGet(p, m[2])
    BY <2>2 DEF Chained, MayGet
  <2>3. ASSUME Matches(p), fb' = Written(p)
        PROVE  MayTouchRun(p)
    <3>1. proc[p].pc = "cas" /\ proc[p].fid \in Feedback
      BY <1>11, Started DEF WriteFeedback
    <3> QED
      BY <2>3, <3>1, WritesOwnRow DEF MayTouchRun
  <2> QED
    BY <1>2, <1>3, <2>1, <2>2, <2>3, GoOnForms
<1> QED
  BY <1>7, <1>8, <1>9, <1>10, <1>11

LEMMA RunCourse ==
    ASSUME TypeInv, WorksOnRun, NEW p \in Procs,
           ReadRunInGraph(p) \/ ReadRunToFail(p) \/ ReadRunToReopen(p) \/ PatchRun(p)
    PROVE  Course(p) /\ SavesAt(p)
<1>1. proc[p].pc \in {"runget", "patch"}
  BY DEF ReadRunInGraph, ReadRunToFail, ReadRunToReopen, PatchRun
<1>2. /\ proc[p].pc \notin Fresh \cup {"save"} /\ proc[p].pc \notin {"idle", "save"}
      /\ proc[p].tok \in Tokens /\ proc[p].fid \in Feedback
      /\ proc[p].mode \in {"graph", "final", "reopen"} /\ ProcOK(proc[p])
  BY <1>1, Started DEF Fresh, Process
<1>3. CASE Raise(p, "other")
  BY <1>2, <1>3, RaiseCourse
<1>4. ASSUME UNCHANGED ckpt, proc' = [proc EXCEPT ![p] = Idle]
      PROVE  Course(p) /\ SavesAt(p)
  BY <1>4, IdleCourse
<1>5. ASSUME UNCHANGED ckpt, NEW s, NEW g, ContinueAt(p, s, g), MayPatch(p, g),
             proc[p].pc = "runget"
      PROVE  Course(p) /\ SavesAt(p)
  BY <1>2, <1>5, GoOnForms DEF MayTouchRun
<1>6. ASSUME UNCHANGED ckpt, proc' = [proc EXCEPT ![p] = Reopened(proc[p].tok, proc[p].fid)]
      PROVE  Course(p) /\ SavesAt(p)
  <2>1. /\ proc'[p] = Reopened(proc[p].tok, proc[p].fid)
        /\ \A q \in Procs \ {p} : proc'[q] = proc[q]
    BY <1>6, RecordStep
  <2>2. Finds(p)
    BY <1>2, <2>1, FoundFields DEF Finds
  <2> QED
    BY <1>6, <2>1, <2>2 DEF Course, SavesAt
<1>7. ASSUME UNCHANGED ckpt, Goto(p, "save"), proc[p].mode = "graph"
      PROVE  Course(p) /\ SavesAt(p)
  BY <1>1, <1>7, GotoCourse
<1>8. CASE ReadRunInGraph(p)
  <2> DEFINE mv == RunMove(proc[p].node, proc[p].out)
  <2>1. proc[p].node \in WritingNodes /\ proc[p].mode = "graph"
    BY <1>1, <1>2, <1>8 DEF ProcOK, WritingNodes, ReadRunInGraph
  <2>2. MayPatch(p, mv[2])
    BY <2>1 DEF MayPatch, RunMove, mark_gating, complete_gate, mark_reproducing,
                complete_issue_publication, complete_reproduction, mark_validating,
                complete_repair_failure, complete_validation, complete_publication,
                exhaust_budget
  <2> QED
    BY <1>5, <1>7, <1>8, <2>2 DEF ReadRunInGraph
<1>9. CASE ReadRunToFail(p)
  <2>1. MayPatch(p, FailedRun(proc[p].err))
    BY DEF MayPatch, FailedRun
  <2> QED
    BY <1>4, <1>5, <1>9, <2>1 DEF ReadRunToFail
<1>10. CASE ReadRunToReopen(p)
  <2>1. MayPatch(p, proc[p].goal) /\ MayPatch(p, "publishing_issue") /\ MayPatch(p, "publishing")
    BY <1>2, <1>10 DEF MayPatch, ProcOK, RetryGoals, ReadRunToReopen
  <2> QED
    BY <1>4, <1>5, <1>6, <1>10, <2>1 DEF ReadRunToReopen
<1>11. CASE PatchRun(p)
  BY <1>2, <1>3, <1>4, <1>6, <1>7, <1>11 DEF PatchRun
<1> QED
  BY <1>8, <1>9, <1>10, <1>11

LEMMA SaveCourse ==
    ASSUME TypeInv, NEW p \in Procs, NextNode(p)
    PROVE  Course(p) /\ SavesAt(p)
<1> DEFINE later == [proc[p] EXCEPT !.pc = "node", !.node = Following(p), !.unsaved = TRUE]
<1>1. proc[p].pc = "save" /\ proc[p] \in Process /\ proc \in [Procs -> Process]
  BY DEF NextNode, TypeInv, ProcsOK
<1>2. /\ later.pc = "node" /\ later.node = Following(p) /\ later.out = proc[p].out
      /\ later.tok = proc[p].tok /\ later.fid = proc[p].fid
  BY <1>1 DEF Process
<1>3. \/ proc' = [proc EXCEPT ![p] = Idle]
      \/ proc' = [proc EXCEPT ![p] = later]
  BY <1>1 DEF NextNode
<1> HIDE DEF later
<1>4. proc'[p] \in {Idle, later} /\ \A q \in Procs \ {p} : proc'[q] = proc[q]
  BY <1>3, RecordStep
<1>5. SavesAt(p)
  BY <1>1 DEF NextNode, SavesAt, PointsTo
<1> QED
  BY <1>1, <1>2, <1>4, <1>5 DEF Course, Rests, Proceeds, SameRun, Fresh

LEMMA PutCourse ==
    ASSUME TypeInv, NEW p \in Procs, PutCheckpoint(p)
    PROVE  Course(p) /\ SavesAt(p)
<1> DEFINE next == [proc[p] EXCEPT !.unsaved = FALSE]
<1>1. proc[p] \in Process /\ proc \in [Procs -> Process]
  BY DEF TypeInv, ProcsOK
<1>2. /\ next.pc = proc[p].pc /\ next.mode = proc[p].mode /\ next.tok = proc[p].tok
      /\ next.fid = proc[p].fid /\ next.node = proc[p].node /\ next.out = proc[p].out
      /\ next.seen = proc[p].seen /\ next.goal = proc[p].goal
  BY <1>1 DEF Process
<1>u. next.unsaved = FALSE
  BY <1>1 DEF Process
<1>3. proc' = [proc EXCEPT ![p] = next] /\ UNCHANGED <<fb, run>>
  BY DEF PutCheckpoint
<1> HIDE DEF next
<1>4. proc'[p] = next /\ \A q \in Procs \ {p} : proc'[q] = proc[q]
  BY <1>3, RecordStep
<1>5. proc[p].unsaved /\ proc[p].pc # "save"
  BY DEF PutCheckpoint
<1>6. Puts(p)
  BY <1>2, <1>u, <1>4, <1>5 DEF Puts
<1>7. SavesAt(p)
  BY DEF PutCheckpoint, SavesAt, PointsTo
<1> QED
  BY <1>3, <1>4, <1>6, <1>7 DEF Course

\* Every step leaves the processes alone or is the course of one of them.
LEMMA StepCourse ==
    ASSUME TypeInv, WorksOnRun, [Next]_vars
    PROVE  \/ UNCHANGED <<proc, ckpt>>
           \/ \E p \in Procs : Course(p) /\ SavesAt(p)
<1>p. Schedulers \subseteq Procs /\ Maintainers \subseteq Procs
  BY DEF Procs
<1>1. ASSUME NEW g \in Feedback, Submit(g) \/ ExpireLease(g)
      PROVE  UNCHANGED <<proc, ckpt>>
  BY <1>1 DEF Submit, ExpireLease
<1>2. ASSUME NEW p \in Procs, Poll(p) \/ Command(p)
      PROVE  Course(p) /\ SavesAt(p)
  BY <1>2, EntryCourse
<1>3. ASSUME NEW p \in Procs, Work(p)
      PROVE  Course(p) /\ SavesAt(p)
  BY <1>3, EntryCourse, ResumeCourse, NodeCourse, WriteCourse, RunCourse, SaveCourse
     DEF Work
<1>4. ASSUME NEW p \in Procs, Faulty(p)
      PROVE  Course(p) /\ SavesAt(p)
  <2>2. CASE Crash(p)
    BY <2>2, IdleCourse DEF Crash
  <2>3. CASE RepoError(p) \/ LostReply(p)
    BY <2>3, RaiseCourse DEF RepoError, LostReply, BeforeGraph
  <2> QED
    BY <1>4, <2>2, <2>3 DEF Faulty
<1>5. (UNCHANGED vars \/ \E t \in Tokens : LoseArtifacts(t)) => UNCHANGED <<proc, ckpt>>
  BY DEF vars, LoseArtifacts
<1>6. ASSUME NEW p \in Procs, PutCheckpoint(p)
      PROVE  Course(p) /\ SavesAt(p)
  BY <1>6, PutCourse
<1> QED
  BY <1>p, <1>1, <1>2, <1>3, <1>4, <1>5, <1>6 DEF Next

-----------------------------------------------------------------------------
(* The tokens *)

\* A run that exists goes on existing, for the same feedback.
LEMMA CreatedStays ==
    ASSUME TypeInv, TokensInv, [Next]_vars, NEW t \in Tokens, Created(t)
    PROVE  Created(t)' /\ run'[t].fid = run[t].fid
<1>1. RunSteps(t)
  BY RunsAndPlacesStep
<1>2. CASE RunSame(t)
  BY <1>2 DEF RunSame, Created
<1>3. ASSUME NEW p \in Procs, CreatesRun(p, t)
      PROVE  FALSE
  BY <1>3 DEF CreatesRun, TokensInv
<1>4. ASSUME NEW p \in Procs, PatchesRun(p, t)
      PROVE  Created(t)' /\ run'[t].fid = run[t].fid
  <2>1. proc[p].goal \in RunStatus
    BY <1>4, Started DEF PatchesRun, ProcOK
  <2> QED
    BY <1>4, <2>1 DEF PatchesRun, Created, RunStatus
<1> QED
  BY <1>1, <1>2, <1>3, <1>4 DEF RunSteps

\* What a process executes was created, and is not what another is about to create.
LEMMA WorksOnCreated ==
    ASSUME TypeInv, TokensInv, NEW p \in Procs, proc[p].pc \notin Fresh
    PROVE  /\ Created(proc[p].tok) /\ proc[p].tok \in Tokens /\ proc[p].fid \in Feedback
           /\ run[proc[p].tok].fid = proc[p].fid
<1>1. proc[p].tok \in Tokens /\ proc[p].fid \in Feedback
  BY Started DEF Fresh
<1>2. run[proc[p].tok].fid = proc[p].fid
  BY DEF TokensInv
<1> QED
  BY <1>1, <1>2, RunAssumption DEF TokensInv, RunAssumption, NoFeedback

LEMMA TokensNumbered ==
    ASSUME TypeInv
    PROVE  /\ claims \in Nat /\ Tokens \subseteq Nat \ {0}
           /\ \A t \in Tokens, f \in Feedback : fb[f].token \in Nat
BY RunAssumption, ClaimsAssumption
   DEF TypeInv, RowsOK, FeedbackRow, Tokens, NoToken, RunAssumption

LEMMA TokensStep ==
    ASSUME TypeInv, TypeInv', WorksOnRun, TokensInv, [Next]_vars
    PROVE  TokensInv'
<1>0. /\ PlaceSteps /\ \A t \in Tokens : RunSteps(t)
      /\ claims \in Nat /\ claims' \in Nat /\ claims <= claims' /\ Tokens \subseteq Nat
  BY RunsAndPlacesStep, TokensNumbered DEF PlaceSteps
<1>1. UNCHANGED proc \/ \E p \in Procs : Course(p)
  BY StepCourse
<1>s. \A p \in Procs : /\ proc[p].pc \notin Resting => proc[p].tok \in Tokens
                       /\ proc'[p].pc \notin Resting => proc'[p].tok \in Tokens
  BY DEF TypeInv, ProcsOK, ProcOK, Resting
<1>r. \A t \in Tokens : /\ run[t].status \in RunStatus \cup {"none"}
                        /\ run'[t].status \in RunStatus \cup {"none"}
  BY DEF TypeInv, RunsOK, RunRow
<1>2. ASSUME NEW t \in Tokens
      PROVE  /\ Created(t)' => t <= claims'
             /\ ~Created(t)' => run'[t].fid = NoFeedback
  <2>1. CASE RunSame(t)
    BY <1>0, <2>1 DEF RunSame, Created, TokensInv
  <2>2. ASSUME NEW p \in Procs, CreatesRun(p, t)
        PROVE  t <= claims' /\ Created(t)'
    BY <1>0, <2>2 DEF CreatesRun, Created, TokensInv, Resting
  <2>3. ASSUME NEW p \in Procs, PatchesRun(p, t)
        PROVE  t <= claims' /\ Created(t)'
    <3>1. proc[p].goal \in RunStatus /\ proc[p].tok <= claims
      BY <2>3, Started DEF PatchesRun, ProcOK, TokensInv, Resting
    <3> QED
      BY <1>0, <2>3, <3>1 DEF PatchesRun, Created, RunStatus
  <2> QED
    BY <1>0, <2>1, <2>2, <2>3 DEF RunSteps
<1>3. ASSUME NEW p \in Procs, proc'[p].pc \notin Resting
      PROVE  proc'[p].tok <= claims'
  <2>1. CASE Retains(p)
    <3>1. proc[p].tok <= claims /\ proc[p].tok \in Nat
      BY <1>0, <1>3, <1>s, <2>1 DEF TokensInv, Retains
    <3> QED
      BY <1>0, <2>1, <3>1 DEF Retains
  <2>2. CASE Course(p)
    <3>1. Rests(p) => FALSE
      BY <1>3 DEF Rests, Idle, Resting
    <3>2. ClaimsRow(p) => proc'[p].tok <= claims'
      BY <1>0 DEF ClaimsRow
    <3>3. TakesUp(p) \/ Finds(p) => proc'[p].tok <= claims
      BY DEF TakesUp, Finds, TokensInv, Resting, Fresh
    <3>4. SameRun(p) => proc'[p].tok <= claims
      BY DEF SameRun, TokensInv, Fresh, Resting
    <3>5. ClaimsRow(p) \/ TakesUp(p) \/ Finds(p) \/ SameRun(p) \/ Retains(p)
      BY <2>2, <3>1
         DEF Course, Reads, GoesOn, ReadyToSave, Concludes, Proceeds, Puts, Retains
    <3>6. proc'[p].tok \in Nat
      BY <1>0, <1>3, <1>s
    <3> HIDE DEF Tokens
    <3> QED
      BY <1>0, <2>1, <3>2, <3>3, <3>4, <3>5, <3>6
  <2> QED
    BY <1>1, <2>1, <2>2 DEF Course, Retains
<1>4. ASSUME NEW p \in Procs, proc'[p].pc = "create"
      PROVE  /\ run'[proc'[p].tok].status = "none"
             /\ \/ Retains(p)
                \/ /\ proc'[p].tok = claims + 1
                   /\ \A q \in Procs \ {p} : proc'[q] = proc[q]
  <2>1. CASE Retains(p)
    <3> DEFINE t == proc[p].tok
    <3>1. ~Created(t) /\ t \in Tokens /\ proc[p].pc = "create"
      BY <1>4, <1>s, <2>1 DEF TokensInv, Resting, Retains
    <3>2. ASSUME NEW q \in Procs, CreatesRun(q, t)
          PROVE  FALSE
      BY <2>1, <3>1, <3>2, <1>4 DEF CreatesRun, TokensInv, Retains
    <3>3. ASSUME NEW q \in Procs, PatchesRun(q, t)
          PROVE  FALSE
      BY <3>1, <3>3, WorksOnCreated DEF PatchesRun, Fresh
    <3>4. RunSame(t)
      BY <1>0, <3>1, <3>2, <3>3 DEF RunSteps
    <3> QED
      BY <2>1, <3>1, <3>4 DEF RunSame, Created, Retains
  <2>2. CASE Course(p) /\ ~Retains(p)
    <3>a. ~(Rests(p) \/ TakesUp(p) \/ Finds(p) \/ Reads(p) \/ GoesOn(p) \/ ReadyToSave(p)
              \/ Concludes(p) \/ Proceeds(p))
      BY <1>4 DEF Rests, Idle, TakesUp, Finds, Reads, GoesOn, ReadyToSave, Concludes,
                  Proceeds
    <3>b. ~Puts(p)
      BY <2>2 DEF Puts, Retains
    <3>1. ClaimsRow(p) /\ \A q \in Procs \ {p} : proc'[q] = proc[q]
      BY <2>2, <3>a, <3>b DEF Course
    <3> DEFINE t == claims + 1
    <3>2. t \in Tokens /\ proc'[p].tok = t
      BY <1>4, <1>s, <3>1 DEF ClaimsRow, Resting
    <3>3. ~Created(t)
      BY <1>0, <3>2 DEF TokensInv
    <3>4. \A q \in Procs : proc[q].pc \notin Resting => proc[q].tok # t
      BY <1>0, <1>s DEF TokensInv
    <3>5. RunSame(t)
      BY <1>0, <3>2, <3>4 DEF RunSteps, CreatesRun, PatchesRun, Resting
    <3> QED
      BY <3>1, <3>2, <3>3, <3>5 DEF RunSame, Created
  <2> QED
    BY <1>1, <2>1, <2>2 DEF Course, Retains
<1>5. ASSUME NEW p \in Procs, NEW q \in Procs, p # q,
             proc'[p].pc = "create", proc'[q].pc = "create"
      PROVE  proc'[p].tok # proc'[q].tok
  <2>1. CASE Retains(p) /\ Retains(q)
    BY <1>5, <2>1 DEF TokensInv, Retains
  <2>2. CASE proc'[p].tok = claims + 1 /\ Retains(q)
    BY <1>0, <1>5, <1>s, <2>2 DEF TokensInv, Resting, Retains
  <2>3. CASE proc'[q].tok = claims + 1 /\ Retains(p)
    BY <1>0, <1>5, <1>s, <2>3 DEF TokensInv, Resting, Retains
  <2> QED
    BY <1>4, <1>5, <2>1, <2>2, <2>3 DEF Retains
<1>6. ASSUME NEW p \in Procs, proc'[p].pc \notin Fresh
      PROVE  run'[proc'[p].tok].fid = proc'[p].fid
  <2>1. CASE proc'[p].tok = proc[p].tok /\ proc'[p].fid = proc[p].fid /\ proc[p].pc \notin Fresh
    BY <2>1, WorksOnCreated, CreatedStays
  <2>2. CASE TakesUp(p)
    <3>1. CASE proc[p].pc = "create" /\ CreatesRun(p, proc[p].tok)
               /\ proc'[p].tok = proc[p].tok /\ proc'[p].fid = proc[p].fid
      BY <3>1 DEF CreatesRun
    <3> QED
      BY <2>1, <2>2, <3>1 DEF TakesUp, Fresh
  <2>3. CASE Finds(p)
    <3>1. PICK t \in Tokens :
             /\ proc'[p].tok = t
             /\ \/ Created(t) /\ proc'[p].fid = run[t].fid
                \/ /\ proc[p].pc \notin Fresh
                   /\ t = proc[p].tok /\ proc'[p].fid = proc[p].fid
      BY <2>3 DEF Finds
    <3>2. CASE Created(t) /\ proc'[p].fid = run[t].fid
      BY <3>1, <3>2, CreatedStays
    <3> QED
      BY <2>1, <3>1, <3>2
  <2>4. CASE Retains(p)
    BY <1>6, <2>1, <2>4 DEF Retains
  <2> QED
    BY <1>1, <1>6, <2>1, <2>2, <2>3, <2>4
       DEF Course, Rests, Idle, ClaimsRow, Reads, GoesOn, ReadyToSave, Concludes, Proceeds,
           SameRun, Puts, Retains, Fresh
<1> QED
  BY <1>2, <1>3, <1>4, <1>5, <1>6 DEF TokensInv, Created
-----------------------------------------------------------------------------
(* Holding a row *)

\* The written goal of a compare-and-set takes the row out of the queue, or puts it
\* back there because main has moved.
LEMMA AimedWrite ==
    ASSUME TypeInv, NEW p \in Procs, NEW f \in Feedback, Aim(p), WritesRow(p, f)
    PROVE  /\ fb[f].token = proc[p].tok /\ proc[p].tok \in Tokens
           /\ \/ fb'[f].status \notin Unowned /\ fb'[f].token = fb[f].token
              \/ /\ proc[p].tok \in moved /\ RowRequeued(f) /\ fb[f].requeues = 0
<1>1. /\ proc[p].pc = "cas" /\ proc[p].fid = f /\ Matches(p)
      /\ proc[p].tok \in Tokens /\ ProcOK(proc[p])
  BY Started DEF WritesRow
<1>2. fb[f].token = proc[p].tok /\ proc[p].goal \in FeedbackStatus /\ proc[p].goal # "claimed"
  BY <1>1 DEF Matches, Aim, ProcOK
<1>3. CASE proc[p].goal = "pending"
  <2>1. proc[p].tok \in moved /\ fb[f].requeues = 0
    BY <1>1, <1>2, <1>3 DEF Aim
  <2>2. proc[p].mode # "reopen"
    BY <1>1, <1>3 DEF ProcOK, RetryGoals
  <2>3. proc[p].seen = "stale_base"
    BY <1>1, <1>3, <2>2 DEF Aim, CanMove
  <2> QED
    BY <1>1, <1>2, <1>3, <2>1, <2>3 DEF WritesRow
<1>4. CASE proc[p].goal # "pending"
  <2>1. fb'[f].status = proc[p].goal /\ fb'[f].token = fb[f].token
    BY <1>4 DEF WritesRow
  <2> QED
    BY <1>1, <1>2, <1>4, <2>1 DEF Unowned, FeedbackStatus
<1> QED
  BY <1>3, <1>4

\* A run that holds its row goes on holding it, unless it requeues it: then main has
\* moved, and the requeue is counted.
LEMMA HoldsStep ==
    ASSUME TypeInv, TokensInv, AimsInv, [Next]_vars, NEW t \in Tokens, Holds(t)
    PROVE  \/ Holds(t)'
           \/ /\ t \in moved /\ fb[run[t].fid].requeues = 0
              /\ fb'[run[t].fid].requeues = 1 /\ run'[t].fid = run[t].fid
<1> DEFINE f == run[t].fid
<1>1. Created(t) /\ fb[f].token = t /\ fb[f].status \notin Unowned
  BY DEF Holds, Owns
<1>2. f \in Feedback
  BY <1>1 DEF TypeInv, RunsOK, RunOK, Created
<1>3. Created(t)' /\ run'[t].fid = f
  BY <1>1, CreatedStays
<1> HIDE DEF f
<1>4. RowSteps(f)
  BY <1>2, RowsStep
<1>5. CASE RowSame(f)
  BY <1>1, <1>3, <1>5 DEF RowSame, Holds, Owns
<1>6. CASE RowQueued(f)
  BY <1>1, <1>6 DEF RowQueued
<1>7. ASSUME NEW p \in Procs, WritesRow(p, f)
      PROVE  \/ Holds(t)'
             \/ t \in moved /\ fb[f].requeues = 0 /\ fb'[f].requeues = 1
  <2>1. Aim(p)
    BY DEF AimsInv
  <2>2. fb[f].token = proc[p].tok
    BY <1>2, <1>7, <2>1, AimedWrite
  <2>3. CASE fb'[f].status \notin Unowned /\ fb'[f].token = fb[f].token
    BY <1>1, <1>3, <2>3 DEF Holds, Owns
  <2>4. CASE proc[p].tok \in moved /\ RowRequeued(f) /\ fb[f].requeues = 0
    BY <1>1, <2>2, <2>4 DEF RowRequeued
  <2> QED
    BY <1>2, <1>7, <2>1, <2>3, <2>4, AimedWrite
<1> QED
  BY <1>3, <1>4, <1>5, <1>6, <1>7 DEF RowSteps, f

\* Bound(t) and Position(t, n, out) after the step, for values of either state.
BoundNext(t) ==
    \/ t \in moved'
    \/ /\ run'[t].status # "none"
       /\ fb'[run'[t].fid].token = t
       /\ fb'[run'[t].fid].status \notin Unowned

PositionNext(t, n, out) ==
    /\ out = "opened" => t \in pulls'
    /\ out = "stale"  => t \in moved'
    /\ n = "finish_publication" => out \in Dispositions
    /\ n = "finish_issue_publication" => t \in issues'
    /\ n \notin {"start_gate", "end"} => BoundNext(t)

LEMMA PositionsGrow ==
    ASSUME TypeInv, TokensInv, AimsInv, [Next]_vars, NEW t \in Tokens
    PROVE  /\ pulls \subseteq pulls' /\ issues \subseteq issues' /\ moved \subseteq moved'
           /\ Bound(t) => BoundNext(t)
           /\ \A n, out : Position(t, n, out) => PositionNext(t, n, out)
<1>1. pulls \subseteq pulls' /\ issues \subseteq issues' /\ moved \subseteq moved'
  BY RunsAndPlacesStep DEF PlaceSteps, Opens, SeesMoved, OpensIssue
<1>2. Bound(t) => BoundNext(t)
  BY <1>1, HoldsStep DEF Bound, BoundNext, Holds, Owns, Created
<1>3. ASSUME NEW n, NEW out, Position(t, n, out)
      PROVE  PositionNext(t, n, out)
  BY <1>1, <1>2, <1>3 DEF Position, PositionNext
<1> QED
  BY <1>1, <1>2, <1>3
-----------------------------------------------------------------------------
(* The positions *)

\* Nodes that write no further row are not followed by a finishing publication.
LEMMA FinishesFollow ==
    ASSUME NEW n, NEW out
    PROVE  /\ Successor(n, out) = "finish_publication" => n = "publish_pull_request"
           /\ Successor(n, out) = "finish_issue_publication" => n = "publish_issue"
           /\ n \in WritingNodes => n \notin {"publish_pull_request", "publish_issue"}
<1>1. n \in WritingNodes => n \notin {"publish_pull_request", "publish_issue"}
  BY DEF WritingNodes, FinishNodes
<1> QED
  BY <1>1 DEF Successor, AfterGate, AfterRepairAgent, AfterReproduction, AfterValidateFinal,
              AfterValidation

\* What a process remembers after its own step.
InMemoryNext(p) ==
    /\ proc'[p].pc \in Fresh => proc'[p].unsaved = FALSE
    /\ proc'[p].pc \notin Fresh \cup {"save"} =>
          PositionNext(proc'[p].tok, proc'[p].node, proc'[p].out)
    /\ proc'[p].pc = "save" =>
          PositionNext(proc'[p].tok, Successor(proc'[p].node, proc'[p].out), proc'[p].out)
    /\ proc'[p].pc \in {"runget", "patch"} /\ proc'[p].mode = "graph" =>
          BoundNext(proc'[p].tok)

\* The run row of a process that goes on is held by the time it touches it.
LEMMA TouchesBound ==
    ASSUME TypeInv, TokensInv, PositionsInv, AimsInv, [Next]_vars, NEW p \in Procs,
           proc[p].pc \notin Fresh \cup {"save"}, proc[p].mode = "graph", MayTouchRun(p)
    PROVE  BoundNext(proc[p].tok)
<1> DEFINE t == proc[p].tok
           f == proc[p].fid
<1>1. t \in Tokens /\ f \in Feedback /\ Created(t) /\ run[t].fid = f
  BY WorksOnCreated
<1>2. InMemory(p) /\ Position(t, proc[p].node, proc[p].out) /\ Aim(p)
  BY DEF PositionsInv, InMemory, AimsInv
<1>3. Bound(t) => BoundNext(t)
  BY <1>1, PositionsGrow
<1>4. CASE proc[p].pc = "runget"
  BY <1>2, <1>3, <1>4 DEF InMemory
<1>5. CASE proc[p].node \notin {"start_gate", "end"}
  BY <1>2, <1>3, <1>5 DEF Position
<1>6. CASE Gated(p) /\ UNCHANGED <<fb, run>>
  BY <1>1, <1>6 DEF Gated, BoundNext, Created, Unowned
<1>7. CASE WritesRow(p, f)
  <2>1. run'[t].status # "none" /\ run'[t].fid = f
    BY <1>1, CreatedStays DEF Created
  <2> HIDE DEF t, f
  <2>2. t = proc[p].tok /\ f = proc[p].fid
    BY DEF t, f
  <2>3. \/ fb'[f].status \notin Unowned /\ fb'[f].token = t
        \/ t \in moved
    BY <1>1, <1>2, <1>7, <2>2, AimedWrite
  <2>4. moved \subseteq moved'
    BY <1>1, PositionsGrow
  <2> QED
    BY <2>1, <2>2, <2>3, <2>4 DEF BoundNext
<1> QED
  BY <1>4, <1>5, <1>6, <1>7 DEF MayTouchRun

LEMMA GoesOnPosition ==
    ASSUME TypeInv, TokensInv, PositionsInv, AimsInv, [Next]_vars, NEW p \in Procs,
           GoesOn(p) \/ ReadyToSave(p)
    PROVE  InMemoryNext(p)
<1> DEFINE t == proc[p].tok
<1>1. /\ proc[p].pc \notin Fresh \cup {"save"} /\ SameRun(p)
      /\ proc'[p].tok = t /\ proc'[p].node = proc[p].node /\ proc'[p].out = proc[p].out
  BY DEF GoesOn, ReadyToSave, SameRun
<1>2. t \in Tokens /\ Position(t, proc[p].node, proc[p].out) /\ InMemory(p)
  BY <1>1, WorksOnCreated DEF PositionsInv, InMemory
<1>3. PositionNext(t, proc[p].node, proc[p].out)
  BY <1>2, PositionsGrow
<1>4. CASE GoesOn(p)
  <2>1. proc'[p].pc \in {"fail", "post", "get", "cas", "runget", "patch"}
    BY <1>4 DEF GoesOn
  <2>2. proc'[p].pc \in {"runget", "patch"} /\ proc'[p].mode = "graph" =>
           proc[p].mode = "graph" /\ MayTouchRun(p)
    BY <1>4 DEF GoesOn, Justified
  <2>3. proc'[p].pc \in {"runget", "patch"} /\ proc'[p].mode = "graph" => BoundNext(t)
    BY <1>1, <2>2, TouchesBound
  <2> QED
    BY <1>1, <1>3, <2>1, <2>3 DEF InMemoryNext, Fresh
<1>5. CASE ReadyToSave(p)
  <2>1. /\ proc[p].pc \in {"runget", "patch"} /\ proc[p].mode = "graph"
        /\ proc'[p].pc = "save"
    BY <1>5 DEF ReadyToSave
  <2>2. proc[p].node \in WritingNodes
    BY <2>1 DEF TypeInv, ProcsOK, ProcOK, WritingNodes
  <2>3. BoundNext(t)
    BY <1>2, <2>1, PositionsGrow DEF InMemory
  <2>4. PositionNext(t, Successor(proc[p].node, proc[p].out), proc[p].out)
    BY <1>3, <2>2, <2>3, FinishesFollow DEF PositionNext
  <2> QED
    BY <1>1, <2>1, <2>4 DEF InMemoryNext, Fresh
<1> QED
  BY <1>4, <1>5

LEMMA ConcludesPosition ==
    ASSUME TypeInv, TokensInv, PositionsInv, AimsInv, [Next]_vars, NEW p \in Procs,
           Concludes(p)
    PROVE  InMemoryNext(p)
<1> DEFINE t == proc[p].tok
           n == proc[p].node
           out == proc'[p].out
<1>1. /\ proc[p].pc \notin Fresh \cup {"save"} /\ SameRun(p)
      /\ proc'[p].tok = t /\ proc'[p].node = n /\ proc'[p].pc = "save"
  BY DEF Concludes, SameRun, Fresh
<1>2. t \in Tokens /\ Position(t, n, proc[p].out)
  BY <1>1, WorksOnCreated DEF PositionsInv, InMemory
<1>3. PositionNext(t, n, proc[p].out)
  BY <1>2, PositionsGrow
<1>4. n \notin {"start_gate", "end"}
  BY DEF Concludes, WritingNodes, FinishNodes
<1>5. BoundNext(t)
  BY <1>3, <1>4 DEF PositionNext
<1>6. (out = "opened" => t \in pulls') /\ (out = "stale" => t \in moved')
  BY <1>3 DEF Concludes, PositionNext, Dispositions
<1>7. /\ n = "publish_pull_request" => out \in Dispositions
      /\ n = "publish_issue" => t \in issues'
  BY DEF Concludes
<1>8. PositionNext(t, Successor(n, out), out)
  BY <1>5, <1>6, <1>7, FinishesFollow DEF PositionNext
<1> QED
  BY <1>1, <1>8 DEF InMemoryNext, Fresh

LEMMA AgreesPosition ==
    ASSUME TypeInv, TokensInv, PositionsInv, AimsInv, [Next]_vars, NEW p \in Procs,
           Retains(p)
    PROVE  InMemoryNext(p)
<1>1. InMemory(p)
  BY DEF PositionsInv
<1>2. ASSUME proc[p].pc \notin Fresh
      PROVE  proc[p].tok \in Tokens
  BY <1>2, Started DEF Fresh
<1>3. proc'[p].pc \in Fresh => proc'[p].unsaved = FALSE
  BY <1>1 DEF InMemory, Retains
<1>4. /\ proc'[p].pc \notin Fresh \cup {"save"} =>
            PositionNext(proc'[p].tok, proc'[p].node, proc'[p].out)
      /\ proc'[p].pc \in {"runget", "patch"} /\ proc'[p].mode = "graph" =>
            BoundNext(proc'[p].tok)
  BY <1>1, <1>2, PositionsGrow DEF InMemory, Retains, Fresh
<1>5. proc'[p].pc = "save" =>
         PositionNext(proc'[p].tok, Successor(proc'[p].node, proc'[p].out), proc'[p].out)
  BY <1>1, <1>2, PositionsGrow DEF InMemory, Retains, Fresh, Following
<1> QED
  BY <1>3, <1>4, <1>5 DEF InMemoryNext

LEMMA CoursePosition ==
    ASSUME TypeInv, TokensInv, PositionsInv, AimsInv, [Next]_vars, NEW p \in Procs,
           Course(p)
    PROVE  InMemoryNext(p)
<1>0. InMemory(p)
  BY DEF PositionsInv
<1>1. CASE Rests(p)
  BY <1>0, <1>1 DEF Rests, Idle, InMemory, InMemoryNext, Fresh
<1>2. CASE ClaimsRow(p)
  BY <1>2 DEF ClaimsRow, InMemoryNext, Fresh
<1>3. CASE TakesUp(p)
  <2>1. PICK t \in Tokens : /\ proc'[p].tok = t /\ proc'[p].node = ckpt[t].node
                            /\ proc'[p].out = ckpt[t].out
                            /\ proc'[p].pc = "node"
    BY <1>3 DEF TakesUp
  <2>2. Position(t, ckpt[t].node, ckpt[t].out)
    BY DEF PositionsInv, Saved
  <2>3. PositionNext(t, ckpt[t].node, ckpt[t].out)
    BY <2>2, PositionsGrow
  <2> QED
    BY <2>1, <2>3 DEF InMemoryNext, Fresh
<1>4. CASE Proceeds(p)
  <2>1. /\ proc[p].pc = "save" /\ proc'[p].tok = proc[p].tok /\ proc'[p].pc = "node"
        /\ proc'[p].node = Following(p) /\ proc'[p].out = proc[p].out
        /\ proc[p].tok \in Tokens
    BY <1>4, Started DEF Proceeds, SameRun
  <2>2. PositionNext(proc[p].tok, Following(p), proc[p].out)
    BY <1>0, <2>1, PositionsGrow DEF InMemory
  <2> QED
    BY <2>1, <2>2 DEF InMemoryNext, Fresh
<1>5. CASE Finds(p)
  BY <1>5 DEF Finds, InMemoryNext, PositionNext, Fresh
<1>6. CASE Reads(p)
  <2>1. /\ proc[p].pc \notin Fresh \cup {"save"} /\ proc[p].tok \in Tokens
        /\ proc'[p].tok = proc[p].tok
        /\ proc'[p].node = proc[p].node /\ proc'[p].out = proc[p].out
        /\ proc'[p].pc \in {"load", "start", "get"}
    BY <1>6, Started DEF Reads, SameRun, Fresh
  <2>2. PositionNext(proc[p].tok, proc[p].node, proc[p].out)
    BY <1>0, <2>1, PositionsGrow DEF InMemory
  <2> QED
    BY <2>1, <2>2 DEF InMemoryNext, Fresh
<1>7. CASE Puts(p)
  BY <1>7, AgreesPosition DEF Puts, Retains
<1> QED
  BY <1>1, <1>2, <1>3, <1>4, <1>5, <1>6, <1>7, GoesOnPosition, ConcludesPosition DEF Course

LEMMA PositionsStep ==
    ASSUME TypeInv, TypeInv', WorksOnRun, TokensInv, PositionsInv, AimsInv, [Next]_vars
    PROVE  PositionsInv'
<1>1. ASSUME NEW p \in Procs, proc'[p] = proc[p]
      PROVE  InMemoryNext(p)
  BY <1>1, AgreesPosition DEF Retains
<1>2. \A p \in Procs : InMemoryNext(p)
  BY <1>1, StepCourse, CoursePosition DEF Course
<1>3. ASSUME NEW t \in Tokens
      PROVE  PositionNext(t, ckpt'[t].node, ckpt'[t].out)
  <2>1. CASE ckpt'[t] = ckpt[t]
    BY <2>1, PositionsGrow DEF PositionsInv, Saved
  <2>2. ASSUME NEW p \in Procs, SavesAt(p), ckpt'[t] # ckpt[t]
        PROVE  PositionNext(t, ckpt'[t].node, ckpt'[t].out)
    <3>0. InMemory(p) /\ ckpt \in [Tokens -> Checkpoint]
      BY DEF PositionsInv, TypeInv, CkptsOK
    <3>1. CASE /\ proc[p].unsaved /\ proc[p].pc # "save"
               /\ ckpt' = [ckpt EXCEPT ![proc[p].tok] = PointsTo(proc[p].node, proc[p].out)]
      <4>1. proc[p].pc \notin Fresh \cup {"save"}
        BY <3>0, <3>1 DEF InMemory
      <4>2. Position(t, proc[p].node, proc[p].out) /\ t = proc[p].tok
        BY <2>2, <3>0, <3>1, <4>1 DEF InMemory
      <4>3. ckpt'[t].node = proc[p].node /\ ckpt'[t].out = proc[p].out
        BY <3>0, <3>1, <4>2 DEF PointsTo
      <4> QED
        BY <4>2, <4>3, PositionsGrow
    <3>2. CASE /\ proc[p].pc = "save"
               /\ ckpt' = [ckpt EXCEPT ![proc[p].tok] = PointsTo(Following(p), proc[p].out)]
      <4>2. Position(t, Following(p), proc[p].out) /\ t = proc[p].tok
        BY <2>2, <3>0, <3>2 DEF InMemory
      <4>3. ckpt'[t].node = Following(p) /\ ckpt'[t].out = proc[p].out
        BY <3>0, <3>2, <4>2 DEF PointsTo
      <4> QED
        BY <4>2, <4>3, PositionsGrow
    <3> QED
      BY <2>2, <3>1, <3>2 DEF SavesAt
  <2> QED
    BY <2>1, <2>2, StepCourse
<1>4. \A t \in Tokens : Saved(t)'
  BY <1>3 DEF Saved, Position, Bound, Holds, Owns, Created, PositionNext, BoundNext
<1>5. \A p \in Procs : InMemory(p)'
  BY <1>2 DEF InMemory, Position, Bound, Holds, Owns, Created, Following, InMemoryNext,
              PositionNext, BoundNext
<1> QED
  BY <1>4, <1>5 DEF PositionsInv
-----------------------------------------------------------------------------
(* What processes aim at *)

\* What a node sets out to write says what is in the checkpoint, and the checkpoint
\* says what is on GitHub.
LEMMA GoalsMeant ==
    ASSUME NEW t, NEW n, NEW out, Position(t, n, out), Handed(n, out),
           NEW m \in Moves(n, out)
    PROVE  /\ m[2] # "claimed"
           /\ m[2] = "pending" => t \in moved
           /\ m[2] = "pr_opened" => t \in pulls
           /\ m[2] = "issue_opened" => t \in issues
BY DEF Position, Handed, Routes, Dispositions, Moves, StartGateMoves, RouteFeedbackMoves,
       FinishIssuePublicationMoves, FinishReproductionMoves, FinishAgentBlockedMoves,
       FinishRepairSuccessMoves, FinishRepairFailureMoves, FinishValidationMoves,
       FinishBudgetExhaustedMoves, FinishPublicationMoves

\* A row that still has the token has not been requeued meanwhile.
LEMMA RequeuesStay ==
    ASSUME TypeInv, TokensInv, AimsInv, [Next]_vars, NEW p \in Procs,
           proc[p].pc = "cas", proc[p].goal = "pending",
           fb'[proc[p].fid].token = proc[p].tok
    PROVE  fb'[proc[p].fid].requeues = 0
<1> DEFINE f == proc[p].fid
           t == proc[p].tok
<1>1. /\ f \in Feedback /\ t \in Tokens /\ t <= claims /\ t # NoToken
      /\ t \in Nat /\ claims \in Nat
  BY Started, TokensNumbered DEF TokensInv, Resting, NoToken
<1>2. fb[f].token = t => fb[f].requeues = 0
  BY DEF AimsInv, Aim
<1> HIDE DEF f, t
<1>3. RowSteps(f)
  BY <1>1, RowsStep
<1>4. fb'[f].token = t
  BY DEF f, t
<1>5. fb'[f].token # NoToken /\ fb'[f].token # claims + 1
  <2> HIDE DEF NoToken
  <2> QED
    BY <1>1, <1>4
<1>6. fb'[f].token = fb[f].token /\ fb'[f].requeues = fb[f].requeues
  BY <1>3, <1>5 DEF RowSteps, RowSame, RowQueued, RowRequeued, WritesRow
<1> QED
  BY <1>2, <1>4, <1>6 DEF f, t

LEMMA GoesOnAim ==
    ASSUME TypeInv, TokensInv, PositionsInv, AimsInv, [Next]_vars, NEW p \in Procs,
           GoesOn(p)
    PROVE  Aim(p)'
<1> DEFINE t == proc[p].tok
           goal == proc'[p].goal
<1>1. /\ proc[p].pc \notin Fresh \cup {"save"}
      /\ proc'[p].tok = t /\ proc'[p].fid = proc[p].fid
  BY DEF GoesOn, SameRun
<1>2. /\ t \in Tokens /\ Position(t, proc[p].node, proc[p].out) /\ Aim(p)
      /\ Handed(proc[p].node, proc[p].out)
  BY <1>1, WorksOnCreated DEF PositionsInv, InMemory, AimsInv, TypeInv, ProcsOK, ProcOK
<1>3. pulls \subseteq pulls' /\ issues \subseteq issues' /\ moved \subseteq moved'
  BY <1>2, PositionsGrow
<1>4. CASE proc'[p].pc = "get"
  <2>1. MayGet(p, goal)
    BY <1>4 DEF GoesOn, Justified
  <2>2. /\ goal # "claimed"
        /\ goal = "pending" => t \in moved
        /\ goal = "pr_opened" => t \in pulls
        /\ goal = "issue_opened" => t \in issues
    BY <1>2, <2>1, GoalsMeant DEF MayGet
  <2> QED
    BY <1>1, <1>3, <1>4, <2>2 DEF Aim
<1>5. CASE proc'[p].pc = "cas"
  <2>1. MayCas(p, proc'[p].seen, goal) /\ proc'[p].mode = proc[p].mode
    BY <1>5 DEF GoesOn, Justified
  <2>2. CASE /\ proc[p].mode = "reopen" /\ proc'[p].seen = "failed" /\ goal \in RetryGoals
    BY <1>1, <1>5, <2>1, <2>2 DEF Aim, RetryGoals
  <2>3. CASE /\ proc[p].mode # "reopen" /\ proc[p].pc = "get"
             /\ goal = proc[p].goal /\ UNCHANGED fb
             /\ CanMove(proc'[p].seen, goal)
             /\ proc'[p].seen = "stale_base" /\ goal = "pending" =>
                   fb[proc[p].fid].requeues = 0
    <3>1. goal = "pending" => proc'[p].seen = "stale_base"
      BY <2>3 DEF CanMove
    <3> QED
      BY <1>1, <1>2, <1>3, <1>5, <2>1, <2>3, <3>1 DEF Aim
  <2> QED
    BY <2>1, <2>2, <2>3 DEF MayCas
<1>6. CASE proc'[p].pc = "patch"
  <2>1. MayPatch(p, goal)
    BY <1>6 DEF GoesOn, Justified
  <2>2. goal = "stale_base" => t \in moved
    BY <1>2, <2>1 DEF MayPatch, Position, Dispositions
  <2> QED
    BY <1>1, <1>3, <1>6, <2>2 DEF Aim
<1>7. CASE proc'[p].pc \notin {"get", "cas", "patch"}
  BY <1>7 DEF Aim
<1> QED
  BY <1>4, <1>5, <1>6, <1>7

LEMMA AimsStep ==
    ASSUME TypeInv, TypeInv', WorksOnRun, TokensInv, PositionsInv, AimsInv, [Next]_vars
    PROVE  AimsInv'
<1>1. ASSUME NEW p \in Procs, Retains(p)
      PROVE  Aim(p)'
  <2>1. CASE proc[p].pc \in {"get", "cas", "patch"}
    <3>1. Aim(p) /\ proc[p].tok \in Tokens
      BY <2>1, Started DEF AimsInv
    <3>2. pulls \subseteq pulls' /\ issues \subseteq issues' /\ moved \subseteq moved'
      BY <3>1, PositionsGrow
    <3>3. proc[p].pc = "cas" /\ proc[p].goal = "pending"
             /\ fb'[proc[p].fid].token = proc[p].tok => fb'[proc[p].fid].requeues = 0
      BY RequeuesStay
    <3> QED
      BY <1>1, <3>1, <3>2, <3>3 DEF Aim, Retains
  <2>2. CASE proc[p].pc \notin {"get", "cas", "patch"}
    BY <1>1, <2>2 DEF Aim, Retains
  <2> QED
    BY <2>1, <2>2
<1>2. ASSUME NEW p \in Procs, Course(p)
      PROVE  Aim(p)'
  <2>1. CASE GoesOn(p)
    BY <2>1, GoesOnAim
  <2>2. CASE Reads(p)
    <3>1. proc'[p].pc \notin {"cas", "patch"}
          /\ (proc'[p].pc = "get" => proc'[p].goal \in RetryGoals)
      BY <2>2 DEF Reads
    <3> QED
      BY <3>1 DEF Aim, RetryGoals
  <2>3. CASE Rests(p) \/ ClaimsRow(p) \/ TakesUp(p) \/ Finds(p) \/ ReadyToSave(p)
             \/ Concludes(p) \/ Proceeds(p)
    <3>1. proc'[p].pc \notin {"get", "cas", "patch"}
      BY <2>3 DEF Rests, Idle, ClaimsRow, TakesUp, Finds, ReadyToSave, Concludes, Proceeds
    <3> QED
      BY <3>1 DEF Aim
  <2>4. CASE Puts(p)
    BY <1>1, <2>4 DEF Puts, Retains
  <2> QED
    BY <1>2, <2>1, <2>2, <2>3, <2>4 DEF Course
<1>3. ASSUME NEW p \in Procs
      PROVE  Aim(p)'
  BY <1>1, <1>2, StepCourse DEF Course, Retains
<1> QED
  BY <1>3 DEF AimsInv
-----------------------------------------------------------------------------
(* The tables and GitHub *)

LEMMA CreatedHasFeedback ==
    ASSUME TypeInv, TokensInv, NEW t \in Tokens
    PROVE  Created(t) <=> run[t].fid \in Feedback
BY RunAssumption DEF TypeInv, RunsOK, RunOK, Created, TokensInv, RunAssumption, NoFeedback

LEMMA RequeuedStays ==
    ASSUME TypeInv, [Next]_vars, NEW f \in Feedback, fb[f].requeues = 1
    PROVE  fb'[f].requeues = 1
BY RowsStep DEF RowSteps, RowSame, RowQueued, RowRequeued, WritesRow

\* A run that sees main move holds its row then.
LEMMA NewlyMoved ==
    ASSUME TypeInv, TokensInv, PositionsInv, [Next]_vars, NEW t \in moved', t \notin moved
    PROVE  t \in Tokens /\ Holds(t)
<1>1. PICK p \in Procs : At(p, "publish_pull_request") /\ moved' = moved \cup {proc[p].tok}
  BY RunsAndPlacesStep DEF PlaceSteps, SeesMoved
<1>2. /\ t = proc[p].tok /\ proc[p].pc \notin Fresh \cup {"save"}
      /\ proc[p].node \notin {"start_gate", "end"}
  BY <1>1 DEF At, Fresh
<1>3. t \in Tokens /\ Position(t, proc[p].node, proc[p].out)
  BY <1>2, WorksOnCreated DEF PositionsInv, InMemory
<1> QED
  BY <1>2, <1>3 DEF Position, Bound

LEMMA MovedStep ==
    ASSUME TypeInv, TypeInv', TokensInv, PositionsInv, AimsInv, PlacesInv, [Next]_vars,
           NEW t \in moved'
    PROVE  /\ t \in Tokens /\ Created(t) /\ run'[t].fid = run[t].fid /\ Created(t)'
           /\ run[t].fid \in Feedback
           /\ t \in moved \/ Holds(t)
           /\ Holds(t)' \/ fb'[run[t].fid].requeues = 1
<1>1. t \in Tokens
  BY DEF TypeInv, RestOK
<1>2. t \in moved \/ Holds(t)
  BY NewlyMoved
<1>3. Created(t)
  BY <1>2 DEF PlacesInv, Holds, Owns
<1>4. run[t].fid \in Feedback
  BY <1>1, <1>3, CreatedHasFeedback
<1>5. Holds(t) => Holds(t)' \/ fb'[run[t].fid].requeues = 1
  BY <1>1, HoldsStep
<1>6. ~Holds(t) => fb'[run[t].fid].requeues = 1
  BY <1>2, <1>4, RequeuedStays DEF PlacesInv
<1> QED
  BY <1>1, <1>2, <1>3, <1>4, <1>5, <1>6, CreatedStays

LEMMA PlacesStep ==
    ASSUME TypeInv, TypeInv', TokensInv, PositionsInv, AimsInv, PlacesInv, [Next]_vars
    PROVE  PlacesInv'
<1>0. PlaceSteps /\ \A t \in Tokens : RunSteps(t)
  BY RunsAndPlacesStep
<1>1. ASSUME NEW t \in pulls' \cup issues' \cup moved'
      PROVE  Created(t)'
  <2>1. t \in Tokens
    BY DEF TypeInv, RestOK
  <2>2. ASSUME t \notin pulls \cup issues \cup moved
        PROVE  \E p \in Procs : t = proc[p].tok /\ proc[p].pc \in {"node", "post"}
    BY <1>0, <2>2 DEF PlaceSteps, Opens, SeesMoved, OpensIssue, At
  <2>3. Created(t)
    BY <2>2, WorksOnCreated DEF PlacesInv, Fresh
  <2> QED
    BY <2>1, <2>3, CreatedStays
<1>2. ASSUME NEW t \in Tokens, run'[t].status = "stale_base"
      PROVE  t \in moved'
  <2>1. moved \subseteq moved'
    BY PositionsGrow, <1>2
  <2>2. CASE RunSame(t)
    BY <1>2, <2>1, <2>2 DEF RunSame, PlacesInv
  <2>3. ASSUME NEW p \in Procs, CreatesRun(p, t) \/ PatchesRun(p, t)
        PROVE  t \in moved'
    BY <1>2, <2>1, <2>3 DEF CreatesRun, PatchesRun, AimsInv, Aim
  <2> QED
    BY <1>0, <2>2, <2>3 DEF RunSteps
<1>3. ASSUME NEW t \in moved'
      PROVE  Holds(t)' \/ fb'[run'[t].fid].requeues = 1
  BY <1>3, MovedStep
<1>4. ASSUME NEW t \in moved', NEW u \in moved', run'[t].fid = run'[u].fid,
             ~Holds(t)', ~Holds(u)'
      PROVE  t = u
  <2>1. /\ t \in Tokens /\ u \in Tokens /\ run[t].fid = run[u].fid
        /\ t \in moved \/ Holds(t)
        /\ u \in moved \/ Holds(u)
    BY <1>4, MovedStep
  <2>2. /\ Holds(t) => fb[run[t].fid].requeues = 0
        /\ Holds(u) => fb[run[u].fid].requeues = 0
    BY <1>4, <2>1, HoldsStep
  <2>3. CASE Holds(t) /\ Holds(u)
    BY <2>1, <2>3 DEF Holds, Owns
  <2>4. CASE Holds(t) /\ ~Holds(u)
    BY <2>1, <2>2, <2>4 DEF PlacesInv
  <2>5. CASE ~Holds(t) /\ Holds(u)
    BY <2>1, <2>2, <2>5 DEF PlacesInv
  <2>6. CASE ~Holds(t) /\ ~Holds(u)
    BY <2>1, <2>6 DEF PlacesInv
  <2> QED
    BY <2>3, <2>4, <2>5, <2>6
<1> QED
  BY <1>1, <1>2, <1>3, <1>4 DEF PlacesInv

LEMMA RowsInvStep ==
    ASSUME TypeInv, TypeInv', TokensInv, PositionsInv, AimsInv, RowsInv, [Next]_vars
    PROVE  RowsInv'
<1> SUFFICES ASSUME NEW f \in Feedback
             PROVE  /\ fb'[f].status \in InFlight =>
                          fb'[f].token \in Tokens /\ run'[fb'[f].token].fid = f
                    /\ fb'[f].status = "pr_opened"    => fb'[f].token \in pulls'
                    /\ fb'[f].status = "issue_opened" => fb'[f].token \in issues'
  BY DEF RowsInv
<1>0. pulls \subseteq pulls' /\ issues \subseteq issues'
  BY RunsAndPlacesStep DEF PlaceSteps, Opens, OpensIssue
<1>1. RowSteps(f)
  BY RowsStep
<1>2. ASSUME NEW t \in Tokens, run[t].fid = f
      PROVE  run'[t].fid = f
  BY <1>2, CreatedHasFeedback, CreatedStays
<1>3. CASE RowSame(f)
  BY <1>0, <1>2, <1>3 DEF RowSame, RowsInv
<1>4. CASE RowQueued(f)
  BY <1>4 DEF RowQueued, InFlight
<1>5. ASSUME NEW p \in Procs, WritesRow(p, f)
      PROVE  /\ fb'[f].status \in InFlight =>
                   fb'[f].token \in Tokens /\ run'[fb'[f].token].fid = f
             /\ fb'[f].status = "pr_opened"    => fb'[f].token \in pulls'
             /\ fb'[f].status = "issue_opened" => fb'[f].token \in issues'
  <2>1. /\ proc[p].pc = "cas" /\ proc[p].fid = f /\ fb[f].token = proc[p].tok
        /\ proc[p].tok \in Tokens /\ run[proc[p].tok].fid = f
    BY <1>5, WorksOnCreated DEF WritesRow, Matches, Fresh
  <2>2. Aim(p)
    BY DEF AimsInv
  <2>3. run'[proc[p].tok].fid = f
    BY <1>2, <2>1
  <2>4. CASE RowRequeued(f)
    BY <2>4 DEF RowRequeued, InFlight
  <2>5. CASE fb'[f].status = proc[p].goal /\ fb'[f].token = fb[f].token
    BY <1>0, <2>1, <2>2, <2>3, <2>5 DEF Aim
  <2> QED
    BY <1>5, <2>4, <2>5 DEF WritesRow
<1> QED
  BY <1>1, <1>3, <1>4, <1>5 DEF RowSteps

LEMMA PullsStep ==
    ASSUME TypeInv, TypeInv', TokensInv, PlacesInv, OnePullPerFeedback, [Next]_vars
    PROVE  OnePullPerFeedback'
<1>1. ASSUME NEW t \in pulls, NEW u \in pulls, run'[t].fid = run'[u].fid
      PROVE  t = u
  <2>1. t \in Tokens /\ u \in Tokens /\ Created(t) /\ Created(u)
    BY DEF TypeInv, RestOK, PlacesInv
  <2> QED
    BY <1>1, <2>1, CreatedStays DEF OnePullPerFeedback
<1>2. ASSUME NEW p \in Procs, Opens(p)
      PROVE  OnePullPerFeedback'
  <2> DEFINE t == proc[p].tok
  <2>1. t \in Tokens /\ Created(t)
    BY <1>2, WorksOnCreated DEF Opens, At, Fresh
  <2>2. ASSUME NEW u \in pulls, run'[t].fid = run'[u].fid
        PROVE  t = u
    <3>1. u \in Tokens /\ Created(u)
      BY DEF TypeInv, RestOK, PlacesInv
    <3>2. run[t].fid = run[u].fid
      BY <2>1, <2>2, <3>1, CreatedStays
    <3> QED
      BY <1>2, <2>1, <3>1, <3>2 DEF Opens, OtherPulls
  <2>3. pulls' = pulls \cup {t}
    BY <1>2 DEF Opens
  <2> HIDE DEF t
  <2> QED
    BY <1>1, <2>2, <2>3 DEF OnePullPerFeedback
<1>3. UNCHANGED pulls \/ \E p \in Procs : Opens(p)
  BY RunsAndPlacesStep DEF PlaceSteps
<1> QED
  BY <1>1, <1>2, <1>3 DEF OnePullPerFeedback
-----------------------------------------------------------------------------
(* The invariant and what follows from it *)

LEMMA OwnershipInit == Init => OwnershipInv
<1> SUFFICES ASSUME Init PROVE OwnershipInv
  OBVIOUS
<1>1. /\ \A p \in Procs : proc[p] = Idle
      /\ \A t \in Tokens : run[t].status = "none" /\ run[t].fid = NoFeedback
      /\ \A t \in Tokens : ckpt[t].node = "start_gate" /\ ckpt[t].out = "none"
      /\ \A f \in Feedback : fb[f].status = "absent"
      /\ pulls = {} /\ issues = {} /\ moved = {}
  BY DEF Init
<1>2. TokensInv
  BY <1>1 DEF TokensInv, Idle, Resting, Fresh, Created
<1>3. PositionsInv
  BY <1>1 DEF PositionsInv, Saved, Position, InMemory, Idle, Fresh
<1>4. AimsInv
  BY <1>1 DEF AimsInv, Aim, Idle
<1>5. PlacesInv
  BY <1>1 DEF PlacesInv
<1>6. RowsInv
  BY <1>1 DEF RowsInv, InFlight
<1>7. OnePullPerFeedback
  BY <1>1 DEF OnePullPerFeedback
<1> QED
  BY <1>2, <1>3, <1>4, <1>5, <1>6, <1>7 DEF OwnershipInv

RunInv == TypeInv /\ WorksOnRun /\ OwnershipInv

LEMMA RunInvStep == RunInv /\ [Next]_vars => RunInv'
<1> SUFFICES ASSUME RunInv, [Next]_vars PROVE RunInv'
  OBVIOUS
<1>1. TypeInv /\ WorksOnRun /\ OwnershipInv
  BY DEF RunInv
<1>2. TypeInv' /\ WorksOnRun'
  BY <1>1, TypeStep
<1>3. TokensInv' /\ PositionsInv' /\ AimsInv'
  BY <1>1, <1>2, TokensStep, PositionsStep, AimsStep DEF OwnershipInv
<1>4. PlacesInv' /\ RowsInv' /\ OnePullPerFeedback'
  BY <1>1, <1>2, PlacesStep, RowsInvStep, PullsStep DEF OwnershipInv
<1> QED
  BY <1>2, <1>3, <1>4 DEF RunInv, OwnershipInv

LEMMA RunInvHolds == Spec => []RunInv
<1>1. Init => RunInv
  BY TypeInit, OwnershipInit DEF RunInv
<1> QED
  BY <1>1, RunInvStep, PTL DEF Spec

\* A feedback between the gate and a verdict belongs to a run that exists, for any
\* number of schedulers and maintainers and any faults (start, transition).
THEOREM InFlightIsRun == Spec => []InFlightHasRun
<1>1. RunInv => InFlightHasRun
  BY DEF RunInv, OwnershipInv, RowsInv, InFlightHasRun
<1> QED
  BY <1>1, RunInvHolds, PTL

\* The reader is never told of a pull request or an issue that is not on GitHub
\* (finish_publication, finish_issue_publication and their replays).
THEOREM OpenedExists == Spec => []OpenedIsPublished
<1>1. RunInv => OpenedIsPublished
  BY CreatedHasFeedback DEF RunInv, OwnershipInv, RowsInv, OpenedIsPublished, Owns
<1> QED
  BY <1>1, RunInvHolds, PTL

\* A feedback has one pull request, whatever is replayed, requeued or reopened
\* (publish, _find_existing_pull).
THEOREM PullIsUnique == Spec => []OnePullPerFeedback
<1>1. RunInv => OnePullPerFeedback
  BY DEF RunInv, OwnershipInv
<1> QED
  BY <1>1, RunInvHolds, PTL

\* The stale runs of a feedback are the one that requeued it and at most one more,
\* which still holds the row.
LEMMA StaleRunsOfRow ==
    ASSUME RunInv, NEW f \in Feedback
    PROVE  \E a, b : {t \in Tokens : run[t].fid = f /\ run[t].status = "stale_base"}
                        \subseteq {a, b}
<1> DEFINE stale == {t \in Tokens : run[t].fid = f /\ run[t].status = "stale_base"}
<1>1. \A t \in stale : t \in moved
  BY DEF RunInv, OwnershipInv, PlacesInv
<1>2. \A t \in stale : Holds(t) => t = fb[f].token
  BY DEF Holds, Owns
<1>3. \A t, u \in stale : ~Holds(t) /\ ~Holds(u) => t = u
  BY <1>1 DEF RunInv, OwnershipInv, PlacesInv
<1> HIDE DEF stale
<1>4. CASE \A t \in stale : Holds(t)
  <2>1. stale \subseteq {fb[f].token, fb[f].token}
    BY <1>2, <1>4
  <2> QED
    BY <2>1 DEF stale
<1>5. ASSUME NEW u \in stale, ~Holds(u)
      PROVE  \E a, b : stale \subseteq {a, b}
  <2>1. stale \subseteq {fb[f].token, u}
    BY <1>2, <1>3, <1>5
  <2> QED
    BY <2>1
<1> QED
  BY <1>4, <1>5 DEF stale

\* A feedback meets a base that main has left behind twice at most, because a run
\* that goes stale still holds its row and the row counts the requeue
\* (finish_publication, complete_stale_base).
THEOREM StaleTwiceAtMost == Spec => []StaleRunsBounded
<1>1. RunInv => StaleRunsBounded
  <2> SUFFICES ASSUME RunInv, NEW f \in Feedback
               PROVE  Cardinality({t \in Tokens : run[t].fid = f
                                                  /\ run[t].status = "stale_base"}) <= 2
    BY DEF StaleRunsBounded
  <2> DEFINE stale == {t \in Tokens : run[t].fid = f /\ run[t].status = "stale_base"}
  <2>1. PICK a, b : stale \subseteq {a, b}
    BY StaleRunsOfRow
  <2> HIDE DEF stale
  <2>2. IsFiniteSet({a}) /\ Cardinality({a}) = 1
    BY FS_Singleton
  <2>3. /\ IsFiniteSet({a} \cup {b})
        /\ Cardinality({a} \cup {b}) = IF b \in {a} THEN 1 ELSE 2
    BY <2>2, FS_AddElement
  <2>4. stale \in SUBSET ({a} \cup {b})
    BY <2>1
  <2>5. IsFiniteSet(stale) /\ Cardinality(stale) <= Cardinality({a} \cup {b})
    BY <2>3, <2>4, FS_Subset
  <2>6. Cardinality(stale) \in Nat
    BY <2>5, FS_CardinalityType
  <2>7. Cardinality(stale) <= 2
    BY <2>3, <2>5, <2>6
  <2> QED
    BY <2>7 DEF stale
<1> QED
  BY <1>1, RunInvHolds, PTL

\* A lone process that is about to open a pull request saw main at the run's base,
\* and nobody else has seen it elsewhere since.
PostInv == \A p \in Procs : proc[p].pc = "post" => proc[p].tok \notin moved

\* Who goes to open the pull request has not seen main move.
LEMMA LooksOrSees ==
    ASSUME NEW d, Procs = {d}, TypeInv, [Next]_vars, At(d, "publish_pull_request"),
           proc'[d].pc = "post"
    PROVE  UNCHANGED moved
<1>p. d \in Procs /\ Schedulers \subseteq Procs /\ Maintainers \subseteq Procs
  BY DEF Procs
<1>1. ASSUME LookForPull(d), moved' # moved
      PROVE  FALSE
  <2>1. \E out : Conclude(d, out)
    BY <1>1 DEF LookForPull
  <2> QED
    BY <1>p, <2>1 DEF Conclude, TypeInv, ProcsOK, Process
<1>2. ASSUME NEW p \in Procs, Work(p), ~LookForPull(p)
      PROVE  UNCHANGED moved
  BY <1>2
     DEF Work, ClaimNext, GiveUp, Claim, CreateRun, ReadRunToResume, ReadThread, StartGraph,
         ClassifyGate, PrepareSource, RepairAgent, ValidateFinal, PublishIssue, PostPull,
         PostFails, NothingPending, NodeFails, ArtifactMissing, ReadFeedback,
         FinalizeFailure, CheckTransition, CheckReopen, WriteFeedback, ReadRunInGraph,
         ReadRunToFail, ReadRunToReopen, PatchRun, NextNode
<1>3. ASSUME NEW p \in Procs, Poll(p) \/ Command(p) \/ PutCheckpoint(p) \/ Faulty(p)
      PROVE  UNCHANGED moved
  BY <1>3 DEF Poll, PollEmpty, PollResume, Command, ClaimById, GiveUp, Claim, ResumeById,
              PutCheckpoint, Faulty, Crash, RepoError, LostReply
<1>4. (\/ UNCHANGED vars \/ \E t \in Tokens : LoseArtifacts(t)
       \/ \E f \in Feedback : Submit(f) \/ ExpireLease(f))
         => UNCHANGED moved
  BY DEF vars, LoseArtifacts, Submit, ExpireLease
<1> QED
  BY <1>p, <1>1, <1>2, <1>3, <1>4 DEF Next

LEMMA PostStep ==
    ASSUME NEW d, Procs = {d}, RunInv, PostInv, [Next]_vars
    PROVE  PostInv'
<1>1. TypeInv /\ WorksOnRun /\ d \in Procs
  BY DEF RunInv
<1>2. SUFFICES ASSUME proc'[d].pc = "post"
               PROVE  proc'[d].tok \notin moved'
  BY DEF PostInv
<1>3. UNCHANGED moved \/ SeesMoved(d)
  BY <1>1, RunsAndPlacesStep DEF PlaceSteps
<1>4. proc'[d] = proc[d] \/ Course(d)
  BY <1>1, StepCourse
<1>5. CASE Retains(d)
  <2>1. proc[d].pc = "post" /\ proc'[d].tok = proc[d].tok
    BY <1>2, <1>5 DEF Retains
  <2>2. UNCHANGED moved
    BY <1>3, <2>1 DEF SeesMoved, At
  <2> QED
    BY <1>1, <2>1, <2>2 DEF PostInv
<1>6. CASE GoesOn(d)
  <2>1. /\ proc[d].pc = "node" /\ proc[d].tok \notin moved /\ proc'[d].tok = proc[d].tok
        /\ At(d, "publish_pull_request")
    BY <1>2, <1>6 DEF GoesOn, SameRun, At
  <2>2. UNCHANGED moved
    BY <1>1, <1>2, <2>1, LooksOrSees
  <2> QED
    BY <2>1, <2>2
<1>7. ~(Rests(d) \/ ClaimsRow(d) \/ TakesUp(d) \/ Finds(d) \/ Reads(d) \/ ReadyToSave(d)
        \/ Concludes(d) \/ Proceeds(d))
  BY <1>2 DEF Rests, Idle, ClaimsRow, TakesUp, Finds, Reads, ReadyToSave, Concludes, Proceeds
<1> QED
  BY <1>4, <1>5, <1>6, <1>7 DEF Course, Puts, Retains

\* With one process, no pull request is opened for a run that has lost its feedback to
\* another run, although the publication does not look at the row before: the run
\* holds it until it sees main move, and then opens nothing (publish_pull_request).
THEOREM PullsOwned ==
    ASSUME NEW d, Procs = {d}
    PROVE  Spec => PullsByOwner
<1>1. RunInv /\ PostInv /\ [Next]_vars => [\A t \in pulls' \ pulls : Owns(t)]_vars
  <2> SUFFICES ASSUME RunInv, PostInv, [Next]_vars, NEW t \in pulls' \ pulls
               PROVE  Owns(t)
    OBVIOUS
  <2>0. TypeInv /\ TokensInv /\ PositionsInv
    BY DEF RunInv, OwnershipInv
  <2>1. PICK p \in Procs : proc[p].pc = "post" /\ pulls' = pulls \cup {proc[p].tok}
    BY <2>0, RunsAndPlacesStep DEF PlaceSteps, Opens
  <2>2. /\ t = proc[p].tok /\ t \notin moved
        /\ proc[p].pc \notin Fresh \cup {"save"}
    BY <2>1 DEF PostInv, Fresh
  <2>3. proc[p].node \notin {"start_gate", "end"}
    BY <2>0, <2>1 DEF TypeInv, ProcsOK, ProcOK
  <2>4. Position(t, proc[p].node, proc[p].out)
    BY <2>0, <2>2 DEF PositionsInv, InMemory
  <2> QED
    BY <2>2, <2>3, <2>4 DEF Position, Bound, Holds
<1>2. Init => PostInv
  BY DEF Init, PostInv, Idle
<1> QED
  BY <1>1, <1>2, PostStep, RunInvHolds, PTL DEF Spec, PullsByOwner
-----------------------------------------------------------------------------
(* The rows implement the life cycle *)

\* What FeedbackLifecycle sees of a row.
ItemOf(row) == [status   |-> row.status,   token    |-> row.token,
                attempts |-> row.attempts, requeues |-> row.requeues]

Items == [f \in Feedback |-> ItemOf(fb[f])]

LEMMA ItemUpdated ==
    ASSUME TypeInv, NEW f \in Feedback, NEW r, fb' = [fb EXCEPT ![f] = r]
    PROVE  Items' = [Items EXCEPT ![f] = ItemOf(r)]
<1>1. fb \in [Feedback -> FeedbackRow]
  BY DEF TypeInv, RowsOK
<1>2. \A g \in Feedback : fb'[g] = IF g = f THEN r ELSE fb[g]
  BY <1>1
<1>3. \A g \in Feedback : ItemOf(fb'[g]) = IF g = f THEN ItemOf(r) ELSE ItemOf(fb[g])
  BY <1>2
<1>4. Items' = [g \in Feedback |-> ItemOf(fb'[g])]
  BY DEF Items, ItemOf
<1>5. Items' = [g \in Feedback |-> IF g = f THEN ItemOf(r) ELSE ItemOf(fb[g])]
  BY <1>3, <1>4
<1> QED
  BY <1>5 DEF Items

LEMMA ItemSteps ==
    ASSUME NEW f \in Feedback,
           \/ Lifecycle!Submit(f) \/ Lifecycle!Advance(f)
           \/ Lifecycle!Requeue(f) \/ Lifecycle!Reopen(f)
    PROVE  Lifecycle!Next
BY DEF Lifecycle!Next

LEMMA SameItem ==
    ASSUME NEW S, NEW T, NEW A, NEW R,
           NEW u \in [status : S, token : T, attempts : A, requeues : R],
           NEW v \in [status : S, token : T, attempts : A, requeues : R],
           u.status = v.status, u.token = v.token,
           u.attempts = v.attempts, u.requeues = v.requeues
    PROVE  u = v
OBVIOUS

LEMMA SubmitItem ==
    ASSUME TypeInv, NEW f \in Feedback, Submit(f)
    PROVE  Lifecycle!Next
<1> DEFINE r == [fb[f] EXCEPT !.status = "pending"]
<1>1. fb[f] \in FeedbackRow /\ fb \in [Feedback -> FeedbackRow]
  BY DEF TypeInv, RowsOK
<1>2. fb' = [fb EXCEPT ![f] = r] /\ fb[f].status = "absent" /\ UNCHANGED claims
  BY <1>1 DEF Submit
<1>3. ItemOf(r) = [ItemOf(fb[f]) EXCEPT !.status = "pending"]
  BY <1>1 DEF ItemOf, FeedbackRow
<1> HIDE DEF r
<1>i. Items[f] = ItemOf(fb[f]) /\ Items' = [Items EXCEPT ![f] = ItemOf(r)]
  BY <1>2, ItemUpdated DEF Items
<1>4. Items' = [Items EXCEPT ![f].status = "pending"]
  BY <1>3, <1>i
<1>5. Lifecycle!Submit(f)
  BY <1>2, <1>4 DEF Lifecycle!Submit, Items, ItemOf
<1> QED
  BY <1>5 DEF Lifecycle!Next

LEMMA ExpiryItem ==
    ASSUME TypeInv, NEW f \in Feedback, ExpireLease(f)
    PROVE  UNCHANGED <<Items, claims>>
<1> DEFINE r == [fb[f] EXCEPT !.lease = FALSE]
<1>1. fb[f] \in FeedbackRow /\ fb \in [Feedback -> FeedbackRow]
  BY DEF TypeInv, RowsOK
<1>2. fb' = [fb EXCEPT ![f] = r] /\ UNCHANGED claims
  BY <1>1 DEF ExpireLease
<1>3. ItemOf(r) = ItemOf(fb[f])
  BY <1>1 DEF ItemOf, FeedbackRow
<1> HIDE DEF r
<1> QED
  BY <1>2, <1>3, ItemUpdated DEF Items

LEMMA GivenUpItems ==
    ASSUME TypeInv, NEW gone \in SUBSET Feedback
    PROVE  [f \in Feedback |-> ItemOf(GivenUp(gone)[f])] = Lifecycle!GivenUp(gone)
<1>1. ASSUME NEW f \in Feedback
      PROVE  ItemOf(GivenUp(gone)[f]) =
                IF f \in gone THEN [ItemOf(fb[f]) EXCEPT !.status = "needs_human",
                                                         !.token = NoToken]
                              ELSE ItemOf(fb[f])
  <2>1. fb[f] \in FeedbackRow
    BY DEF TypeInv, RowsOK
  <2>2. CASE f \in gone
    BY <2>1, <2>2 DEF GivenUp, ItemOf, FeedbackRow
  <2>3. CASE f \notin gone
    BY <2>3 DEF GivenUp
  <2> QED
    BY <2>2, <2>3
<1> QED
  BY <1>1 DEF Lifecycle!GivenUp, ItemOf, Lifecycle!NoToken, NoToken

LEMMA GiveUpItems ==
    ASSUME TypeInv, NEW p, NEW gone \in SUBSET Feedback, GiveUp(p, gone),
           \A g \in gone : Exhausted(g)
    PROVE  Lifecycle!Next \/ UNCHANGED <<Items, claims>>
<1>1. fb' = GivenUp(gone) /\ UNCHANGED claims
  BY DEF GiveUp
<1>2. CASE gone = {}
  <2>1. GivenUp(gone) = fb
    BY <1>2 DEF GivenUp, TypeInv, RowsOK
  <2> QED
    BY <1>1, <2>1 DEF Items
<1>3. CASE gone # {}
  <2>1. Items' = Lifecycle!GivenUp(gone)
    BY <1>1, GivenUpItems DEF Items
  <2>2. \A g \in gone : Lifecycle!Exhausted(g)
    BY DEF Exhausted, Claimable, Lifecycle!Exhausted, Lifecycle!Waiting
  <2>3. Lifecycle!GiveUp(gone)
    BY <1>1, <1>3, <2>1, <2>2 DEF Lifecycle!GiveUp, Items, ItemOf
  <2> QED
    BY <2>3 DEF Lifecycle!Next
<1> QED
  BY <1>2, <1>3

LEMMA ClaimItems ==
    ASSUME TypeInv, NEW p, NEW f \in Feedback, NEW gone \in SUBSET Feedback,
           Claim(p, f, gone), \A g \in gone : Exhausted(g),
           Claimable(f), ~Exhausted(f)
    PROVE  Lifecycle!Next
<1> DEFINE r == [fb[f] EXCEPT !.status = "claimed", !.token = claims + 1, !.lease = TRUE,
                              !.attempts = @ + 1, !.err = "none"]
<1>1. fb[f] \in FeedbackRow /\ fb[f].attempts \in Nat /\ MaxAttempts \in Nat
  BY ClaimsAssumption DEF TypeInv, RowsOK, FeedbackRow
<1>2. /\ fb' = [GivenUp(gone) EXCEPT ![f] = r]
      /\ claims < MaxClaims /\ claims' = claims + 1
  BY DEF Claim, Claimed
<1>r. /\ r.status = "claimed" /\ r.token = claims + 1
      /\ r.attempts = fb[f].attempts + 1 /\ r.requeues = fb[f].requeues
  BY <1>1 DEF FeedbackRow
<1> HIDE DEF r
<1>3. ItemOf(r) = [ItemOf(fb[f]) EXCEPT !.status = "claimed", !.token = claims + 1,
                                        !.attempts = @ + 1]
  <2> DEFINE u == ItemOf(r)
             v == [ItemOf(fb[f]) EXCEPT !.status = "claimed", !.token = claims + 1,
                                     !.attempts = @ + 1]
             shape == [status : {"claimed", fb[f].status}, token : {claims + 1, fb[f].token},
                       attempts : {fb[f].attempts + 1, fb[f].attempts},
                       requeues : {fb[f].requeues}]
  <2>1. u \in shape
    BY <1>r DEF ItemOf
  <2>2. v \in shape
    BY DEF ItemOf
  <2>3. /\ u.status = v.status /\ u.token = v.token
        /\ u.attempts = v.attempts /\ u.requeues = v.requeues
    BY <1>r DEF ItemOf
  <2> HIDE DEF u, v
  <2>4. u = v
    BY <2>1, <2>2, <2>3, SameItem
  <2> QED
    BY <2>4 DEF u, v
<1>4. Items' = [[g \in Feedback |-> ItemOf(GivenUp(gone)[g])] EXCEPT ![f] = ItemOf(r)]
  BY <1>2 DEF Items, GivenUp
<1>5. Items' = [Lifecycle!GivenUp(gone) EXCEPT
                  ![f] = [Items[f] EXCEPT !.status = "claimed", !.token = claims + 1,
                                          !.attempts = @ + 1]]
  BY <1>3, <1>4, GivenUpItems DEF Items
<1>6. f \notin gone /\ fb[f].attempts < MaxAttempts
  BY <1>1 DEF Exhausted
<1>7. (\A g \in gone : Lifecycle!Exhausted(g)) /\ Lifecycle!Waiting(f)
  BY DEF Exhausted, Claimable, Lifecycle!Exhausted, Lifecycle!Waiting
<1>8. Lifecycle!Claim(f, gone)
  BY <1>2, <1>5, <1>6, <1>7 DEF Lifecycle!Claim, Items, ItemOf
<1> QED
  BY <1>6, <1>8 DEF Lifecycle!Next

LEMMA WrittenItem ==
    ASSUME TypeInv, AimsInv, NEW p \in Procs, proc[p].pc = "cas", Matches(p),
           fb' = Written(p), UNCHANGED claims, NEW f \in Feedback, f = proc[p].fid
    PROVE  Lifecycle!Next
<1> DEFINE row == fb[f]
<1>1. /\ row \in FeedbackRow /\ Aim(p) /\ ProcOK(proc[p])
      /\ fb \in [Feedback -> FeedbackRow]
  BY DEF AimsInv, TypeInv, RowsOK, ProcsOK
<1>2. row.status = proc[p].seen /\ row.token = proc[p].tok
  BY DEF Matches
<1>t. row.token # Lifecycle!NoToken
  <2>1. proc[p].tok \in Tokens
    BY Started
  <2> QED
    BY <1>2, <2>1, TokensNumbered DEF Lifecycle!NoToken
<1>3. CASE proc[p].seen = "stale_base" /\ proc[p].goal = "pending"
  <2> DEFINE r == [row EXCEPT !.status = "pending", !.token = NoToken, !.lease = FALSE,
                              !.requeues = 1, !.err = "none"]
  <2>1. fb' = [fb EXCEPT ![f] = r]
    BY <1>1, <1>3 DEF Written
  <2>r. /\ r.status = "pending" /\ r.token = NoToken
        /\ r.attempts = row.attempts /\ r.requeues = 1
    BY <1>1 DEF FeedbackRow
  <2> HIDE DEF r
  <2>2. ItemOf(r) = [ItemOf(row) EXCEPT !.status = "pending", !.token = NoToken,
                                        !.requeues = 1]
    <3> DEFINE u == ItemOf(r)
               v == [ItemOf(row) EXCEPT !.status = "pending", !.token = NoToken,
                                      !.requeues = 1]
               shape == [status : {"pending", row.status}, token : {NoToken, row.token},
                         attempts : {row.attempts}, requeues : {1, row.requeues}]
    <3>1. u \in shape
      BY <2>r DEF ItemOf
    <3>2. v \in shape
      BY DEF ItemOf
    <3>3. /\ u.status = v.status /\ u.token = v.token
          /\ u.attempts = v.attempts /\ u.requeues = v.requeues
      BY <2>r DEF ItemOf
    <3> HIDE DEF u, v
    <3>4. u = v
      BY <3>1, <3>2, <3>3, SameItem
    <3> QED
      BY <3>4 DEF u, v
  <2>3. row.requeues = 0 /\ row.status = "stale_base"
    BY <1>1, <1>2, <1>3 DEF Aim
  <2>4. Items' = [Items EXCEPT ![f].status = "pending", ![f].token = NoToken,
                               ![f].requeues = 1]
    <3>1. Items[f] = ItemOf(row) /\ Items' = [Items EXCEPT ![f] = ItemOf(r)]
      BY <1>1, <2>1, ItemUpdated DEF Items
    <3> QED
      BY <2>2, <3>1
  <2>5. Lifecycle!Requeue(f)
    BY <1>1, <1>t, <2>3, <2>4 DEF Lifecycle!Requeue, Items, ItemOf, Lifecycle!NoToken, NoToken
  <2> QED
    BY <1>1, <2>5, ItemSteps
<1>4. CASE ~(proc[p].seen = "stale_base" /\ proc[p].goal = "pending")
  <2>1. PICK e : fb' = [fb EXCEPT ![f] = [row EXCEPT !.status = proc[p].goal,
                                                     !.lease = FALSE, !.err = e]]
    BY <1>1, <1>4 DEF Written
  <2> DEFINE r == [row EXCEPT !.status = proc[p].goal, !.lease = FALSE, !.err = e]
  <2>2. ItemOf(r) = [ItemOf(row) EXCEPT !.status = proc[p].goal]
    BY <1>1 DEF ItemOf, FeedbackRow
  <2>3. fb' = [fb EXCEPT ![f] = r]
    BY <2>1
  <2> HIDE DEF r
  <2>4. Items' = [Items EXCEPT ![f].status = proc[p].goal]
    <3>1. Items[f] = ItemOf(row) /\ Items' = [Items EXCEPT ![f] = ItemOf(r)]
      BY <1>1, <2>3, ItemUpdated DEF Items
    <3> QED
      BY <2>2, <3>1
  <2>5. CASE proc[p].mode = "reopen"
    <3>1. row.status = "failed" /\ proc[p].goal \in RetryGoals
      BY <1>1, <1>2, <2>5 DEF Aim, ProcOK
    <3>2. Lifecycle!Reopen(f)
      BY <1>1, <1>t, <2>4, <3>1 DEF Lifecycle!Reopen, Items, ItemOf, RetryGoals
    <3> QED
      BY <1>1, <3>2, ItemSteps
  <2>6. CASE proc[p].mode # "reopen"
    <3>1. CanMove(row.status, proc[p].goal)
      BY <1>1, <1>2, <2>6 DEF Aim
    <3>2. proc[p].goal \in FeedbackStatus \ {"pending", "claimed"}
      BY <1>1, <1>2, <1>4, <3>1 DEF Aim, ProcOK, CanMove
    <3>3. Lifecycle!CanMove(row.status, proc[p].goal)
      BY <3>1 DEF CanMove, Lifecycle!CanMove
    <3>4. Lifecycle!Advance(f)
      BY <1>1, <1>t, <2>4, <3>2, <3>3
         DEF Lifecycle!Advance, Items, ItemOf, FeedbackStatus, Lifecycle!FeedbackStatus
    <3> QED
      BY <1>1, <3>4, ItemSteps
  <2> QED
    BY <2>5, <2>6
<1> QED
  BY <1>3, <1>4
LEMMA StepItems ==
    ASSUME TypeInv, AimsInv, [Next]_vars
    PROVE  Lifecycle!Next \/ UNCHANGED <<Items, claims>>
<1>p. Schedulers \subseteq Procs /\ Maintainers \subseteq Procs
  BY DEF Procs
<1>0. UNCHANGED <<fb, claims>> => UNCHANGED <<Items, claims>>
  BY DEF Items
<1>1. ASSUME NEW f \in Feedback, Submit(f) \/ ExpireLease(f)
      PROVE  Lifecycle!Next \/ UNCHANGED <<Items, claims>>
  BY <1>1, SubmitItem, ExpiryItem
<1>2. ASSUME NEW p \in Procs, Poll(p)
      PROVE  UNCHANGED <<fb, claims>>
  BY <1>2 DEF Poll, PollResume, PollEmpty
<1>3. ASSUME NEW p \in Procs, Command(p)
      PROVE  Lifecycle!Next \/ UNCHANGED <<Items, claims>>
  <2>1. ASSUME NEW t \in Tokens, ResumeById(p, t)
        PROVE  UNCHANGED <<fb, claims>>
    BY <2>1 DEF ResumeById
  <2>2. ASSUME NEW f \in Feedback, ClaimById(p, f)
        PROVE  Lifecycle!Next \/ UNCHANGED <<Items, claims>>
    <3>1. CASE Exhausted(f)
      <4>1. GiveUp(p, {f}) /\ {f} \in SUBSET Feedback /\ \A g \in {f} : Exhausted(g)
        BY <2>2, <3>1 DEF ClaimById
      <4> QED
        BY <4>1, GiveUpItems
    <3>2. CASE ~Exhausted(f)
      <4>1. Claim(p, f, {}) /\ Claimable(f)
        BY <2>2, <3>2 DEF ClaimById
      <4> QED
        BY <3>2, <4>1, ClaimItems
    <3> QED
      BY <3>1, <3>2
  <2> QED
    BY <1>0, <1>3, <2>1, <2>2 DEF Command
<1>4. ASSUME NEW p \in Procs, Work(p)
      PROVE  Lifecycle!Next \/ UNCHANGED <<Items, claims>>
  <2>1. CASE ClaimNext(p)
    <3> DEFINE gone == {f \in Feedback : Exhausted(f)}
    <3>1. gone \in SUBSET Feedback /\ \A g \in gone : Exhausted(g)
      OBVIOUS
    <3>2. \/ GiveUp(p, gone)
          \/ \E f \in Feedback \ gone : Claimable(f) /\ Claim(p, f, gone)
      BY <2>1 DEF ClaimNext
    <3>3. \A f \in Feedback \ gone : ~Exhausted(f)
      OBVIOUS
    <3> HIDE DEF gone
    <3> QED
      BY <3>1, <3>2, <3>3, GiveUpItems, ClaimItems
  <2>2. CASE WriteFeedback(p)
    <3>1. /\ UNCHANGED claims
          /\ \/ UNCHANGED fb
             \/ proc[p].pc = "cas" /\ Matches(p) /\ fb' = Written(p)
      BY <2>2 DEF WriteFeedback
    <3>2. proc[p].fid \in Feedback
      BY <2>2, Started DEF WriteFeedback
    <3> QED
      BY <1>0, <3>1, <3>2, WrittenItem
  <2>3. CASE ~ClaimNext(p) /\ ~WriteFeedback(p)
    <3>1. UNCHANGED <<fb, claims>>
      BY <1>4, <2>3
         DEF Work, CreateRun, ReadRunToResume, ReadThread, StartGraph, ClassifyGate,
             PrepareSource, RepairAgent, ValidateFinal, PublishIssue, LookForPull,
             PostPull, PostFails, NothingPending, NodeFails, ArtifactMissing,
             ReadFeedback, FinalizeFailure, CheckTransition, CheckReopen,
             ReadRunInGraph, ReadRunToFail, ReadRunToReopen, PatchRun, NextNode
    <3> QED
      BY <1>0, <3>1
  <2> QED
    BY <2>1, <2>2, <2>3
<1>5. ASSUME NEW p \in Procs, Faulty(p)
      PROVE  Lifecycle!Next \/ UNCHANGED <<Items, claims>>
  <2>1. /\ UNCHANGED claims
        /\ \/ UNCHANGED fb
           \/ proc[p].pc = "cas" /\ Matches(p) /\ fb' = Written(p)
    BY <1>5 DEF Faulty, Crash, RepoError, LostReply
  <2>2. proc[p].pc = "cas" => proc[p].fid \in Feedback
    BY Started
  <2> QED
    BY <1>0, <2>1, <2>2, WrittenItem
<1>6. (\/ UNCHANGED vars \/ \E t \in Tokens : LoseArtifacts(t)
       \/ \E p \in Procs : PutCheckpoint(p))
         => UNCHANGED <<fb, claims>>
  BY DEF vars, LoseArtifacts, PutCheckpoint
<1> QED
  BY <1>p, <1>0, <1>1, <1>2, <1>3, <1>4, <1>5, <1>6 DEF Next

\* The feedback rows keep the queue's promise in any interleaving of schedulers and
\* maintainers and with any fault: at most MaxAttempts claims, each under a token of
\* its own, moves along the table only, one requeue, and a verdict that only a
\* maintainer reopens (claim_next_agent_feedback, transition, retry_publication).
THEOREM RowsImplementLifecycle == Spec => ImplementsLifecycle
<1>1. Init => Lifecycle!Init
  BY DEF Init, Lifecycle!Init, NoToken, Lifecycle!NoToken
<1>2. RunInv /\ [Next]_vars => [Lifecycle!Next]_(Lifecycle!lifeVars)
  <2>1. RunInv /\ [Next]_vars => Lifecycle!Next \/ UNCHANGED <<Items, claims>>
    BY StepItems DEF RunInv, OwnershipInv
  <2>2. Lifecycle!lifeVars = <<Items, claims>>
    BY DEF Lifecycle!lifeVars, Items, ItemOf
  <2> QED
    BY <2>1, <2>2 DEF Lifecycle!lifeVars, Items, ItemOf
<1> QED
  BY <1>1, <1>2, RunInvHolds, PTL DEF Spec, ImplementsLifecycle, Lifecycle!Spec
-----------------------------------------------------------------------------
(* One scheduler *)

\* With one process, whatever it is doing, no other run is active.
SingleInv ==
    /\ \A t, u \in Tokens : Active(t) /\ Active(u) => t = u
    /\ \A p \in Procs : /\ proc[p].pc \in {"claim", "create"} => \A t \in Tokens : ~Active(t)
                        /\ proc[p].pc \notin Fresh => \A t \in Tokens :
                              Active(t) => t = proc[p].tok

LEMMA PutAgrees ==
    ASSUME TypeInv, NEW p \in Procs, PutCheckpoint(p)
    PROVE  Retains(p) /\ UNCHANGED run
<1> DEFINE next == [proc[p] EXCEPT !.unsaved = FALSE]
<1>1. proc[p] \in Process
  BY DEF TypeInv, ProcsOK
<1>2. /\ next.pc = proc[p].pc /\ next.mode = proc[p].mode /\ next.tok = proc[p].tok
      /\ next.fid = proc[p].fid /\ next.node = proc[p].node /\ next.out = proc[p].out
      /\ next.seen = proc[p].seen /\ next.goal = proc[p].goal
  BY <1>1 DEF Process
<1>3. next.unsaved = FALSE
  BY <1>1 DEF Process
<1> HIDE DEF next
<1>4. proc'[p] = next
  BY RecordStep DEF PutCheckpoint, next
<1> QED
  BY <1>2, <1>3, <1>4 DEF Retains, PutCheckpoint

\* An idle scheduler only polls.
LEMMA IdlePolls ==
    ASSUME TypeInv, WorksOnRun, NEW s, Schedulers = {s}, Maintainers = {}, [Next]_vars,
           proc[s].pc = "idle"
    PROVE  Poll(s) \/ (Retains(s) /\ UNCHANGED run)
<1>1. Procs = {s}
  BY DEF Procs
<1>2. ~Work(s) /\ ~Faulty(s)
  BY DEF Work, ClaimNext, CreateRun, ReadRunToResume, ReadThread, StartGraph, ClassifyGate,
         PrepareSource, RepairAgent, ValidateFinal, PublishIssue, LookForPull, PostPull,
         PostFails, NothingPending, NodeFails, ArtifactMissing, ReadFeedback,
         FinalizeFailure, CheckTransition, CheckReopen, WriteFeedback, ReadRunInGraph,
         ReadRunToFail, ReadRunToReopen, PatchRun, NextNode, At, Faulty, Crash, RepoError,
         LostReply, BeforeGraph
<1>3. (UNCHANGED vars \/ \E t \in Tokens : LoseArtifacts(t)) => UNCHANGED <<proc, run>>
  BY DEF vars, LoseArtifacts
<1>4. (\E f \in Feedback : Submit(f) \/ ExpireLease(f)) => UNCHANGED <<proc, run>>
  BY DEF Submit, ExpireLease
<1>5. UNCHANGED <<proc, run>> => Retains(s) /\ UNCHANGED run
  BY DEF Retains
<1>6. PutCheckpoint(s) => Retains(s) /\ UNCHANGED run
  BY <1>1, PutAgrees
<1> QED
  BY <1>1, <1>2, <1>3, <1>4, <1>5, <1>6 DEF Next

LEMMA SingleStep ==
    ASSUME TypeInv, TypeInv', WorksOnRun, NEW s, Schedulers = {s}, Maintainers = {}, SingleInv,
           [Next]_vars
    PROVE  SingleInv'
<1>1. Procs = {s} /\ s \in Procs
  BY DEF Procs
<1>2. Retains(s) /\ UNCHANGED run => SingleInv'
  BY <1>1 DEF SingleInv, Active, Retains
<1>3. CASE PollEmpty(s)
  <2>1. proc'[s].pc = "claim" /\ UNCHANGED run
    BY <1>1, <1>3 DEF PollEmpty, Goto, TypeInv, ProcsOK, Process
  <2> QED
    BY <1>1, <1>3, <2>1 DEF PollEmpty, SingleInv, Active, Fresh
<1>4. ASSUME NEW t \in Tokens, PollResume(s, t)
      PROVE  SingleInv'
  <2>1. Active(t) /\ UNCHANGED run
    BY <1>4 DEF PollResume
  <2>2. proc'[s] = Resuming(t)
    BY <1>1, <1>4, RecordStep DEF PollResume
  <2>3. proc'[s].pc = "resume" /\ proc'[s].tok = t
    BY <2>2, ResumingFields
  <2> QED
    BY <1>1, <2>1, <2>3 DEF SingleInv, Active, Fresh
<1>5. CASE proc[s].pc # "idle" /\ Course(s) /\ ~(Puts(s) /\ UNCHANGED <<fb, run>>)
  <2>1. ASSUME NEW t \in Tokens, Active(t)'
        PROVE  t = proc[s].tok /\ proc[s].pc # "claim"
    <3>1. RunSteps(t)
      BY RunsAndPlacesStep
    <3>2. CASE RunSame(t)
      <4>1. Active(t)
        BY <2>1, <3>2 DEF RunSame, Active
      <4> QED
        BY <1>1, <1>5, <4>1 DEF SingleInv, Fresh
    <3> QED
      BY <1>1, <3>1, <3>2 DEF RunSteps, CreatesRun, PatchesRun
  <2>2. proc'[s].pc = "claim" => FALSE
    BY <1>5 DEF Course, Rests, Idle, ClaimsRow, TakesUp, Finds, Reads, GoesOn, ReadyToSave,
                Concludes, Proceeds
  <2>3. proc'[s].pc = "create" => proc[s].pc = "claim"
    BY <1>5 DEF Course, Rests, Idle, ClaimsRow, TakesUp, Finds, Reads, GoesOn, ReadyToSave,
                Concludes, Proceeds, Resting
  <2>4. proc'[s].pc \notin Fresh => proc'[s].tok = proc[s].tok
    BY <1>5 DEF Course, Rests, Idle, ClaimsRow, TakesUp, Finds, Reads, GoesOn, ReadyToSave,
                Concludes, Proceeds, SameRun, Fresh
  <2> QED
    BY <1>1, <2>1, <2>2, <2>3, <2>4 DEF SingleInv
<1>6. CASE proc[s].pc # "idle" /\ UNCHANGED <<proc, ckpt>>
  <2>1. ASSUME NEW t \in Tokens, Active(t)'
        PROVE  Active(t) \/ (proc[s].pc = "patch" /\ t = proc[s].tok)
    <3>1. RunSteps(t)
      BY RunsAndPlacesStep
    <3>2. RunSame(t) => Active(t)
      BY <2>1 DEF RunSame, Active
    <3> QED
      BY <1>1, <1>6, <3>1, <3>2 DEF RunSteps, CreatesRun, PatchesRun
  <2> QED
    BY <1>1, <1>6, <2>1 DEF SingleInv, Fresh
<1>7. CASE Puts(s) /\ UNCHANGED <<fb, run>>
  BY <1>2, <1>7 DEF Puts, Retains
<1> QED
  BY <1>1, <1>2, <1>3, <1>4, <1>5, <1>6, <1>7, IdlePolls, StepCourse DEF Poll

\* Where one scheduler is all there is, one run is active at a time, whatever fails:
\* it resumes what a crash has left before it claims anything
\* (FeedbackScheduler.run_once).
THEOREM OneSchedulerOneRun ==
    ASSUME NEW s, Schedulers = {s}, Maintainers = {}
    PROVE  Spec => []SingleFlight
<1>1. Init => SingleInv
  BY DEF Init, SingleInv, Active, ActiveRun, Idle, Fresh
<1>2. TypeInv /\ WorksOnRun /\ SingleInv /\ [Next]_vars => SingleInv'
  BY TypeStep, SingleStep
<1>3. SingleInv => SingleFlight
  <2> SUFFICES ASSUME SingleInv PROVE Cardinality({t \in Tokens : Active(t)}) <= 1
    BY DEF SingleFlight
  <2>1. CASE \A t \in Tokens : ~Active(t)
    <3>1. {t \in Tokens : Active(t)} = {}
      BY <2>1
    <3> QED
      BY <3>1, FS_EmptySet
  <2>2. ASSUME NEW u \in Tokens, Active(u)
        PROVE  Cardinality({t \in Tokens : Active(t)}) <= 1
    <3>1. {t \in Tokens : Active(t)} = {u}
      BY <2>2 DEF SingleInv
    <3>2. Cardinality({u}) = 1
      BY FS_Singleton
    <3> QED
      BY <3>1, <3>2
  <2> QED
    BY <2>1, <2>2
<1> QED
  BY <1>1, <1>2, <1>3, TypeInit, TypeStep, PTL DEF Spec

====
