----------------------------- MODULE FeedbackRun -----------------------------
(***************************************************************************)
(* Feedback rows, agent runs, LangGraph checkpoints and the processes that *)
(* move them: the resident scheduler and maintainers at the command line,  *)
(* both driving one GateController over Supabase.  Every repository        *)
(* request is one step, so other processes, a crash, a failed request or a *)
(* lost reply can come between any two of them.                            *)
(*                                                                         *)
(* A run is identified with the claim token it was created under.          *)
(***************************************************************************)
EXTENDS FiniteSets, RepairGraph

CONSTANTS Feedback,      \* feedback rows, numbered in created_at order
          Schedulers,    \* resident scheduler processes
          Maintainers,   \* `mdtoword-agent run --publish` processes
          Fingerprint,   \* content fingerprint of each feedback
          GateRoutes,    \* routes the gate model may choose
          AgentOutcomes, \* outcomes the repair agent may reach
          FaultKinds,    \* kinds of faults that may happen
          MaxFaults      \* bound: how many faults happen

AllFaults == {"crash", "repo", "lost", "artifact"}

ASSUME RunAssumption ==
    /\ Feedback \subseteq Nat \ {0}
    /\ Schedulers \cap Maintainers = {}
    /\ GateRoutes \subseteq Routes \ {"duplicate"}
    /\ AgentOutcomes \subseteq RepairOutcomes
    /\ FaultKinds \subseteq AllFaults
    /\ MaxFaults \in Nat

VARIABLES fb,       \* the feedback table
          run,      \* the agent_runs table, by claim token
          ckpt,     \* LangGraph thread of each run: pending node and conclusion
          proc,     \* what each process is doing
          claims,   \* claim tokens handed out so far
          verdict,  \* the sandbox worker's stored verdict on each run's patch
          pulls,    \* runs whose pull request exists on GitHub
          issues,   \* runs whose issue exists on GitHub
          moved,    \* runs whose base main has left behind
          lost,     \* runs whose artifact directory is gone
          faults    \* faults so far

vars == <<fb, run, ckpt, proc, claims, verdict, pulls, issues, moved, lost, faults>>

Procs      == Schedulers \cup Maintainers
Tokens     == 1..MaxClaims
NoToken    == 0
NoFeedback == 0

Errors == {"none", "publication", "issue_publication", "budget", "unexpected",
           "human", "security", "other"}

FeedbackRow == [status : FeedbackStatus \cup {"absent"}, token : Tokens \cup {NoToken},
                lease : BOOLEAN, attempts : 0..MaxAttempts, requeues : 0..1, err : Errors]

RunRow == [status : RunStatus \cup {"none"}, fid : Feedback \cup {NoFeedback},
           err : Errors, valid : BOOLEAN, seq : Nat]

Steps == {"idle", "claim", "create", "resume", "load", "start", "node", "post",
          "get", "cas", "runget", "patch", "save", "fail"}

Process == [pc : Steps, mode : {"graph", "final", "reopen"}, tok : Tokens \cup {NoToken},
            fid : Feedback \cup {NoFeedback}, node : Nodes \cup {"end"},
            out : Conclusions, seen : FeedbackStatus \cup RunStatus \cup {"none", "absent"},
            goal : FeedbackStatus \cup RunStatus \cup {"none"}, err : Errors,
            unsaved : BOOLEAN]

\* Rows, runs, threads and processes have the shapes of FeedbackRecord,
\* AgentRunRecord and the checkpoint; no row is claimed more than MaxAttempts
\* times and none is requeued twice, whatever fails (models.py, migration 001).
TypeOK ==
    /\ fb \in [Feedback -> FeedbackRow]
    /\ run \in [Tokens -> RunRow]
    /\ ckpt \in [Tokens -> [node : Nodes \cup {"end"}, out : Conclusions]]
    /\ proc \in [Procs -> Process]
    /\ claims \in 0..MaxClaims
    /\ verdict \in [Tokens -> {"none", "passed", "rejected"}]
    /\ pulls \subseteq Tokens
    /\ issues \subseteq Tokens
    /\ moved \subseteq Tokens
    /\ lost \subseteq Tokens
    /\ faults \in 0..MaxFaults

\* A process with nothing to do, or one that has just died: it knows nothing.
Idle == [pc |-> "idle", mode |-> "graph", tok |-> NoToken, fid |-> NoFeedback,
         node |-> "end", out |-> "none", seen |-> "none", goal |-> "none",
         err |-> "none", unsaved |-> FALSE]

Init ==
    /\ fb = [f \in Feedback |-> [status |-> "absent", token |-> NoToken, lease |-> FALSE,
                                 attempts |-> 0, requeues |-> 0, err |-> "none"]]
    /\ run = [t \in Tokens |-> [status |-> "none", fid |-> NoFeedback, err |-> "none",
                                valid |-> FALSE, seq |-> 0]]
    /\ ckpt = [t \in Tokens |-> [node |-> "start_gate", out |-> "none"]]
    /\ proc = [p \in Procs |-> Idle]
    /\ claims = 0
    /\ verdict = [t \in Tokens |-> "none"]
    /\ pulls = {} /\ issues = {} /\ moved = {} /\ lost = {} /\ faults = 0

-----------------------------------------------------------------------------
(* Helpers *)

Active(t) == run[t].status \in ActiveRun
Created(t) == run[t].status # "none"

\* A claim that also takes unleased rows some run is working on.
ClaimableInFlight(f) == \/ fb[f].status = "pending"
                        \/ fb[f].status \in {"claimed"} \cup InFlight /\ ~fb[f].lease

\* A claim that never takes over an expired lease.
ClaimableWhenPending(f) == fb[f].status = "pending"

\* What claim_next_agent_feedback looks at (a lease counts while claimed only): waiting rows without a live lease.
Claimable(f) == \/ fb[f].status = "pending"
                \/ fb[f].status = "claimed" /\ ~fb[f].lease

\* One attempt too many.
ExhaustedLate(f) == Claimable(f) /\ fb[f].attempts > MaxAttempts

Exhausted(f) == Claimable(f) /\ fb[f].attempts >= MaxAttempts

GivenUp(gone) == [f \in Feedback |->
    IF f \in gone
    THEN [fb[f] EXCEPT !.status = "needs_human", !.token = NoToken, !.lease = FALSE,
                       !.err = "other"]
    ELSE fb[f]]

\* Other rows with the same fingerprint that are still open.
Duplicates(f) == {g \in Feedback \ {f} : /\ Fingerprint[g] = Fingerprint[f]
                                         /\ fb[g].status \in OpenStatus}

\* A process that starts executing run t of feedback f at its pending node.
Executing(t, f) == [Idle EXCEPT !.pc = "node", !.tok = t, !.fid = f,
                                !.node = ckpt[t].node, !.out = ckpt[t].out]

\* A process that has found or made run t fit to be executed.
Reopened(t, f) == [Idle EXCEPT !.pc = "start", !.tok = t, !.fid = f]

Goto(p, pc) == proc' = [proc EXCEPT ![p].pc = pc, ![p].seen = "none", ![p].goal = "none"]

\* Steps before ainvoke, outside the reach of the failure finalizer.
BeforeGraph == {"claim", "create", "resume", "load", "start"}

\* An exception: inside the graph it reaches _finalize_run_failure, and pending
\* checkpoint writes are flushed; elsewhere it ends the attempt (run_forever
\* swallows it, the command line exits).
Raise(p, e) ==
    /\ proc' = [proc EXCEPT ![p] =
                  IF @.mode = "graph" /\ @.pc \notin BeforeGraph
                  THEN [@ EXCEPT !.pc = "fail", !.mode = "final", !.err = e,
                                 !.seen = "none", !.goal = "none", !.unsaved = FALSE]
                  ELSE Idle]
    /\ ckpt' = IF proc[p].unsaved
               THEN [ckpt EXCEPT ![proc[p].tok] = [node |-> proc[p].node, out |-> proc[p].out]]
               ELSE ckpt

\* Of the error codes written to a row, the ones a retry looks for.
RetryCodes == {"publication", "issue_publication", "budget", "unexpected"}

Kept(e) == IF e \in RetryCodes THEN e ELSE "other"

\* A fault of kind k happens.
Fault(k) == k \in FaultKinds /\ faults < MaxFaults /\ faults' = faults + 1

-----------------------------------------------------------------------------
(* Entry: the reporter, the lease clock, the scheduler and the command line *)

Submit(f) ==
    /\ fb[f].status = "absent"
    /\ \A g \in Feedback : g < f => fb[g].status # "absent"
    /\ fb' = [fb EXCEPT ![f].status = "pending"]
    /\ UNCHANGED <<run, ckpt, proc, claims, verdict, pulls, issues, moved, lost, faults>>

ExpireLease(f) ==
    /\ fb[f].status = "claimed"
    /\ fb[f].lease
    /\ fb' = [fb EXCEPT ![f].lease = FALSE]
    /\ UNCHANGED <<run, ckpt, proc, claims, verdict, pulls, issues, moved, lost, faults>>

\* A process that is going to resume run t, and knows no more of it than whose it is.
Resuming(t) == [Idle EXCEPT !.pc = "resume", !.tok = t, !.fid = run[t].fid]

\* run_once: resume the oldest active run if there is one, else go and claim.
PollResume(p, t) ==
    /\ proc[p].pc = "idle"
    /\ Active(t)
    /\ \A u \in Tokens : Active(u) => run[t].seq <= run[u].seq
    /\ proc' = [proc EXCEPT ![p] = Resuming(t)]
    /\ UNCHANGED <<fb, run, ckpt, claims, verdict, pulls, issues, moved, lost, faults>>

\* A poll that claims more work while a run is active.
PollUnchecked(p) ==
    /\ proc[p].pc = "idle"
    /\ Goto(p, "claim")
    /\ UNCHANGED <<fb, run, ckpt, claims, verdict, pulls, issues, moved, lost, faults>>

PollEmpty(p) ==
    /\ proc[p].pc = "idle"
    /\ \A t \in Tokens : ~Active(t)
    /\ Goto(p, "claim")
    /\ UNCHANGED <<fb, run, ckpt, claims, verdict, pulls, issues, moved, lost, faults>>

\* The row f gets a new token; the rows in gone are out of attempts.
Claimed(f, gone) == [GivenUp(gone) EXCEPT
    ![f] = [fb[f] EXCEPT !.status = "claimed", !.token = claims + 1, !.lease = TRUE,
                         !.attempts = @ + 1, !.err = "none"]]

Claim(p, f, gone) ==
    /\ claims < MaxClaims
    /\ fb' = Claimed(f, gone)
    /\ claims' = claims + 1
    /\ proc' = [proc EXCEPT ![p] = [Idle EXCEPT !.pc = "create", !.tok = claims + 1,
                                                !.fid = f]]
    /\ UNCHANGED <<run, ckpt, verdict, pulls, issues, moved, lost, faults>>

GiveUp(p, gone) ==
    /\ fb' = GivenUp(gone)
    /\ proc' = [proc EXCEPT ![p] = Idle]
    /\ UNCHANGED <<run, ckpt, claims, verdict, pulls, issues, moved, lost, faults>>

\* claim_next: give up every exhausted row, then claim the oldest other one.
ClaimNext(p) ==
    LET gone == {f \in Feedback : Exhausted(f)}
        rest == {f \in Feedback : Claimable(f)} \ gone
    IN  /\ proc[p].pc = "claim"
        /\ \/ rest = {} /\ GiveUp(p, gone)
           \/ \E f \in rest : (\A g \in rest : f <= g) /\ Claim(p, f, gone)

\* claim_by_id, from the command line.
ClaimById(p, f) ==
    /\ proc[p].pc = "idle"
    /\ Claimable(f)
    /\ IF Exhausted(f) THEN GiveUp(p, {f}) ELSE Claim(p, f, {})

\* start(): the agent_runs row, then the graph from its first node.
RunCreated(t, f) == [run EXCEPT ![t] =
    [status |-> "created", fid |-> f, err |-> "none", valid |-> FALSE,
     seq |-> Cardinality({u \in Tokens : Created(u)})]]

CreateRun(p) ==
    /\ proc[p].pc = "create"
    /\ run' = RunCreated(proc[p].tok, proc[p].fid)
    /\ proc' = [proc EXCEPT ![p] = Executing(proc[p].tok, proc[p].fid)]
    /\ UNCHANGED <<fb, ckpt, claims, verdict, pulls, issues, moved, lost, faults>>

\* resume, from the command line: of any run there is.
ResumeById(p, t) ==
    /\ proc[p].pc = "idle"
    /\ Created(t)
    /\ proc' = [proc EXCEPT ![p] = Resuming(t)]
    /\ UNCHANGED <<fb, run, ckpt, claims, verdict, pulls, issues, moved, lost, faults>>

-----------------------------------------------------------------------------
(* GateController.resume: it reads the run, then the thread, reopens what may *)
(* be reopened, and loads the thread again to execute it.                     *)

PublicationErrors == {"publication", "issue_publication"}

FailedPublication(status, err) == status = "failed" /\ err \in PublicationErrors

\* _is_explicitly_resumable_agent_failure.
SpentBudget(status, err) == \/ status = "budget_exhausted" /\ err = "budget"
                            \/ status = "failed" /\ err = "unexpected"

InRepair(t) == ckpt[t].node \in ReproducingNodes \cup RepairingNodes

ReadRunToResume(p) ==
    LET row == run[proc[p].tok] IN
    /\ proc[p].pc = "resume"
    /\ proc' = [proc EXCEPT ![p].pc = "load", ![p].seen = row.status, ![p].err = row.err]
    /\ UNCHANGED <<fb, run, ckpt, claims, verdict, pulls, issues, moved, lost, faults>>

\* The retry of a failed publication, or of a repair that the checkpoint still is in.
ReopenGoals(p) ==
    LET t == proc[p].tok IN
    IF FailedPublication(proc[p].seen, proc[p].err) THEN {"publishing"}
    ELSE IF SpentBudget(proc[p].seen, proc[p].err) /\ InRepair(t)
    THEN {IF ckpt[t].node \in RepairingNodes THEN "repairing" ELSE "reproducing"}
    ELSE {}

\* A resume that does not look at the run's status.
ReadThreadUnchecked(p) ==
    /\ proc[p].pc = "load"
    /\ proc' = [proc EXCEPT ![p].pc = "start", ![p].seen = "none", ![p].err = "none"]
    /\ UNCHANGED <<fb, run, ckpt, claims, verdict, pulls, issues, moved, lost, faults>>

ReadThread(p) ==
    LET known == [proc[p] EXCEPT !.seen = "none", !.err = "none"] IN
    /\ proc[p].pc = "load"
    /\ \/ \E goal \in ReopenGoals(p) :
             proc' = [proc EXCEPT ![p] = [known EXCEPT !.pc = "get", !.mode = "reopen",
                                                       !.goal = goal]]
       \/ /\ ReopenGoals(p) = {} /\ proc[p].seen \in ActiveRun
          /\ proc' = [proc EXCEPT ![p] = [known EXCEPT !.pc = "start"]]
       \/ /\ ReopenGoals(p) = {} /\ proc[p].seen \notin ActiveRun
          /\ proc' = [proc EXCEPT ![p] = Idle]
    /\ UNCHANGED <<fb, run, ckpt, claims, verdict, pulls, issues, moved, lost, faults>>

\* ainvoke: the thread's latest checkpoint, whatever was read of it before.
StartGraph(p) ==
    /\ proc[p].pc = "start"
    /\ proc' = [proc EXCEPT ![p] = Executing(proc[p].tok, proc[p].fid)]
    /\ UNCHANGED <<fb, run, ckpt, claims, verdict, pulls, issues, moved, lost, faults>>

-----------------------------------------------------------------------------
(* Graph nodes without a feedback write *)

\* The process is at node n and the artifacts the node reads are there.
At(p, n) == proc[p].pc = "node" /\ proc[p].node = n

Readable(p) == proc[p].tok \notin lost \/ proc[p].node \notin ReadsArtifacts

\* The node concludes out; the checkpoint is next.
Conclude(p, out) ==
    /\ proc' = [proc EXCEPT ![p].pc = "save", ![p].out = out]
    /\ UNCHANGED ckpt

ClassifyGate(p) ==
    /\ At(p, "classify_gate")
    /\ Readable(p)
    /\ IF Duplicates(proc[p].fid) # {}
       THEN Conclude(p, "duplicate")
       ELSE \E route \in GateRoutes : Conclude(p, route)
    /\ UNCHANGED <<fb, run, claims, verdict, pulls, issues, moved, lost, faults>>

PrepareSource(p) ==
    /\ At(p, "prepare_source")
    /\ Goto(p, "runget")
    /\ UNCHANGED <<fb, run, ckpt, claims, verdict, pulls, issues, moved, lost, faults>>

RepairAgent(p) ==
    /\ At(p, "repair_agent")
    /\ Readable(p)
    /\ \E out \in AgentOutcomes : Conclude(p, out)
    /\ UNCHANGED <<fb, run, claims, verdict, pulls, issues, moved, lost, faults>>

\* The sandbox worker stores each job's result, so a replay gets the same verdict.
ValidateFinal(p) ==
    LET t == proc[p].tok IN
    /\ At(p, "validate_final")
    /\ Readable(p)
    /\ \/ Conclude(p, "budget") /\ UNCHANGED verdict
       \/ \E v \in {"passed", "rejected"} :
             /\ verdict[t] \in {"none", v}
             /\ verdict' = [verdict EXCEPT ![t] = v]
             /\ Conclude(p, v)
    /\ UNCHANGED <<fb, run, claims, pulls, issues, moved, lost, faults>>

\* A publisher that reports success without creating the issue.
PublishIssueUnsent(p) ==
    /\ At(p, "publish_issue")
    /\ Readable(p)
    /\ Conclude(p, proc[p].out)
    /\ UNCHANGED <<fb, run, claims, verdict, pulls, issues, moved, lost, faults>>

PublishIssue(p) ==
    /\ At(p, "publish_issue")
    /\ Readable(p)
    /\ issues' = issues \cup {proc[p].tok}
    /\ Conclude(p, proc[p].out)
    /\ UNCHANGED <<fb, run, claims, verdict, pulls, moved, lost, faults>>

\* A pull request of another run of the feedback uses the branch: conflict.
OtherPulls(t) == {u \in pulls \ {t} : run[u].fid = run[t].fid}

\* A look that does not ask where main is.
LookForPullAnyBase(p) ==
    LET t == proc[p].tok IN
    /\ At(p, "publish_pull_request")
    /\ Readable(p)
    /\ \/ t \in pulls /\ Conclude(p, "opened") /\ UNCHANGED moved
       \/ t \notin pulls /\ OtherPulls(t) = {} /\ Goto(p, "post") /\ UNCHANGED <<ckpt, moved>>
       \/ t \notin pulls /\ moved' = moved \cup {t} /\ Conclude(p, "stale")
    /\ UNCHANGED <<fb, run, claims, verdict, pulls, issues, lost, faults>>

\* A look at main before the look for a pull request.
LookForPullMainFirst(p) ==
    LET t == proc[p].tok IN
    /\ At(p, "publish_pull_request")
    /\ Readable(p)
    /\ \/ moved' = moved \cup {t} /\ Conclude(p, "stale")
       \/ t \notin moved /\ t \in pulls /\ Conclude(p, "opened") /\ UNCHANGED moved
       \/ /\ t \notin moved \cup pulls /\ OtherPulls(t) = {}
          /\ Goto(p, "post")
          /\ UNCHANGED <<ckpt, moved>>
    /\ UNCHANGED <<fb, run, claims, verdict, pulls, issues, lost, faults>>

\* The look: the run's own pull request is reused, another one is a conflict
\* (NodeFails); main must still be at the run's base, or the publication is stale.
LookForPull(p) ==
    LET t == proc[p].tok IN
    /\ At(p, "publish_pull_request")
    /\ Readable(p)
    /\ \/ /\ t \in pulls
          /\ Conclude(p, "opened")
          /\ UNCHANGED moved
       \/ /\ t \notin pulls /\ OtherPulls(t) = {}
          /\ moved' = moved \cup {t}
          /\ Conclude(p, "stale")
       \/ /\ t \notin pulls /\ OtherPulls(t) = {} /\ t \notin moved
          /\ Goto(p, "post")
          /\ UNCHANGED <<ckpt, moved>>
    /\ UNCHANGED <<fb, run, claims, verdict, pulls, issues, lost, faults>>

\* The POST, requests later: GitHub refuses a second pull request of the branch;
\* one of the run's own is found again and reused.
Posted(t) == IF OtherPulls(t) = {} THEN pulls \cup {t} ELSE pulls

PostPull(p) ==
    /\ proc[p].pc = "post"
    /\ OtherPulls(proc[p].tok) = {}
    /\ pulls' = Posted(proc[p].tok)
    /\ Conclude(p, "opened")
    /\ UNCHANGED <<fb, run, claims, verdict, issues, moved, lost, faults>>

\* It fails, or is refused, or took effect and the reply did not arrive.
PostFails(p) ==
    /\ proc[p].pc = "post"
    /\ pulls' \in {pulls, Posted(proc[p].tok)}
    /\ Raise(p, "publication")
    /\ UNCHANGED <<fb, run, claims, verdict, issues, moved, lost, faults>>

\* A thread that has nothing pending returns at once, whatever the run's status.
NothingPending(p) ==
    /\ At(p, "end")
    /\ proc' = [proc EXCEPT ![p] = Idle]
    /\ UNCHANGED <<fb, run, ckpt, claims, verdict, pulls, issues, moved, lost, faults>>

\* The node fails of itself, or the issue was created but the reply did not arrive.
NodeFails(p) ==
    /\ proc[p].pc = "node"
    /\ Readable(p)
    /\ ~(At(p, "classify_gate") /\ Duplicates(proc[p].fid) # {})
    /\ \E e \in RaisedBy(proc[p].node, proc[p].out) : Raise(p, e)
    /\ \/ UNCHANGED issues
       \/ At(p, "publish_issue") /\ issues' = issues \cup {proc[p].tok}
    /\ UNCHANGED <<fb, run, claims, verdict, pulls, moved, lost, faults>>

\* An artifact the node reads is gone: InvalidArtifactPathError, kind SECURITY.
ArtifactMissing(p) ==
    /\ proc[p].pc = "node"
    /\ ~Readable(p)
    /\ Raise(p, "security")
    /\ UNCHANGED <<fb, run, claims, verdict, pulls, issues, moved, lost, faults>>

-----------------------------------------------------------------------------
(* Writing the feedback row: a node's own read, then transition()'s read and *)
(* compare-and-set.  The finalizer and the maintainer's retries use the      *)
(* same two steps.                                                           *)

\* A stale publication goes back to the queue the first time only.
Applicable(m, row) ==
    /\ m[1] = row.status
    /\ m[1] = "stale_base" => m[2] = IF row.requeues = 0 THEN "pending" ELSE "needs_human"

\* After a requeue the row has no owner any more; a stale publication knows that.
Disowned(p, row) == /\ row.token # proc[p].tok
                    /\ ~(/\ proc[p].node = "finish_publication"
                         /\ proc[p].out = "stale"
                         /\ row.status = "pending")

ReadFeedback(p) ==
    LET n     == proc[p].node
        out   == proc[p].out
        row   == fb[proc[p].fid]
        todo  == {m \in Moves(n, out) : Applicable(m, row)}
    IN  /\ proc[p].pc = "node" /\ n \in FinishNodes /\ Readable(p)
        /\ ~LacksResult(n, out)
        /\ \/ /\ Disowned(p, row) \/ (todo = {} /\ row.status \notin AlreadyDone(n, out))
              /\ Raise(p, "other")
           \/ /\ ~Disowned(p, row) /\ UNCHANGED ckpt
              /\ \/ \E m \in todo :
                       proc' = [proc EXCEPT ![p].pc = "get", ![p].goal = m[2]]
                 \/ todo = {} /\ row.status \in AlreadyDone(n, out) /\ Goto(p, "runget")
        /\ UNCHANGED <<fb, run, claims, verdict, pulls, issues, moved, lost, faults>>

\* The status the failure finalizer gives the feedback.
FailureVerdict(e) == CASE e = "security" -> "security_rejected"
                       [] e = "human"    -> "needs_human"
                       [] OTHER          -> "failed"

\* A finalizer with nothing to say of the feedback that forgets the run.
FinalizeFeedbackOnly(p) ==
    LET row == fb[proc[p].fid] IN
    /\ proc[p].pc = "fail"
    /\ proc' = [proc EXCEPT ![p] =
          IF row.token = @.tok /\ row.status \in Finalizable
          THEN [@ EXCEPT !.pc = "get", !.goal = FailureVerdict(proc[p].err)]
          ELSE Idle]
    /\ UNCHANGED <<fb, run, ckpt, claims, verdict, pulls, issues, moved, lost, faults>>

\* _finalize_run_failure reads the row and leaves it alone unless the run owns it.
FinalizeFailure(p) ==
    LET row == fb[proc[p].fid] IN
    /\ proc[p].pc = "fail"
    /\ IF row.token = proc[p].tok /\ row.status \in Finalizable
       THEN proc' = [proc EXCEPT ![p].pc = "get", ![p].goal = FailureVerdict(proc[p].err)]
       ELSE Goto(p, "runget")
    /\ UNCHANGED <<fb, run, ckpt, claims, verdict, pulls, issues, moved, lost, faults>>

\* Can the retry of a failed feedback row start?  Otherwise it is an error.
Reopenable(p, row) ==
    /\ row.status = "failed"
    /\ row.err \in IF proc[p].goal = "publishing" THEN PublicationErrors
                   ELSE {"budget", "unexpected"}

\* The row was reopened by an earlier attempt that stopped half way.
AlreadyReopened(p, row) ==
    row.status \in IF proc[p].goal = "publishing" THEN {"publishing", "publishing_issue"}
                   ELSE {proc[p].goal}

\* A transition that does not ask the transition table.
CheckOwnerOnly(p) ==
    LET row == fb[proc[p].fid] IN
    /\ proc[p].pc = "get" /\ proc[p].mode # "reopen"
    /\ IF row.token = proc[p].tok
       THEN /\ proc' = [proc EXCEPT ![p].pc = "cas", ![p].seen = row.status]
            /\ UNCHANGED ckpt
       ELSE Raise(p, "other")
    /\ UNCHANGED <<fb, run, claims, verdict, pulls, issues, moved, lost, faults>>

\* transition() reads the row again and checks the owner and the move.
CheckTransition(p) ==
    LET row  == fb[proc[p].fid]
        ok   == /\ row.token = proc[p].tok
                /\ CanMove(row.status, proc[p].goal)
                /\ ~(row.status = "stale_base" /\ proc[p].goal = "pending" /\ row.requeues >= 1)
    IN  /\ proc[p].pc = "get" /\ proc[p].mode # "reopen"
        /\ IF ok THEN /\ proc' = [proc EXCEPT ![p].pc = "cas", ![p].seen = row.status]
                      /\ UNCHANGED ckpt
                 ELSE Raise(p, "other")
        /\ UNCHANGED <<fb, run, claims, verdict, pulls, issues, moved, lost, faults>>

\* A retry that reopens an issue publication as a pull request.
CheckReopenAsPull(p) ==
    LET row == fb[proc[p].fid] IN
    /\ proc[p].pc = "get" /\ proc[p].mode = "reopen"
    /\ row.token = proc[p].tok /\ Reopenable(p, row)
    /\ proc' = [proc EXCEPT ![p].pc = "cas", ![p].seen = "failed", ![p].err = row.err]
    /\ UNCHANGED <<fb, run, ckpt, claims, verdict, pulls, issues, moved, lost, faults>>

\* retry_publication and retry_after_call_budget on the feedback row: the read.
CheckReopen(p) ==
    LET row == fb[proc[p].fid] IN
    /\ proc[p].pc = "get" /\ proc[p].mode = "reopen"
    /\ \/ /\ row.token = proc[p].tok /\ AlreadyReopened(p, row)
          /\ proc' = [proc EXCEPT ![p].pc = "runget", ![p].goal = row.status]
          /\ UNCHANGED ckpt
       \/ /\ row.token = proc[p].tok /\ Reopenable(p, row)
          /\ proc' = [proc EXCEPT ![p].pc = "cas", ![p].seen = "failed", ![p].err = row.err,
                        ![p].goal = IF row.err = "issue_publication" THEN "publishing_issue"
                                    ELSE @]
          /\ UNCHANGED ckpt
       \/ /\ row.token # proc[p].tok \/ ~(AlreadyReopened(p, row) \/ Reopenable(p, row))
          /\ Raise(p, "other")
    /\ UNCHANGED <<fb, run, claims, verdict, pulls, issues, moved, lost, faults>>

\* A compare-and-set on the status alone.
MatchesStatus(p) == fb[proc[p].fid].status = proc[p].seen

\* The compare-and-set still matches: same owner, same status (and error).
Matches(p) == LET row == fb[proc[p].fid] IN
    /\ row.token = proc[p].tok
    /\ row.status = proc[p].seen
    /\ proc[p].mode = "reopen" => row.err = proc[p].err

\* A requeue that is not counted.
WrittenUncounted(p) == [fb EXCEPT ![proc[p].fid] =
    IF proc[p].seen = "stale_base" /\ proc[p].goal = "pending"
    THEN [@ EXCEPT !.status = "pending", !.token = NoToken, !.lease = FALSE, !.err = "none"]
    ELSE [@ EXCEPT !.status = proc[p].goal, !.lease = FALSE, !.err = "none"]]

\* The row after the write.  A requeue also gives the claim away.
Written(p) == [fb EXCEPT ![proc[p].fid] =
    IF proc[p].seen = "stale_base" /\ proc[p].goal = "pending"
    THEN [@ EXCEPT !.status = "pending", !.token = NoToken, !.lease = FALSE,
                   !.requeues = 1, !.err = "none"]
    ELSE [@ EXCEPT !.status = proc[p].goal, !.lease = FALSE,
                   !.err = IF proc[p].mode = "final" THEN Kept(proc[p].err)
                           ELSE IF proc[p].node = "finish_budget_exhausted" THEN "budget"
                           ELSE "none"]]

\* The node's next move on the row it just wrote, if it has one.
Chained(p) == IF proc[p].mode # "graph" THEN {}
              ELSE {m \in Moves(proc[p].node, proc[p].out) :
                       Applicable(m, [fb[proc[p].fid] EXCEPT !.status = proc[p].goal])}

WriteFeedback(p) ==
    /\ proc[p].pc = "cas"
    /\ \/ /\ Matches(p)
          /\ fb' = Written(p)
          /\ UNCHANGED ckpt
          /\ \/ \E m \in Chained(p) :
                   proc' = [proc EXCEPT ![p].pc = "get", ![p].goal = m[2], ![p].seen = "none"]
             \/ Chained(p) = {} /\ proc' = [proc EXCEPT ![p].pc = "runget", ![p].seen = "none",
                                            ![p].goal = IF proc[p].mode = "reopen" THEN @
                                                        ELSE "none"]
       \/ ~Matches(p) /\ Raise(p, "other") /\ UNCHANGED fb
    /\ UNCHANGED <<run, claims, verdict, pulls, issues, moved, lost, faults>>

-----------------------------------------------------------------------------
(* Writing the agent_runs row: a read, then a compare-and-set on its status. *)

\* The status a failed run ends in.
FailedRun(e) == CASE e = "security" -> "security_rejected"
                  [] e = "budget"   -> "budget_exhausted"
                  [] OTHER          -> "failed"

ContinueAt(p, seen, goal) ==
    proc' = [proc EXCEPT ![p].pc = "patch", ![p].seen = seen, ![p].goal = goal]

\* A node of the graph: already there, or patch from the status it expects.
ReadRunInGraph(p) ==
    LET now == run[proc[p].tok].status
        mv  == RunMove(proc[p].node, proc[p].out)
    IN  /\ proc[p].pc = "runget" /\ proc[p].mode = "graph"
        /\ IF now = mv[2] THEN Goto(p, "save")
           ELSE ContinueAt(p, IF mv[1] = "any" THEN now ELSE mv[1], mv[2])
        /\ UNCHANGED <<fb, run, ckpt, claims, verdict, pulls, issues, moved, lost, faults>>

\* fail(): from whatever status the run has.
ReadRunToFail(p) ==
    LET now == run[proc[p].tok].status
        to  == FailedRun(proc[p].err)
    IN  /\ proc[p].pc = "runget" /\ proc[p].mode = "final"
        /\ IF now = to THEN proc' = [proc EXCEPT ![p] = Idle] ELSE ContinueAt(p, now, to)
        /\ UNCHANGED <<fb, run, ckpt, claims, verdict, pulls, issues, moved, lost, faults>>

\* retry_publication and retry_after_call_budget on the run, then the graph.
ReadRunToReopen(p) ==
    LET t   == proc[p].tok
        row == run[t]
        publication == proc[p].goal \in {"publishing", "publishing_issue"}
        already == row.status \in IF publication THEN {"publishing", "publishing_issue"}
                                  ELSE {proc[p].goal}
        allowed == IF publication
                   THEN /\ FailedPublication(row.status, row.err)
                        /\ row.err = "publication" => row.valid
                   ELSE row.status \in {"failed", "budget_exhausted"}
                        /\ row.err \in {"budget", "unexpected"}
    IN  /\ proc[p].pc = "runget" /\ proc[p].mode = "reopen"
        /\ \/ /\ already
              /\ proc' = [proc EXCEPT ![p] = Reopened(t, proc[p].fid)]
           \/ /\ ~already /\ allowed
              /\ ContinueAt(p, row.status,
                            IF ~publication THEN proc[p].goal
                            ELSE IF row.err = "issue_publication" THEN "publishing_issue"
                            ELSE "publishing")
           \/ /\ ~already /\ ~allowed
              /\ proc' = [proc EXCEPT ![p] = Idle]
        /\ UNCHANGED <<fb, run, ckpt, claims, verdict, pulls, issues, moved, lost, faults>>

PatchedRow(p) == LET row == run[proc[p].tok] IN
    [row EXCEPT !.status = proc[p].goal,
                !.err = IF proc[p].mode = "final" THEN Kept(proc[p].err)
                        ELSE IF proc[p].mode = "reopen" THEN "none"
                        ELSE IF proc[p].node = "finish_budget_exhausted" THEN "budget"
                        ELSE row.err,
                !.valid = row.valid \/ (proc[p].mode = "graph" /\ proc[p].goal = "publishing")]

Patched(p) == [run EXCEPT ![proc[p].tok] = PatchedRow(p)]

PatchRun(p) ==
    LET t == proc[p].tok IN
    /\ proc[p].pc = "patch"
    /\ IF run[t].status = proc[p].seen
       THEN /\ run' = Patched(p)
            /\ UNCHANGED ckpt
            /\ CASE proc[p].mode = "graph"  -> Goto(p, "save")
                 [] proc[p].mode = "final"  -> proc' = [proc EXCEPT ![p] = Idle]
                 [] proc[p].mode = "reopen" -> proc' = [proc EXCEPT ![p] =
                                                          Reopened(t, proc[p].fid)]
       ELSE Raise(p, "other") /\ UNCHANGED run
    /\ UNCHANGED <<fb, claims, verdict, pulls, issues, moved, lost, faults>>

-----------------------------------------------------------------------------
(* The checkpoint after a node *)

Following(p) == Successor(proc[p].node, proc[p].out)

\* The next node starts before the checkpoint is written (durability "async", the
\* default of ainvoke); the end of the graph waits for what is pending.
NextNode(p) ==
    /\ proc[p].pc = "save"
    /\ IF Following(p) = "end"
       THEN /\ ckpt' = [ckpt EXCEPT ![proc[p].tok] = [node |-> "end", out |-> proc[p].out]]
            /\ proc' = [proc EXCEPT ![p] = Idle]
       ELSE /\ proc' = [proc EXCEPT ![p].pc = "node", ![p].node = Following(p),
                                    ![p].unsaved = TRUE]
            /\ UNCHANGED ckpt
    /\ UNCHANGED <<fb, run, claims, verdict, pulls, issues, moved, lost, faults>>

\* The write of the latest checkpoint completes, at any time or never.
PutCheckpoint(p) ==
    /\ proc[p].unsaved /\ proc[p].pc # "save"
    /\ ckpt' = [ckpt EXCEPT ![proc[p].tok] = [node |-> proc[p].node, out |-> proc[p].out]]
    /\ proc' = [proc EXCEPT ![p].unsaved = FALSE]
    /\ UNCHANGED <<fb, run, claims, verdict, pulls, issues, moved, lost, faults>>

-----------------------------------------------------------------------------
(* Faults *)

\* The process dies; whatever it had in memory is gone.
Crash(p) ==
    /\ proc[p].pc # "idle"
    /\ Fault("crash")
    /\ proc' = [proc EXCEPT ![p] = Idle]
    /\ UNCHANGED <<fb, run, ckpt, claims, verdict, pulls, issues, moved, lost>>

\* A repository request fails before it takes effect (RepositoryError).
RepositoryNodes == FinishNodes \cup {"classify_gate", "publish_issue", "publish_pull_request"}

RepoError(p) ==
    /\ \/ proc[p].pc \in BeforeGraph \cup {"get", "cas", "runget", "patch", "fail"}
       \/ proc[p].pc = "node" /\ proc[p].node \in RepositoryNodes /\ Readable(p)
    /\ Fault("repo")
    /\ Raise(p, "other")
    /\ UNCHANGED <<fb, run, claims, verdict, pulls, issues, moved, lost>>

\* A write takes effect but its reply is lost: the caller sees a failure.  (When
\* the write is a claim, that is a crash right after it.)
LostReply(p) ==
    /\ \/ proc[p].pc = "cas" /\ Matches(p) /\ fb' = Written(p) /\ UNCHANGED run
       \/ /\ proc[p].pc = "patch" /\ run[proc[p].tok].status = proc[p].seen
          /\ run' = Patched(p) /\ UNCHANGED fb
       \/ /\ proc[p].pc = "create"
          /\ run' = RunCreated(proc[p].tok, proc[p].fid) /\ UNCHANGED fb
    /\ Fault("lost")
    /\ Raise(p, "other")
    /\ UNCHANGED <<claims, verdict, pulls, issues, moved, lost>>

\* The artifact directory of a run disappears from the controller's disk.
LoseArtifacts(t) ==
    /\ Created(t) /\ t \notin lost
    /\ Fault("artifact")
    /\ lost' = lost \cup {t}
    /\ UNCHANGED <<fb, run, ckpt, proc, claims, verdict, pulls, issues, moved>>

-----------------------------------------------------------------------------

\* What a process does once it has something to do.
Work(p) ==
    \/ ClaimNext(p) \/ CreateRun(p)
    \/ ReadRunToResume(p) \/ ReadThread(p) \/ StartGraph(p)
    \/ ClassifyGate(p) \/ PrepareSource(p) \/ RepairAgent(p) \/ ValidateFinal(p)
    \/ PublishIssue(p) \/ LookForPull(p) \/ PostPull(p) \/ NothingPending(p)
    \/ PostFails(p) \/ NodeFails(p) \/ ArtifactMissing(p)
    \/ ReadFeedback(p) \/ FinalizeFailure(p) \/ CheckTransition(p) \/ CheckReopen(p)
    \/ WriteFeedback(p)
    \/ ReadRunInGraph(p) \/ ReadRunToFail(p) \/ ReadRunToReopen(p) \/ PatchRun(p)
    \/ NextNode(p)

Poll(p) == PollEmpty(p) \/ \E t \in Tokens : PollResume(p, t)

Command(p) == \/ \E f \in Feedback : ClaimById(p, f)
              \/ \E t \in Tokens : ResumeById(p, t)

Faulty(p) == Crash(p) \/ RepoError(p) \/ LostReply(p)

Next ==
    \/ \E f \in Feedback : Submit(f) \/ ExpireLease(f)
    \/ \E p \in Schedulers : Poll(p)
    \/ \E p \in Maintainers : Command(p)
    \/ \E p \in Procs : Work(p) \/ PutCheckpoint(p) \/ Faulty(p)
    \/ \E t \in Tokens : LoseArtifacts(t)

Spec == Init /\ [][Next]_vars

\* The scheduler keeps polling and its requests return; leases run out.
FairSpec == /\ Spec
            /\ \A p \in Schedulers : WF_vars(Poll(p) \/ Work(p))
            /\ \A f \in Feedback : WF_vars(ExpireLease(f))

-----------------------------------------------------------------------------
(* Safety *)

Settled(f) == fb[f].status \in Verdicts

\* The feedback of run t is still claimed under the token t was created with.
Owns(t) == Created(t) /\ fb[run[t].fid].token = t

MayBeReopened(t) == \/ FailedPublication(run[t].status, run[t].err)
                    \/ SpentBudget(run[t].status, run[t].err) /\ InRepair(t)

\* A feedback between the gate and a verdict belongs to a run that exists: the
\* transitions of graph.py are only reached through start(), which has created
\* the run, and a later claim cannot slip in under a token that is being used.
InFlightHasRun == \A f \in Feedback :
    fb[f].status \in InFlight =>
        fb[f].token \in Tokens /\ run[fb[f].token].fid = f

\* No feedback is left behind by the failure of its run: when the run that owns
\* it has ended, the feedback has a verdict, or a maintainer can resume the run
\* by its id (_finalize_run_failure, GateController.resume).
NoStrandedFeedback == \A t \in Tokens :
    Owns(t) /\ run[t].status \in TerminalRun /\ fb[run[t].fid].status \in InFlight
        => MayBeReopened(t)

\* Left by the finalizer with a row it does not touch, between two moves of one node.
LeftBehind(t) == /\ Owns(t)
                 /\ run[t].status \in TerminalRun \ {"completed"}
                 /\ fb[run[t].fid].status \in {"validated", "stale_base"}

\* The exception to NoStrandedFeedback is as narrow as that: with one driver, whatever
\* fails and however late the checkpoints are, a run that ended and cannot be reopened
\* leaves only a VALIDATED or STALE_BASE row behind, and only when it has failed
\* (_finalize_run_failure, ainvoke without durability).
OnlyUnfinalizedStranded == \A t \in Tokens :
    Owns(t) /\ run[t].status \in TerminalRun /\ fb[run[t].fid].status \in InFlight
        => MayBeReopened(t) \/ LeftBehind(t)

\* Only a patch that the sandbox verified reaches GitHub, across crashes,
\* replays and reopened runs, and the run row says so (route_after_validation_finish,
\* complete_validation, retry_publication).
PublishedOnlyValidated == \A t \in pulls : verdict[t] = "passed" /\ run[t].valid

\* What the feedback row reports to the reader exists on GitHub
\* (finish_publication, finish_issue_publication).
OpenedIsPublished == \A t \in Tokens : Owns(t) =>
    /\ fb[run[t].fid].status = "pr_opened"    => t \in pulls
    /\ fb[run[t].fid].status = "issue_opened" => t \in issues

\* A feedback has one pull request: GitHub opens one for a branch, and the branch
\* is named after the feedback (publish, _find_existing_pull).
OnePullPerFeedback == \A t, u \in pulls : run[t].fid = run[u].fid => t = u

\* With one driver no work is repeated that is already on GitHub: once a run has its
\* pull request, whether or not the reply arrived and however often the publication
\* is replayed, the feedback is not given to a later run (publish_pull_request looks
\* for the pull request before it looks at main).
PulledIsNotRetried == \A t \in pulls, u \in Tokens : run[u].fid = run[t].fid => u <= t

\* A feedback is sent back for a stale base once; the second time it goes to a
\* human, whatever is replayed in between (finish_publication, transition).
StaleRunsBounded == \A f \in Feedback :
    Cardinality({t \in Tokens : run[t].fid = f /\ run[t].status = "stale_base"}) <= 2

\* With a single scheduler one run is active at a time: run_once resumes what a
\* crash has left before it claims anything (FeedbackScheduler.run_once).
SingleFlight == Cardinality({t \in Tokens : Active(t)}) <= 1

\* A problem is never lost to mutual duplicates: next to every duplicate there is
\* another report of the fingerprint that was, or is being, handled (classify_gate).
NotAllDuplicates == \A f \in Feedback : fb[f].status = "duplicate" =>
    \E g \in Feedback \ {f} : /\ Fingerprint[g] = Fingerprint[f]
                              /\ fb[g].status \notin {"absent", "duplicate"}

\* A run that can still be resumed owns its feedback, but for two windows: it has
\* not passed its first node, or it has just given a stale feedback back
\* (claim_next_agent_feedback, complete_stale_base).
ActiveRunOwnsFeedback == \A t \in Tokens : Active(t) =>
    \/ Owns(t)
    \/ run[t].status = "created"
    \/ run[t].status = "publishing" /\ t \in moved

\* The two tables never drift apart by more than the one node being executed: a
\* feedback row is at the stage of its run, one stage ahead, or has a verdict
\* the run is about to get (the finish_ nodes write the feedback row first).
StagesAgree == \A t \in Tokens : Active(t) /\ Owns(t) =>
    fb[run[t].fid].status \in Verdicts \cup
       CASE run[t].status = "created"          -> {"claimed", "gating"}
         [] run[t].status = "gating"           -> {"gating", "reproducing", "publishing_issue"}
         [] run[t].status = "preparing_source" -> {"reproducing"}
         [] run[t].status = "reproducing"      -> {"reproducing", "repairing"}
         [] run[t].status = "repairing"        -> {"repairing", "validating"}
         [] run[t].status = "validating"       -> {"validating", "validated", "publishing"}
         [] run[t].status = "publishing"       -> {"publishing", "stale_base"}
         [] run[t].status = "publishing_issue" -> {"publishing_issue"}

-----------------------------------------------------------------------------
(* Actions that must not happen, and what must happen in the end *)

\* A run that has ended is not written again, except when it is reopened for a retry
\* (TERMINAL_RUN_STATUSES: a resume that finds it ended does nothing else).
TerminalRunsStay == [][\A t \in Tokens :
    run[t].status \in TerminalRun /\ run'[t].status # run[t].status =>
        \E p \in Procs : proc[p].mode = "reopen" /\ proc[p].tok = t]_vars

\* A pull request is opened for a run only while the feedback is that run's
\* (publish_pull_request, which does not read the feedback row itself).
PullsByOwner == [][\A t \in pulls' \ pulls : Owns(t)]_vars

\* ... and only while the feedback is waiting for it.
PullsWhilePublishing == [][\A t \in pulls' \ pulls :
    Owns(t) /\ fb[run[t].fid].status = "publishing"]_vars

\* Every run comes to an end: none is resumed for ever (_finalize_run_failure).
EveryRunEnds == \A t \in Tokens : Created(t) ~> run[t].status \in TerminalRun

\* The finalizer of run t is about to ask for a verdict the transition table forbids.
VerdictForbidden(t) == \E p \in Procs :
    /\ proc[p].tok = t /\ proc[p].mode = "final" /\ proc[p].pc = "get"
    /\ Owns(t)
    /\ ~CanMove(fb[run[t].fid].status, proc[p].goal)

\* With one scheduler a run comes to an end, whatever fails, unless that happens to it:
\* crashes, late checkpoints, failed requests and replays alone keep none active.
RunsEndUnlessForbidden == \A t \in Tokens :
    Created(t) ~> run[t].status \in TerminalRun \/ VerdictForbidden(t)

\* Every submitted feedback gets a verdict from the scheduler (run_forever), unless its
\* run is one of the two exceptions: it leaves the row to nobody, or loops.
FeedbackSettlesUnlessLeft == \A f \in Feedback : fb[f].status # "absent" ~>
    \/ Settled(f)
    \/ \E t \in Tokens : run[t].fid = f /\ (LeftBehind(t) \/ VerdictForbidden(t))

-----------------------------------------------------------------------------
\* The rows keep the promise of the queue: what the processes do to a row, in any
\* interleaving and with any fault, is a history FeedbackLifecycle allows.
Lifecycle == INSTANCE FeedbackLifecycle WITH
    item <- [f \in Feedback |-> [status   |-> fb[f].status,   token    |-> fb[f].token,
                                 attempts |-> fb[f].attempts, requeues |-> fb[f].requeues]]

ImplementsLifecycle == Lifecycle!Spec
=============================================================================
