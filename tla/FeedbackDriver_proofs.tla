----------------------- MODULE FeedbackDriver_proofs -----------------------
(***************************************************************************)
(* What holds where one process drives the runs: a resident scheduler      *)
(* without maintainers, or a maintainer without a scheduler.  The feedback *)
(* row and the run row are written by different requests and the           *)
(* checkpoint is saved later still, so after a crash the three may         *)
(* disagree; the theorems say by how much.  A run that came to a node has  *)
(* at least the status of that node, and a row is never moved but from the *)
(* status the node expects: together they leave one status to the run at   *)
(* every write.  With two drivers this fails (completed_run_fails shows    *)
(* one way).  The last part says what a run that has ended leaves behind:  *)
(* at worst a VALIDATED or STALE_BASE row, of a run that has failed, that  *)
(* the finalizer does not touch.                                           *)
(***************************************************************************)
EXTENDS FeedbackOwnership_proofs

\* A process that executes a run, or ends or reopens it, and the rows it works on.
Aside == {"idle"} \cup BeforeGraph

Engaged(p) == proc[p].pc \notin Aside
RowOf(p)   == fb[proc[p].fid]
RunOf(p)   == run[proc[p].tok]
HasRow(p)  == RowOf(p).token = proc[p].tok

-----------------------------------------------------------------------------
(* The steps, as far as the two tables, the checkpoint and main go *)

\* The process has the same run, at the same node, ...
Carries(p) == /\ Engaged(p) /\ proc'[p].tok = proc[p].tok /\ proc'[p].fid = proc[p].fid
              /\ proc'[p].node = proc[p].node

\* ... and nothing but its next request changes.
Holding(p) == /\ Carries(p) /\ proc'[p].out = proc[p].out /\ proc'[p].mode = proc[p].mode
              /\ proc'[p].unsaved = proc[p].unsaved
              /\ proc'[p].err = proc[p].err \/ proc[p].mode = "reopen"

Turns(p, from, to) == Holding(p) /\ proc[p].pc = from /\ proc'[p].pc = to

AimsAtRow(p) ==
    /\ Turns(p, "node", "get") /\ proc[p].mode = "graph"
    /\ proc[p].node \in FinishNodes /\ ~Disowned(p, RowOf(p))
    /\ \E m \in Moves(proc[p].node, proc[p].out) :
          Applicable(m, RowOf(p)) /\ proc'[p].goal = m[2]

FindsWritten(p) ==
    /\ Turns(p, "node", "runget") /\ proc[p].mode = "graph"
    /\ \/ proc[p].node = "prepare_source"
       \/ /\ proc[p].node \in FinishNodes /\ ~Disowned(p, RowOf(p))
          /\ RowOf(p).status \in AlreadyDone(proc[p].node, proc[p].out)

AimsAtVerdict(p) ==
    /\ Turns(p, "fail", "get") /\ proc[p].mode = "final"
    /\ HasRow(p) /\ RowOf(p).status \in Finalizable
    /\ proc'[p].goal = FailureVerdict(proc[p].err)

FindsVerdict(p) ==
    /\ Turns(p, "fail", "runget") /\ proc[p].mode = "final"
    /\ ~(HasRow(p) /\ RowOf(p).status \in Finalizable)

Checks(p) ==
    /\ Turns(p, "get", "cas") /\ proc[p].mode # "reopen" /\ HasRow(p)
    /\ CanMove(RowOf(p).status, proc[p].goal)
    /\ proc'[p].goal = proc[p].goal /\ proc'[p].seen = RowOf(p).status

ChecksReopen(p) ==
    /\ Turns(p, "get", "cas") /\ proc[p].mode = "reopen" /\ HasRow(p)
    /\ Reopenable(p, RowOf(p)) /\ proc'[p].err = RowOf(p).err
    /\ proc'[p].goal = IF RowOf(p).err = "issue_publication" THEN "publishing_issue"
                       ELSE proc[p].goal

FindsReopened(p) ==
    /\ Turns(p, "get", "runget") /\ proc[p].mode = "reopen" /\ HasRow(p)
    /\ AlreadyReopened(p, RowOf(p)) /\ proc'[p].goal = RowOf(p).status

SeesRun(p) ==
    /\ Turns(p, "runget", "save") /\ proc[p].mode = "graph"
    /\ RunOf(p).status = RunMove(proc[p].node, proc[p].out)[2]

AimsAtRun(p) ==
    /\ Turns(p, "runget", "patch") /\ proc[p].mode = "graph"
    /\ proc'[p].goal = RunMove(proc[p].node, proc[p].out)[2]
    /\ proc'[p].seen = IF RunMove(proc[p].node, proc[p].out)[1] = "any" THEN RunOf(p).status
                       ELSE RunMove(proc[p].node, proc[p].out)[1]

AimsAtEnd(p) ==
    /\ Turns(p, "runget", "patch") /\ proc[p].mode = "final"
    /\ proc'[p].goal = FailedRun(proc[p].err)

AimsAtRevival(p) ==
    /\ Turns(p, "runget", "patch") /\ proc[p].mode = "reopen"
    /\ proc'[p].goal = IF proc[p].goal \notin {"publishing", "publishing_issue"}
                       THEN proc[p].goal
                       ELSE IF RunOf(p).err = "issue_publication" THEN "publishing_issue"
                       ELSE "publishing"

LooksForPull(p) ==
    Turns(p, "node", "post") /\ proc[p].node = "publish_pull_request" /\ proc[p].mode = "graph"

Thinks(p) ==
    \/ LooksForPull(p) \/ AimsAtRow(p) \/ FindsWritten(p) \/ AimsAtVerdict(p) \/ FindsVerdict(p)
    \/ Checks(p) \/ ChecksReopen(p) \/ FindsReopened(p)
    \/ SeesRun(p) \/ AimsAtRun(p) \/ AimsAtEnd(p) \/ AimsAtRevival(p)

\* A conclusion, which only some nodes come to.
Decides(p) ==
    /\ Carries(p) /\ proc[p].pc \in {"node", "post"} /\ proc'[p].pc = "save"
    /\ proc[p].mode = "graph" /\ proc'[p].mode = "graph"
    /\ proc'[p].unsaved = proc[p].unsaved
    /\ \/ /\ proc[p].node = "classify_gate"
          /\ \/ proc'[p].out = "duplicate" /\ Duplicates(proc[p].fid) # {}
             \/ proc'[p].out \in GateRoutes
       \/ proc[p].node = "repair_agent" /\ proc'[p].out \in RepairOutcomes
       \/ proc[p].node = "validate_final" /\ proc'[p].out \in Validations
       \/ proc[p].node = "publish_issue" /\ proc'[p].out = proc[p].out
       \/ proc[p].node = "publish_pull_request" /\ proc'[p].out \in Dispositions

\* What an exception may come from, as far as it matters here.
Mishap(p, e) ==
    \/ proc[p].pc = "node" /\ e \in RaisedBy(proc[p].node, proc[p].out)
    \/ proc[p].pc = "post" /\ e = "publication"
    \/ proc[p].pc = "node" /\ e = "security" /\ ~Readable(p)
    \/ e = "other" /\ \/ /\ proc[p].pc = "node" /\ proc[p].node \in FinishNodes
                         /\ \/ Disowned(p, RowOf(p))
                            \/ /\ \A m \in Moves(proc[p].node, proc[p].out) :
                                     ~Applicable(m, RowOf(p))
                               /\ RowOf(p).status \notin AlreadyDone(proc[p].node, proc[p].out)
                      \/ /\ proc[p].pc = "get"
                         /\ ~(/\ HasRow(p) /\ CanMove(RowOf(p).status, proc[p].goal)
                              /\ ~(/\ RowOf(p).status = "stale_base" /\ proc[p].goal = "pending"
                                   /\ RowOf(p).requeues >= 1))
                      \/ proc[p].pc = "cas" /\ ~Matches(p)
                      \/ proc[p].pc = "patch"
                      \/ {"repo", "lost"} \cap FaultKinds # {}

Flushes(p) == ckpt' = [ckpt EXCEPT ![proc[p].tok] = PointsTo(proc[p].node, proc[p].out)]

Fails(p) ==
    /\ Carries(p) /\ proc[p].pc # "save" /\ proc[p].mode = "graph"
    /\ proc'[p].pc = "fail" /\ proc'[p].mode = "final"
    /\ proc'[p].out = proc[p].out /\ proc'[p].unsaved = FALSE
    /\ Mishap(p, proc'[p].err)
    /\ IF proc[p].unsaved THEN Flushes(p) ELSE UNCHANGED ckpt

Drops(p) ==
    /\ proc'[p] = Idle
    /\ \/ UNCHANGED ckpt
       \/ proc[p].unsaved /\ ~(Engaged(p) /\ proc[p].mode = "graph") /\ Flushes(p)

\* The row a process has just written, as far as its next move goes.
WrittenStatus(p) == [RowOf(p) EXCEPT !.status = proc[p].goal]

AimsAgain(p) ==
    /\ Turns(p, "cas", "get") /\ proc[p].mode = "graph"
    /\ \E m \in Moves(proc[p].node, proc[p].out) :
          Applicable(m, WrittenStatus(p)) /\ proc'[p].goal = m[2]

HasMoved(p) ==
    /\ Turns(p, "cas", "runget")
    /\ proc[p].mode = "reopen" => proc'[p].goal = proc[p].goal
    /\ proc[p].mode = "graph" =>
          \A m \in Moves(proc[p].node, proc[p].out) : ~Applicable(m, WrittenStatus(p))

\* The feedback row is written; the process goes on, or does not hear of it.
WritesFeedback(p) ==
    /\ proc[p].pc = "cas" /\ Matches(p) /\ fb' = Written(p) /\ UNCHANGED <<run, moved>>
    /\ \/ AimsAgain(p) /\ UNCHANGED ckpt
       \/ HasMoved(p) /\ UNCHANGED ckpt
       \/ "lost" \in FaultKinds /\ (Fails(p) \/ Drops(p))

\* The run row is written.
WritesRun(p) ==
    /\ proc[p].pc = "patch" /\ RunOf(p).status = proc[p].seen /\ run' = Patched(p)
    /\ UNCHANGED <<fb, moved>>
    /\ \/ Turns(p, "patch", "save") /\ proc[p].mode = "graph" /\ UNCHANGED ckpt
       \/ proc[p].mode = "final" /\ Drops(p)
       \/ /\ proc[p].mode = "reopen" /\ UNCHANGED ckpt
          /\ proc'[p] = Reopened(proc[p].tok, proc[p].fid)
       \/ "lost" \in FaultKinds /\ (Fails(p) \/ Drops(p))

\* The end of the graph is saved at once; the next node starts before it is, ...
SavesEnd(p) ==
    /\ proc[p].pc = "save" /\ Following(p) = "end" /\ proc'[p] = Idle
    /\ ckpt' = [ckpt EXCEPT ![proc[p].tok] = PointsTo("end", proc[p].out)]

TurnsToNext(p) ==
    /\ proc[p].pc = "save" /\ Following(p) # "end" /\ UNCHANGED ckpt
    /\ proc'[p].pc = "node" /\ proc'[p].mode = "graph" /\ proc'[p].unsaved = TRUE
    /\ proc'[p].tok = proc[p].tok /\ proc'[p].fid = proc[p].fid
    /\ proc'[p].node = Following(p) /\ proc'[p].out = proc[p].out

\* ... which happens later, or not.
CatchesUp(p) ==
    /\ proc[p].unsaved /\ proc[p].pc # "save" /\ Flushes(p)
    /\ proc'[p] = [proc[p] EXCEPT !.unsaved = FALSE]

\* An idle process polls, or sets out to resume a run: it reads the run's row and
\* the thread, and starts or reopens the run.
Polls(p) == /\ proc[p].pc = "idle" /\ proc'[p].pc = "claim" /\ proc'[p].mode = proc[p].mode
            /\ proc'[p].unsaved = proc[p].unsaved

SetsOut(p) == \E t \in Tokens :
    /\ proc[p].pc = "idle" /\ Created(t) /\ (p \in Maintainers \/ Active(t))
    /\ proc'[p] = Resuming(t)

LooksUp(p) ==
    /\ proc[p].pc = "resume"
    /\ proc'[p] = [proc[p] EXCEPT !.pc = "load", !.seen = RunOf(p).status,
                                  !.err = RunOf(p).err]

Enters(p) ==
    /\ proc[p].pc = "load" /\ proc[p].seen \in ActiveRun
    /\ proc'[p] = [proc[p] EXCEPT !.seen = "none", !.err = "none", !.pc = "start"]

Reopens(p) ==
    /\ proc[p].pc = "load"
    /\ \E goal \in ReopenGoals(p) :
          proc'[p] = [proc[p] EXCEPT !.seen = "none", !.err = "none", !.pc = "get",
                                    !.mode = "reopen", !.goal = goal]

Resumes(p) == proc[p].pc = "start" /\ proc'[p] = Executing(proc[p].tok, proc[p].fid)

\* Claims and what happens to rows without a process.
RowKept(f) == /\ fb'[f].status = fb[f].status /\ fb'[f].token = fb[f].token
              /\ fb'[f].err = fb[f].err /\ fb'[f].requeues = fb[f].requeues

RowWaits(f) ==
    \/ RowKept(f)
    \/ /\ fb[f].status = "absent" /\ fb'[f].status = "pending"
       /\ fb'[f].token = fb[f].token /\ fb'[f].err = fb[f].err
    \/ fb[f].status \in Unowned /\ fb'[f].status = "needs_human" /\ fb'[f].token = NoToken
    \/ /\ fb[f].status \in Unowned /\ fb'[f].status = "claimed"
       /\ fb'[f].token = claims + 1 /\ fb'[f].err = "none"

Queues(p) ==
    /\ proc[p].pc \in Resting /\ UNCHANGED <<run, ckpt, moved>>
    /\ \A f \in Feedback : RowWaits(f)
    /\ \/ proc'[p] = Idle
       \/ /\ proc'[p].pc = "create" /\ proc'[p].mode = "graph"
          /\ proc'[p].unsaved = FALSE

\* A run is created.
StartsRun(p) ==
    /\ proc[p].pc = "create" /\ run' = RunCreated(proc[p].tok, proc[p].fid)
    /\ UNCHANGED <<fb, moved>>
    /\ \/ proc'[p] = Executing(proc[p].tok, proc[p].fid) /\ UNCHANGED ckpt
       \/ Drops(p)

\* A maintainer finds the run revived already.
FindsRevived(p) ==
    /\ Engaged(p) /\ proc[p].mode = "reopen" /\ proc[p].pc = "runget"
    /\ RunOf(p).status \in {"publishing", "publishing_issue", proc[p].goal}
    /\ proc'[p] = Reopened(proc[p].tok, proc[p].fid)

\* Nothing changes but one process and its checkpoint, ...
Silent(p) ==
    /\ UNCHANGED <<fb, run, moved>>
    /\ \/ Thinks(p) /\ UNCHANGED ckpt
       \/ Fails(p) \/ Drops(p) \/ SavesEnd(p) \/ TurnsToNext(p) \/ CatchesUp(p)
       \/ /\ \/ Polls(p) \/ SetsOut(p) \/ LooksUp(p) \/ Enters(p) \/ Reopens(p)
             \/ Resumes(p) \/ FindsRevived(p)
          /\ UNCHANGED ckpt

\* ... or main is compared with the run's base at the end of it.
Concluding(p) ==
    /\ Decides(p) /\ UNCHANGED <<fb, run, ckpt>>
    /\ \/ UNCHANGED moved
       \/ /\ moved' = moved \cup {proc[p].tok}
          /\ proc[p].node = "publish_pull_request"

Outside ==
    /\ UNCHANGED <<proc, run, ckpt, moved>>
    /\ \A f \in Feedback : RowWaits(f) /\ (fb[f].status = "claimed" => RowKept(f))

DriverStep(p) == \/ Outside \/ Silent(p) \/ Concluding(p) \/ WritesFeedback(p)
                 \/ WritesRun(p) \/ Queues(p) \/ StartsRun(p)

\* A process turns to its next request, with some of goal, seen and error changed: ...
Asks(p, goal, seen, err) ==
    proc'[p].goal = goal /\ proc'[p].seen = seen /\ proc'[p].err = err

LEMMA RewriteTurns ==
    ASSUME TypeInv, NEW p \in Procs, Engaged(p), NEW pc, NEW g, NEW s, NEW e,
           Rewrites(p, pc, g, s, e), e = proc[p].err \/ proc[p].mode = "reopen"
    PROVE  Turns(p, proc[p].pc, pc) /\ Asks(p, g, s, e)
<1>1. proc[p] \in Process /\ proc \in [Procs -> Process]
  BY DEF TypeInv, ProcsOK
<1> DEFINE next == [proc[p] EXCEPT !.pc = pc, !.goal = g, !.seen = s, !.err = e]
<1>2. /\ next.pc = pc /\ next.goal = g /\ next.seen = s /\ next.err = e
      /\ next.tok = proc[p].tok /\ next.fid = proc[p].fid /\ next.node = proc[p].node
      /\ next.out = proc[p].out /\ next.mode = proc[p].mode /\ next.unsaved = proc[p].unsaved
  BY <1>1 DEF Process
<1>3. proc' = [proc EXCEPT ![p] = next]
  BY DEF Rewrites
<1> HIDE DEF next
<1>4. proc'[p] = next
  BY <1>3, RecordStep
<1> QED
  BY <1>2, <1>4 DEF Turns, Holding, Carries, Asks

\* ... the ways the actions write it down.
LEMMA GoalTurns ==
    ASSUME TypeInv, NEW p \in Procs, Engaged(p), NEW pc, NEW g,
           proc' = [proc EXCEPT ![p].pc = pc, ![p].goal = g]
    PROVE  Turns(p, proc[p].pc, pc) /\ Asks(p, g, proc[p].seen, proc[p].err)
<1>1. Rewrites(p, pc, g, proc[p].seen, proc[p].err)
  BY DEF Rewrites, TypeInv, ProcsOK, Process
<1> QED
  BY <1>1, RewriteTurns

LEMMA SeenTurns ==
    ASSUME TypeInv, NEW p \in Procs, Engaged(p), NEW pc, NEW s,
           proc' = [proc EXCEPT ![p].pc = pc, ![p].seen = s]
    PROVE  Turns(p, proc[p].pc, pc) /\ Asks(p, proc[p].goal, s, proc[p].err)
<1>1. Rewrites(p, pc, proc[p].goal, s, proc[p].err)
  BY DEF Rewrites, TypeInv, ProcsOK, Process
<1> QED
  BY <1>1, RewriteTurns

LEMMA GoalSeenTurns ==
    ASSUME TypeInv, NEW p \in Procs, Engaged(p), NEW pc, NEW g, NEW s,
           proc' = [proc EXCEPT ![p].pc = pc, ![p].goal = g, ![p].seen = s]
    PROVE  Turns(p, proc[p].pc, pc) /\ Asks(p, g, s, proc[p].err)
<1>1. Rewrites(p, pc, g, s, proc[p].err)
  BY DEF Rewrites, TypeInv, ProcsOK, Process
<1> QED
  BY <1>1, RewriteTurns

LEMMA SeenGoalTurns ==
    ASSUME TypeInv, NEW p \in Procs, Engaged(p), NEW pc, NEW g, NEW s,
           proc' = [proc EXCEPT ![p].pc = pc, ![p].seen = s, ![p].goal = g]
    PROVE  Turns(p, proc[p].pc, pc) /\ Asks(p, g, s, proc[p].err)
<1>1. Rewrites(p, pc, g, s, proc[p].err)
  BY DEF Rewrites, TypeInv, ProcsOK, Process
<1> QED
  BY <1>1, RewriteTurns

LEMMA RetryTurns ==
    ASSUME TypeInv, NEW p \in Procs, Engaged(p), NEW pc, NEW g, NEW s, NEW e,
           proc' = [proc EXCEPT ![p].pc = pc, ![p].seen = s, ![p].err = e, ![p].goal = g],
           proc[p].mode = "reopen"
    PROVE  Turns(p, proc[p].pc, pc) /\ Asks(p, g, s, e)
<1>1. Rewrites(p, pc, g, s, e)
  BY DEF Rewrites, TypeInv, ProcsOK, Process
<1> QED
  BY <1>1, RewriteTurns

LEMMA GotoTurns ==
    ASSUME TypeInv, NEW p \in Procs, NEW pc, Goto(p, pc), Engaged(p)
    PROVE  Turns(p, proc[p].pc, pc)
BY SeenGoalTurns DEF Goto

\* An exception ends the attempt, or turns the process to the failure finalizer.
LEMMA RaiseBreaks ==
    ASSUME TypeInv, PositionsInv, NEW p \in Procs, NEW e, Raise(p, e),
           proc[p].pc \notin {"idle", "save"},
           Engaged(p) /\ proc[p].mode = "graph" => Mishap(p, e)
    PROVE  Fails(p) \/ Drops(p)
<1>1. /\ proc[p] \in Process /\ ProcOK(proc[p]) /\ proc \in [Procs -> Process]
      /\ proc[p].unsaved \in BOOLEAN /\ InMemory(p)
  BY Started DEF TypeInv, ProcsOK, PositionsInv, Process
<1> DEFINE failed == [proc[p] EXCEPT !.pc = "fail", !.mode = "final", !.err = e,
                                     !.seen = "none", !.goal = "none", !.unsaved = FALSE]
<1>2. /\ failed.pc = "fail" /\ failed.mode = "final" /\ failed.err = e
      /\ failed.tok = proc[p].tok /\ failed.fid = proc[p].fid /\ failed.node = proc[p].node
      /\ failed.out = proc[p].out /\ failed.unsaved = FALSE
  BY <1>1 DEF Process
<1>3. ckpt' = IF proc[p].unsaved
              THEN [ckpt EXCEPT ![proc[p].tok] = PointsTo(proc[p].node, proc[p].out)] ELSE ckpt
  BY DEF Raise, PointsTo
<1>4. CASE proc[p].mode = "graph" /\ proc[p].pc \notin BeforeGraph
  <2>1. proc' = [proc EXCEPT ![p] = failed]
    BY <1>1, <1>4 DEF Raise
  <2> HIDE DEF failed
  <2>2. proc'[p] = failed
    BY <2>1, RecordStep
  <2>3. Engaged(p)
    BY <1>4 DEF Engaged, Aside
  <2>4. Fails(p)
    BY <1>2, <1>3, <1>4, <2>2, <2>3 DEF Fails, Carries, Flushes
  <2> QED
    BY <2>4
<1>5. CASE ~(proc[p].mode = "graph" /\ proc[p].pc \notin BeforeGraph)
  <2>1. proc'[p] = Idle
    BY <1>1, <1>5 DEF Raise
  <2>2. proc[p].mode # "graph" \/ ~Engaged(p)
    BY <1>5 DEF Engaged, Aside
  <2> QED
    BY <1>3, <2>1, <2>2 DEF Drops, Flushes
<1> QED
  BY <1>4, <1>5


LEMMA DecisionDrives ==
    ASSUME TypeInv, NEW p \in Procs, NEW out, Conclude(p, out), proc[p].pc \in {"node", "post"},
           UNCHANGED <<fb, run>>,
           \/ UNCHANGED moved
           \/ moved' = moved \cup {proc[p].tok} /\ proc[p].node = "publish_pull_request",
           \/ /\ proc[p].node = "classify_gate"
              /\ \/ out = "duplicate" /\ Duplicates(proc[p].fid) # {}
                 \/ out \in GateRoutes
           \/ proc[p].node = "repair_agent" /\ out \in RepairOutcomes
           \/ proc[p].node = "validate_final" /\ out \in Validations
           \/ proc[p].node = "publish_issue" /\ out = proc[p].out
           \/ proc[p].node = "publish_pull_request" /\ out \in Dispositions
    PROVE  DriverStep(p)
<1> DEFINE next == [proc[p] EXCEPT !.pc = "save", !.out = out]
<1>1. proc[p] \in Process /\ proc \in [Procs -> Process] /\ proc[p].mode = "graph"
  BY Started DEF TypeInv, ProcsOK, ProcOK
<1>2. /\ next.pc = "save" /\ next.tok = proc[p].tok /\ next.fid = proc[p].fid
      /\ next.node = proc[p].node /\ next.out = out /\ next.mode = proc[p].mode
      /\ next.unsaved = proc[p].unsaved
  BY <1>1 DEF Process
<1>3. proc' = [proc EXCEPT ![p] = next] /\ UNCHANGED ckpt
  BY <1>1 DEF Conclude
<1> HIDE DEF next
<1>4. proc'[p] = next
  BY <1>3, RecordStep
<1>5. Decides(p)
  BY <1>1, <1>2, <1>4 DEF Decides, Carries, Engaged, Aside, BeforeGraph, Fresh
<1> QED
  BY <1>3, <1>5 DEF DriverStep, Concluding

LEMMA NodeDrives ==
    ASSUME TypeInv, PositionsInv, NEW p \in Procs,
           \/ ClassifyGate(p) \/ PrepareSource(p) \/ RepairAgent(p) \/ ValidateFinal(p)
           \/ PublishIssue(p) \/ LookForPull(p) \/ PostPull(p) \/ NothingPending(p)
           \/ PostFails(p) \/ NodeFails(p) \/ ArtifactMissing(p)
    PROVE  DriverStep(p)
<1>1. /\ proc[p].pc \in {"node", "post"} /\ UNCHANGED <<fb, run>> /\ proc[p].mode = "graph"
      /\ Engaged(p) /\ (proc[p].pc = "post" => proc[p].node = "publish_pull_request")
  BY Started
     DEF ClassifyGate, PrepareSource, RepairAgent, ValidateFinal, PublishIssue,
         LookForPull, PostPull, PostFails, NothingPending, NodeFails, ArtifactMissing, At, ProcOK, Engaged,
         Fresh, Aside, BeforeGraph
<1>2. CASE ClassifyGate(p)
  <2>1. /\ proc[p].node = "classify_gate" /\ UNCHANGED moved
        /\ \E out : /\ Conclude(p, out)
                    /\ \/ out = "duplicate" /\ Duplicates(proc[p].fid) # {}
                       \/ out \in GateRoutes
    BY <1>2 DEF ClassifyGate, At
  <2> QED
    BY <1>1, <2>1, DecisionDrives
<1>3. CASE PrepareSource(p)
  <2>1. proc[p].node = "prepare_source" /\ UNCHANGED <<moved, ckpt>> /\ Goto(p, "runget")
    BY <1>3 DEF PrepareSource, At
  <2>2. Turns(p, "node", "runget")
    BY <1>1, <2>1, GotoTurns
  <2> QED
    BY <1>1, <2>1, <2>2 DEF DriverStep, Silent, Thinks, FindsWritten
<1>4. CASE RepairAgent(p)
  <2>1. /\ proc[p].node = "repair_agent" /\ UNCHANGED moved
        /\ \E out \in RepairOutcomes : Conclude(p, out)
    BY <1>4, RunAssumption DEF RepairAgent, At, RunAssumption
  <2> QED
    BY <1>1, <2>1, DecisionDrives
<1>5. CASE ValidateFinal(p)
  <2>1. /\ proc[p].node = "validate_final" /\ UNCHANGED moved
        /\ \E out \in Validations : Conclude(p, out)
    BY <1>5 DEF ValidateFinal, At, Validations
  <2> QED
    BY <1>1, <2>1, DecisionDrives
<1>6. CASE PublishIssue(p)
  <2>1. /\ proc[p].node = "publish_issue" /\ UNCHANGED moved /\ Conclude(p, proc[p].out)
    BY <1>6 DEF PublishIssue, At
  <2> QED
    BY <1>1, <2>1, DecisionDrives
<1>7. CASE LookForPull(p) \/ PostPull(p)
  <2>1. /\ proc[p].node = "publish_pull_request"
        /\ \/ Conclude(p, "opened") /\ UNCHANGED moved
           \/ Conclude(p, "stale") /\ moved' = moved \cup {proc[p].tok}
           \/ proc[p].pc = "node" /\ Goto(p, "post") /\ UNCHANGED <<ckpt, moved>>
    BY <1>1, <1>7 DEF LookForPull, PostPull, At
  <2>2. "opened" \in Dispositions /\ "stale" \in Dispositions
    BY DEF Dispositions
  <2>3. CASE proc[p].pc = "node" /\ Goto(p, "post") /\ UNCHANGED <<ckpt, moved>>
    <3>1. Turns(p, "node", "post")
      BY <1>1, <2>3, GotoTurns
    <3> QED
      BY <1>1, <2>1, <2>3, <3>1 DEF DriverStep, Silent, Thinks, LooksForPull
  <2> QED
    BY <1>1, <2>1, <2>2, <2>3, DecisionDrives
<1>8. CASE NothingPending(p)
  <2>1. proc'[p] = Idle /\ UNCHANGED <<moved, ckpt>>
    BY <1>8, RecordStep DEF NothingPending
  <2> QED
    BY <1>1, <2>1 DEF DriverStep, Silent, Drops
<1>9. CASE NodeFails(p) \/ ArtifactMissing(p) \/ PostFails(p)
  <2>1. PICK e : Raise(p, e) /\ Mishap(p, e) /\ UNCHANGED moved
    BY <1>9 DEF NodeFails, ArtifactMissing, PostFails, Mishap
  <2>2. Fails(p) \/ Drops(p)
    BY <1>1, <2>1, RaiseBreaks
  <2> QED
    BY <1>1, <2>1, <2>2 DEF DriverStep, Silent
<1> QED
  BY <1>2, <1>3, <1>4, <1>5, <1>6, <1>7, <1>8, <1>9

LEMMA ReadsDrive ==
    ASSUME TypeInv, PositionsInv, NEW p \in Procs,
           ReadFeedback(p) \/ FinalizeFailure(p) \/ CheckTransition(p) \/ CheckReopen(p)
    PROVE  DriverStep(p)
<1>1. /\ proc[p].pc \in {"node", "fail", "get"} /\ Engaged(p)
      /\ UNCHANGED <<fb, run, moved>> /\ ProcOK(proc[p])
  BY Started DEF ReadFeedback, FinalizeFailure, CheckTransition, CheckReopen, Engaged, Aside, BeforeGraph, Fresh
<1>2. ASSUME Thinks(p), UNCHANGED ckpt
      PROVE  DriverStep(p)
  BY <1>1, <1>2 DEF DriverStep, Silent
<1>3. ASSUME Raise(p, "other"), proc[p].mode = "graph" => Mishap(p, "other")
      PROVE  DriverStep(p)
  BY <1>1, <1>3, RaiseBreaks DEF DriverStep, Silent
<1>4. CASE ReadFeedback(p)
  <2>1. /\ proc[p].pc = "node" /\ proc[p].mode = "graph" /\ proc[p].node \in FinishNodes
    BY <1>1, <1>4 DEF ReadFeedback, ProcOK
  <2>2. CASE /\ Raise(p, "other")
             /\ \/ Disowned(p, RowOf(p))
                \/ /\ \A m \in Moves(proc[p].node, proc[p].out) : ~Applicable(m, RowOf(p))
                   /\ RowOf(p).status \notin AlreadyDone(proc[p].node, proc[p].out)
    <3>1. Mishap(p, "other")
      BY <2>1, <2>2 DEF Mishap
    <3> QED
      BY <1>3, <2>2, <3>1
  <2>3. ASSUME ~Disowned(p, RowOf(p)), NEW m \in Moves(proc[p].node, proc[p].out),
               Applicable(m, RowOf(p)), UNCHANGED ckpt,
               proc' = [proc EXCEPT ![p].pc = "get", ![p].goal = m[2]]
        PROVE  DriverStep(p)
    <3>1. Turns(p, "node", "get") /\ Asks(p, m[2], proc[p].seen, proc[p].err)
      BY <1>1, <2>1, <2>3, GoalTurns
    <3>2. AimsAtRow(p)
      BY <2>1, <2>3, <3>1 DEF AimsAtRow, Asks
    <3> QED
      BY <1>2, <2>3, <3>2 DEF Thinks
  <2>4. ASSUME ~Disowned(p, RowOf(p)), UNCHANGED ckpt, Goto(p, "runget"),
               RowOf(p).status \in AlreadyDone(proc[p].node, proc[p].out)
        PROVE  DriverStep(p)
    <3>1. Turns(p, "node", "runget")
      BY <1>1, <2>1, <2>4, GotoTurns
    <3>2. FindsWritten(p)
      BY <2>1, <2>4, <3>1 DEF FindsWritten
    <3> QED
      BY <1>2, <2>4, <3>2 DEF Thinks
  <2> QED
    BY <1>4, <2>2, <2>3, <2>4 DEF ReadFeedback, RowOf
<1>5. CASE FinalizeFailure(p)
  <2>1. proc[p].pc = "fail" /\ proc[p].mode = "final" /\ UNCHANGED ckpt
    BY <1>1, <1>5 DEF FinalizeFailure, ProcOK
  <2>2. CASE /\ HasRow(p) /\ RowOf(p).status \in Finalizable
             /\ proc' = [proc EXCEPT ![p].pc = "get", ![p].goal = FailureVerdict(proc[p].err)]
    <3>1. /\ Turns(p, "fail", "get")
          /\ Asks(p, FailureVerdict(proc[p].err), proc[p].seen, proc[p].err)
      BY <1>1, <2>1, <2>2, GoalTurns
    <3> QED
      BY <1>2, <2>1, <2>2, <3>1 DEF Thinks, AimsAtVerdict, Asks
  <2>3. CASE ~(HasRow(p) /\ RowOf(p).status \in Finalizable) /\ Goto(p, "runget")
    <3>1. Turns(p, "fail", "runget")
      BY <1>1, <2>1, <2>3, GotoTurns
    <3> QED
      BY <1>2, <2>1, <2>3, <3>1 DEF Thinks, FindsVerdict
  <2> QED
    BY <1>5, <2>2, <2>3 DEF FinalizeFailure, HasRow, RowOf
<1>6. CASE CheckTransition(p)
  <2>1. proc[p].pc = "get" /\ proc[p].mode # "reopen"
    BY <1>6 DEF CheckTransition
  <2>2. CASE /\ HasRow(p) /\ CanMove(RowOf(p).status, proc[p].goal) /\ UNCHANGED ckpt
             /\ proc' = [proc EXCEPT ![p].pc = "cas", ![p].seen = RowOf(p).status]
    <3>1. Turns(p, "get", "cas") /\ Asks(p, proc[p].goal, RowOf(p).status, proc[p].err)
      BY <1>1, <2>1, <2>2, SeenTurns
    <3> QED
      BY <1>2, <2>1, <2>2, <3>1 DEF Thinks, Checks, Asks
  <2>3. CASE /\ Raise(p, "other")
             /\ ~(/\ HasRow(p) /\ CanMove(RowOf(p).status, proc[p].goal)
                  /\ ~(/\ RowOf(p).status = "stale_base" /\ proc[p].goal = "pending"
                       /\ RowOf(p).requeues >= 1))
    <3>1. Mishap(p, "other")
      BY <2>1, <2>3 DEF Mishap
    <3> QED
      BY <1>3, <2>3, <3>1
  <2> QED
    BY <1>6, <2>2, <2>3 DEF CheckTransition, HasRow, RowOf
<1>7. CASE CheckReopen(p)
  <2>1. proc[p].pc = "get" /\ proc[p].mode = "reopen"
    BY <1>7 DEF CheckReopen
  <2>2. CASE /\ HasRow(p) /\ AlreadyReopened(p, RowOf(p)) /\ UNCHANGED ckpt
             /\ proc' = [proc EXCEPT ![p].pc = "runget", ![p].goal = RowOf(p).status]
    <3>1. Turns(p, "get", "runget") /\ Asks(p, RowOf(p).status, proc[p].seen, proc[p].err)
      BY <1>1, <2>1, <2>2, GoalTurns
    <3> QED
      BY <1>2, <2>1, <2>2, <3>1 DEF Thinks, FindsReopened, Asks
  <2> DEFINE g == IF RowOf(p).err = "issue_publication" THEN "publishing_issue"
                  ELSE proc[p].goal
  <2>3. CASE /\ HasRow(p) /\ Reopenable(p, RowOf(p)) /\ UNCHANGED ckpt
             /\ proc' = [proc EXCEPT ![p].pc = "cas", ![p].seen = "failed",
                                     ![p].err = RowOf(p).err, ![p].goal = g]
    <3> HIDE DEF g
    <3>1. Turns(p, "get", "cas") /\ Asks(p, g, "failed", RowOf(p).err)
      BY <1>1, <2>1, <2>3, RetryTurns
    <3> QED
      BY <1>2, <2>1, <2>3, <3>1 DEF Thinks, ChecksReopen, Asks, g
  <2>4. CASE Raise(p, "other")
    BY <1>3, <2>1, <2>4
  <2> QED
    BY <1>7, <2>2, <2>3, <2>4 DEF CheckReopen, HasRow, RowOf, TypeInv, ProcsOK
<1> QED
  BY <1>4, <1>5, <1>6, <1>7

LEMMA WriteDrives ==
    ASSUME TypeInv, PositionsInv, NEW p \in Procs, WriteFeedback(p)
    PROVE  DriverStep(p)
<1>1. /\ proc[p].pc = "cas" /\ Engaged(p) /\ UNCHANGED <<run, moved>>
      /\ proc[p].mode \in {"graph", "final", "reopen"}
  BY Started DEF WriteFeedback, Engaged, Aside, BeforeGraph, Fresh, Process
<1>2. CASE ~Matches(p) /\ Raise(p, "other") /\ UNCHANGED fb
  <2>1. Mishap(p, "other")
    BY <1>1, <1>2 DEF Mishap
  <2>2. Fails(p) \/ Drops(p)
    BY <1>1, <1>2, <2>1, RaiseBreaks
  <2> QED
    BY <1>1, <1>2, <2>2 DEF DriverStep, Silent
<1>3. ASSUME Matches(p), fb' = Written(p), UNCHANGED ckpt, NEW m \in Chained(p),
             proc' = [proc EXCEPT ![p].pc = "get", ![p].goal = m[2], ![p].seen = "none"]
      PROVE  DriverStep(p)
  <2>1. Turns(p, "cas", "get") /\ Asks(p, m[2], "none", proc[p].err)
    BY <1>1, <1>3, GoalSeenTurns
  <2>2. /\ proc[p].mode = "graph" /\ m \in Moves(proc[p].node, proc[p].out)
        /\ Applicable(m, WrittenStatus(p))
    BY <1>3 DEF Chained, WrittenStatus, RowOf
  <2>3. AimsAgain(p)
    BY <2>1, <2>2 DEF AimsAgain, Asks
  <2> QED
    BY <1>1, <1>3, <2>3 DEF DriverStep, WritesFeedback
<1>4. ASSUME Matches(p), fb' = Written(p), UNCHANGED ckpt, Chained(p) = {}, NEW g,
             proc' = [proc EXCEPT ![p].pc = "runget", ![p].seen = "none", ![p].goal = g],
             proc[p].mode = "reopen" => g = proc[p].goal
      PROVE  DriverStep(p)
  <2>1. Turns(p, "cas", "runget") /\ Asks(p, g, "none", proc[p].err)
    BY <1>1, <1>4, SeenGoalTurns
  <2>2. proc[p].mode = "graph" =>
           \A m \in Moves(proc[p].node, proc[p].out) : ~Applicable(m, WrittenStatus(p))
    BY <1>4 DEF Chained, WrittenStatus, RowOf
  <2>3. HasMoved(p)
    BY <1>4, <2>1, <2>2 DEF HasMoved, Asks
  <2> QED
    BY <1>1, <1>4, <2>3 DEF DriverStep, WritesFeedback
<1> DEFINE g == IF proc[p].mode = "reopen" THEN proc[p].goal ELSE "none"
<1>5. CASE /\ Matches(p) /\ fb' = Written(p) /\ UNCHANGED ckpt /\ Chained(p) = {}
           /\ proc' = [proc EXCEPT ![p].pc = "runget", ![p].seen = "none", ![p].goal = g]
  <2>1. proc[p].mode = "reopen" => g = proc[p].goal
    OBVIOUS
  <2> HIDE DEF g
  <2> QED
    BY <1>4, <1>5, <2>1
<1> QED
  BY <1>2, <1>3, <1>5 DEF WriteFeedback, TypeInv, ProcsOK

LEMMA RunDrives ==
    ASSUME TypeInv, PositionsInv, NEW p \in Procs,
           ReadRunInGraph(p) \/ ReadRunToFail(p) \/ ReadRunToReopen(p)
    PROVE  DriverStep(p)
<1>1. /\ proc[p].pc = "runget" /\ Engaged(p) /\ UNCHANGED <<fb, run, moved, ckpt>>
  BY DEF ReadRunInGraph, ReadRunToFail, ReadRunToReopen, Engaged, Aside, BeforeGraph, Fresh
<1>2. ASSUME NEW s, NEW g, ContinueAt(p, s, g)
      PROVE  Turns(p, "runget", "patch") /\ Asks(p, g, s, proc[p].err)
  BY <1>1, <1>2, SeenGoalTurns DEF ContinueAt
<1>3. ASSUME Thinks(p)
      PROVE  DriverStep(p)
  BY <1>1, <1>3 DEF DriverStep, Silent
<1>4. CASE proc' = [proc EXCEPT ![p] = Idle]
  <2>1. proc'[p] = Idle
    BY <1>4, RecordStep
  <2> QED
    BY <1>1, <2>1 DEF DriverStep, Silent, Drops
<1>5. CASE ReadRunInGraph(p)
  <2> DEFINE mv == RunMove(proc[p].node, proc[p].out)
             seen == IF mv[1] = "any" THEN RunOf(p).status ELSE mv[1]
  <2>1. proc[p].mode = "graph"
    BY <1>5 DEF ReadRunInGraph
  <2>2. CASE RunOf(p).status = mv[2] /\ Goto(p, "save")
    <3>1. Turns(p, "runget", "save")
      BY <1>1, <2>2, GotoTurns
    <3> QED
      BY <1>3, <2>1, <2>2, <3>1 DEF Thinks, SeesRun
  <2>3. CASE ContinueAt(p, seen, mv[2])
    <3>1. Turns(p, "runget", "patch") /\ Asks(p, mv[2], seen, proc[p].err)
      BY <1>2, <2>3
    <3> QED
      BY <1>3, <2>1, <3>1 DEF Thinks, AimsAtRun, Asks
  <2> QED
    BY <1>5, <2>2, <2>3 DEF ReadRunInGraph, RunOf
<1>6. CASE ReadRunToFail(p)
  <2>1. proc[p].mode = "final"
    BY <1>6 DEF ReadRunToFail
  <2>2. CASE ContinueAt(p, RunOf(p).status, FailedRun(proc[p].err))
    <3>1. /\ Turns(p, "runget", "patch")
          /\ Asks(p, FailedRun(proc[p].err), RunOf(p).status, proc[p].err)
      BY <1>2, <2>2
    <3> QED
      BY <1>3, <2>1, <3>1 DEF Thinks, AimsAtEnd, Asks
  <2> QED
    BY <1>4, <1>6, <2>2 DEF ReadRunToFail, RunOf
<1>7. CASE ReadRunToReopen(p)
  <2> DEFINE goal == IF proc[p].goal \notin {"publishing", "publishing_issue"}
                     THEN proc[p].goal
                     ELSE IF RunOf(p).err = "issue_publication" THEN "publishing_issue"
                     ELSE "publishing"
  <2>1. proc[p].mode = "reopen"
    BY <1>7 DEF ReadRunToReopen
  <2>2. CASE ContinueAt(p, RunOf(p).status, goal)
    <3>1. Turns(p, "runget", "patch") /\ Asks(p, goal, RunOf(p).status, proc[p].err)
      BY <1>2, <2>2
    <3> QED
      BY <1>3, <2>1, <3>1 DEF Thinks, AimsAtRevival, Asks
  <2>3. CASE /\ RunOf(p).status \in {"publishing", "publishing_issue", proc[p].goal}
             /\ proc' = [proc EXCEPT ![p] = Reopened(proc[p].tok, proc[p].fid)]
    <3>1. proc'[p] = Reopened(proc[p].tok, proc[p].fid)
      BY <2>3, RecordStep
    <3>2. FindsRevived(p)
      BY <1>1, <2>1, <2>3, <3>1 DEF FindsRevived
    <3> QED
      BY <1>1, <3>2 DEF DriverStep, Silent
  <2> QED
    BY <1>4, <1>7, <2>2, <2>3 DEF ReadRunToReopen, RunOf
<1> QED
  BY <1>5, <1>6, <1>7

LEMMA PatchDrives ==
    ASSUME TypeInv, PositionsInv, NEW p \in Procs, PatchRun(p)
    PROVE  DriverStep(p)
<1>1. /\ proc[p].pc = "patch" /\ Engaged(p) /\ UNCHANGED <<fb, moved>>
      /\ proc[p].mode \in {"graph", "final", "reopen"}
  BY Started DEF PatchRun, Engaged, Aside, BeforeGraph, Fresh, Process
<1>2. CASE Raise(p, "other") /\ UNCHANGED run
  <2>1. Mishap(p, "other")
    BY <1>1 DEF Mishap
  <2>2. Fails(p) \/ Drops(p)
    BY <1>1, <1>2, <2>1, RaiseBreaks
  <2> QED
    BY <1>1, <1>2, <2>2 DEF DriverStep, Silent
<1>3. ASSUME RunOf(p).status = proc[p].seen, run' = Patched(p), UNCHANGED ckpt
      PROVE  DriverStep(p)
  <2>1. CASE proc[p].mode = "graph"
    <3>1. Goto(p, "save")
      BY <1>2, <1>3, <2>1 DEF PatchRun, RunOf
    <3>2. Turns(p, "patch", "save")
      BY <1>1, <3>1, GotoTurns
    <3> QED
      BY <1>1, <1>3, <2>1, <3>2 DEF DriverStep, WritesRun
  <2>2. CASE proc[p].mode = "final"
    <3>1. proc' = [proc EXCEPT ![p] = Idle]
      BY <1>3, <2>2 DEF PatchRun, RunOf
    <3>2. Drops(p)
      BY <1>3, <3>1, RecordStep DEF Drops
    <3> QED
      BY <1>1, <1>3, <2>2, <3>2 DEF DriverStep, WritesRun
  <2>3. CASE proc[p].mode = "reopen"
    <3>1. proc' = [proc EXCEPT ![p] = Reopened(proc[p].tok, proc[p].fid)]
      BY <1>3, <2>3 DEF PatchRun, RunOf
    <3>2. proc'[p] = Reopened(proc[p].tok, proc[p].fid)
      BY <3>1, RecordStep
    <3> QED
      BY <1>1, <1>3, <2>3, <3>2 DEF DriverStep, WritesRun
  <2> QED
    BY <1>1, <2>1, <2>2, <2>3
<1> QED
  BY <1>2, <1>3 DEF PatchRun, RunOf

LEMMA SaveDrives ==
    ASSUME TypeInv, NEW p \in Procs, NextNode(p) \/ PutCheckpoint(p)
    PROVE  DriverStep(p)
<1> DEFINE next == [proc[p] EXCEPT !.pc = "node", !.node = Following(p), !.unsaved = TRUE]
           same == [proc[p] EXCEPT !.unsaved = FALSE]
<1>1. /\ proc[p] \in Process /\ proc \in [Procs -> Process] /\ UNCHANGED <<fb, run, moved>>
      /\ proc[p].pc = "save" => proc[p].mode = "graph"
  BY Started DEF NextNode, PutCheckpoint, TypeInv, ProcsOK, ProcOK
<1>2. /\ next.pc = "node" /\ next.node = Following(p) /\ next.out = proc[p].out
      /\ next.tok = proc[p].tok /\ next.fid = proc[p].fid /\ next.mode = proc[p].mode
      /\ next.unsaved = TRUE
  BY <1>1 DEF Process
<1>3. CASE NextNode(p)
  <2>1. CASE Following(p) = "end"
    <3>1. proc'[p] = Idle
      BY <1>3, <2>1, RecordStep DEF NextNode
    <3>2. SavesEnd(p)
      BY <1>3, <2>1, <3>1 DEF NextNode, SavesEnd, PointsTo
    <3> QED
      BY <1>1, <3>2 DEF DriverStep, Silent
  <2>2. CASE Following(p) # "end"
    <3>1. proc' = [proc EXCEPT ![p] = next] /\ UNCHANGED ckpt /\ proc[p].pc = "save"
      BY <1>1, <1>3, <2>2 DEF NextNode
    <3> HIDE DEF next
    <3>2. proc'[p] = next
      BY <3>1, RecordStep
    <3>3. TurnsToNext(p)
      BY <1>1, <1>2, <2>2, <3>1, <3>2 DEF TurnsToNext
    <3> QED
      BY <1>1, <3>3 DEF DriverStep, Silent
  <2> QED
    BY <2>1, <2>2
<1>4. CASE PutCheckpoint(p)
  <2>1. proc' = [proc EXCEPT ![p] = same]
    BY <1>1, <1>4 DEF PutCheckpoint
  <2>2. proc'[p] = same
    BY <2>1, RecordStep
  <2>3. CatchesUp(p)
    BY <1>4, <2>2 DEF PutCheckpoint, CatchesUp, Flushes, PointsTo
  <2> QED
    BY <1>1, <2>3 DEF DriverStep, Silent
<1> QED
  BY <1>3, <1>4

LEMMA GivenUpWaits ==
    ASSUME TypeInv, NEW gone \in SUBSET Feedback, NEW f \in Feedback,
           \A g \in gone : Claimable(g), fb'[f] = GivenUp(gone)[f]
    PROVE  RowWaits(f)
<1>1. fb[f] \in FeedbackRow
  BY DEF TypeInv, RowsOK
<1>2. CASE f \in gone
  BY <1>1, <1>2 DEF GivenUp, RowWaits, Claimable, Unowned, FeedbackRow
<1>3. CASE f \notin gone
  BY <1>3 DEF GivenUp, RowWaits, RowKept
<1> QED
  BY <1>2, <1>3

LEMMA ClaimWaits ==
    ASSUME TypeInv, NEW p \in Procs, NEW gone \in SUBSET Feedback, NEW g \in Feedback,
           \A h \in gone : Claimable(h), Claimable(g), Claim(p, g, gone),
           NEW f \in Feedback
    PROVE  RowWaits(f)
<1>1. fb[g] \in FeedbackRow
  BY DEF TypeInv, RowsOK
<1>2. f # g => fb'[f] = GivenUp(gone)[f]
  BY DEF Claim, Claimed, GivenUp
<1>3. fb'[g] = [fb[g] EXCEPT !.status = "claimed", !.token = claims + 1, !.lease = TRUE,
                             !.attempts = @ + 1, !.err = "none"]
  BY DEF Claim, Claimed, GivenUp
<1>4. CASE f = g
  BY <1>1, <1>3, <1>4 DEF RowWaits, Claimable, Unowned, FeedbackRow
<1> QED
  BY <1>2, <1>4, GivenUpWaits

LEMMA ClaimDrives ==
    ASSUME TypeInv, NEW p \in Procs,
           ClaimNext(p) \/ \E f \in Feedback : ClaimById(p, f)
    PROVE  DriverStep(p)
<1>1. ASSUME NEW gone \in SUBSET Feedback, \A g \in gone : Claimable(g), GiveUp(p, gone),
             proc[p].pc \in Resting
      PROVE  DriverStep(p)
  <2>1. fb' = GivenUp(gone) /\ UNCHANGED <<run, ckpt, moved>>
    BY <1>1 DEF GiveUp
  <2>2. proc'[p] = Idle
    BY <1>1, RecordStep DEF GiveUp
  <2>3. \A f \in Feedback : RowWaits(f)
    BY <1>1, <2>1, GivenUpWaits
  <2> QED
    BY <1>1, <2>1, <2>2, <2>3 DEF DriverStep, Queues
<1>2. ASSUME NEW gone \in SUBSET Feedback, \A g \in gone : Claimable(g), NEW f \in Feedback,
             Claimable(f), Claim(p, f, gone), proc[p].pc \in Resting
      PROVE  DriverStep(p)
  <2> DEFINE next == [Idle EXCEPT !.pc = "create", !.tok = claims + 1, !.fid = f]
  <2>1. next.pc = "create" /\ next.mode = "graph" /\ next.unsaved = FALSE
    BY DEF Idle
  <2>2. proc' = [proc EXCEPT ![p] = next] /\ UNCHANGED <<run, ckpt, moved>>
    BY <1>2 DEF Claim
  <2> HIDE DEF next
  <2>3. proc'[p] = next
    BY <2>2, RecordStep
  <2>4. \A g \in Feedback : RowWaits(g)
    BY <1>2, ClaimWaits
  <2> QED
    BY <1>2, <2>1, <2>2, <2>3, <2>4 DEF DriverStep, Queues
<1>3. CASE ClaimNext(p)
  <2> DEFINE gone == {g \in Feedback : Exhausted(g)}
  <2>1. gone \in SUBSET Feedback /\ \A g \in gone : Claimable(g)
    BY DEF Exhausted
  <2>2. /\ proc[p].pc \in Resting
        /\ \/ GiveUp(p, gone)
           \/ \E f \in Feedback : Claimable(f) /\ Claim(p, f, gone)
    BY <1>3 DEF ClaimNext, Resting
  <2> HIDE DEF gone
  <2> QED
    BY <1>1, <1>2, <2>1, <2>2
<1>4. ASSUME NEW f \in Feedback, ClaimById(p, f)
      PROVE  DriverStep(p)
  <2>1. /\ proc[p].pc \in Resting /\ Claimable(f)
        /\ GiveUp(p, {f}) \/ Claim(p, f, {})
    BY <1>4 DEF ClaimById, Resting
  <2>2. {f} \in SUBSET Feedback /\ {} \in SUBSET Feedback
    OBVIOUS
  <2> QED
    BY <1>1, <1>2, <2>1, <2>2
<1> QED
  BY <1>3, <1>4

LEMMA PollDrives ==
    ASSUME TypeInv, NEW p \in Procs,
           \/ Poll(p)
           \/ \E t \in Tokens : ResumeById(p, t) /\ p \in Maintainers
    PROVE  DriverStep(p)
<1>1. CASE PollEmpty(p)
  <2> DEFINE next == [proc[p] EXCEPT !.pc = "claim", !.seen = "none", !.goal = "none"]
  <2>1. proc[p] \in Process /\ proc \in [Procs -> Process]
    BY DEF TypeInv, ProcsOK
  <2>2. next.pc = "claim" /\ next.mode = proc[p].mode /\ next.unsaved = proc[p].unsaved
    BY <2>1 DEF Process
  <2>3. proc' = [proc EXCEPT ![p] = next]
    BY <1>1, <2>1 DEF PollEmpty, Goto
  <2> HIDE DEF next
  <2>4. proc'[p] = next
    BY <2>3, RecordStep
  <2> QED
    BY <1>1, <2>2, <2>4 DEF PollEmpty, DriverStep, Silent, Polls
<1>2. ASSUME NEW t \in Tokens, PollResume(p, t) \/ (ResumeById(p, t) /\ p \in Maintainers)
      PROVE  DriverStep(p)
  <2>1. /\ proc[p].pc = "idle" /\ Created(t) /\ (p \in Maintainers \/ Active(t))
        /\ UNCHANGED <<fb, run, ckpt, moved>> /\ proc' = [proc EXCEPT ![p] = Resuming(t)]
    BY <1>2 DEF PollResume, ResumeById, Active, Created, ActiveRun
  <2>2. proc'[p] = Resuming(t)
    BY <2>1, RecordStep
  <2> QED
    BY <2>1, <2>2 DEF DriverStep, Silent, SetsOut
<1> QED
  BY <1>1, <1>2 DEF Poll

LEMMA ResumeDrives ==
    ASSUME TypeInv, NEW p \in Procs, ReadRunToResume(p) \/ ReadThread(p) \/ StartGraph(p)
    PROVE  DriverStep(p)
<1>1. proc \in [Procs -> Process] /\ proc[p] \in Process /\ UNCHANGED <<fb, run, ckpt, moved>>
  BY DEF TypeInv, ProcsOK, ReadRunToResume, ReadThread, StartGraph
<1>2. CASE ReadRunToResume(p)
  <2>1. LooksUp(p)
    BY <1>1, <1>2 DEF ReadRunToResume, LooksUp, RunOf
  <2> QED
    BY <1>1, <2>1 DEF DriverStep, Silent
<1>3. CASE StartGraph(p)
  <2>1. Resumes(p)
    BY <1>1, <1>3 DEF StartGraph, Resumes
  <2> QED
    BY <1>1, <2>1 DEF DriverStep, Silent
<1>4. CASE ReadThread(p)
  <2> DEFINE known == [proc[p] EXCEPT !.seen = "none", !.err = "none"]
  <2>1. CASE \E goal \in ReopenGoals(p) :
               proc' = [proc EXCEPT ![p] = [known EXCEPT !.pc = "get", !.mode = "reopen",
                                                         !.goal = goal]]
    <3>1. Reopens(p)
      BY <1>1, <1>4, <2>1 DEF ReadThread, Reopens, Process
    <3> QED
      BY <1>1, <3>1 DEF DriverStep, Silent
  <2>2. CASE /\ proc[p].seen \in ActiveRun
             /\ proc' = [proc EXCEPT ![p] = [known EXCEPT !.pc = "start"]]
    <3>1. Enters(p)
      BY <1>1, <1>4, <2>2 DEF ReadThread, Enters
    <3> QED
      BY <1>1, <3>1 DEF DriverStep, Silent
  <2>3. CASE proc' = [proc EXCEPT ![p] = Idle]
    <3>1. Drops(p)
      BY <1>1, <2>3 DEF Drops
    <3> QED
      BY <1>1, <3>1 DEF DriverStep, Silent
  <2> QED
    BY <1>4, <2>1, <2>2, <2>3 DEF ReadThread
<1> QED
  BY <1>2, <1>3, <1>4

LEMMA CreateDrives ==
    ASSUME TypeInv, NEW p \in Procs, CreateRun(p)
    PROVE  DriverStep(p)
<1>1. proc'[p] = Executing(proc[p].tok, proc[p].fid)
  BY CreateRunRun
<1> QED
  BY <1>1 DEF CreateRun, DriverStep, StartsRun

LEMMA FaultDrives ==
    ASSUME TypeInv, PositionsInv, NEW p \in Procs, Crash(p) \/ RepoError(p) \/ LostReply(p)
    PROVE  DriverStep(p)
<1>1. CASE Crash(p)
  <2>1. proc'[p] = Idle /\ UNCHANGED <<fb, run, ckpt, moved>>
    BY <1>1, RecordStep DEF Crash
  <2> QED
    BY <2>1 DEF DriverStep, Silent, Drops
<1>2. CASE RepoError(p) \/ LostReply(p)
  <2>1. /\ proc[p].pc \notin {"idle", "save"} /\ Raise(p, "other") /\ UNCHANGED moved
        /\ {"repo", "lost"} \cap FaultKinds # {}
    BY <1>2 DEF RepoError, LostReply, Fault, BeforeGraph
  <2>2. Mishap(p, "other")
    BY <2>1 DEF Mishap
  <2>3. Fails(p) \/ Drops(p)
    BY <2>1, <2>2, RaiseBreaks
  <2>4. CASE RepoError(p)
    BY <2>3, <2>4 DEF RepoError, DriverStep, Silent
  <2>5. CASE LostReply(p)
    <3>1. "lost" \in FaultKinds
      BY <2>5 DEF LostReply, Fault
    <3>2. CASE proc[p].pc = "cas" /\ Matches(p) /\ fb' = Written(p) /\ UNCHANGED run
      BY <2>1, <2>3, <3>1, <3>2 DEF DriverStep, WritesFeedback
    <3>3. CASE /\ proc[p].pc = "patch" /\ RunOf(p).status = proc[p].seen
               /\ run' = Patched(p) /\ UNCHANGED fb
      BY <2>1, <2>3, <3>1, <3>3 DEF DriverStep, WritesRun
    <3>4. CASE /\ proc[p].pc = "create"
               /\ run' = RunCreated(proc[p].tok, proc[p].fid) /\ UNCHANGED fb
      <4>1. Drops(p)
        BY <2>3, <3>4 DEF Fails, Carries, Engaged, Aside, BeforeGraph, Fresh
      <4> QED
        BY <2>1, <3>4, <4>1 DEF DriverStep, StartsRun
    <3> QED
      BY <2>5, <3>2, <3>3, <3>4 DEF LostReply, RunOf
  <2> QED
    BY <1>2, <2>4, <2>5
<1> QED
  BY <1>1, <1>2

\* Where p is the only process, every step is of one of these forms.
LEMMA OnlyDriver ==
    ASSUME TypeInv, PositionsInv, NEW p, Procs = {p}, [Next]_vars
    PROVE  DriverStep(p)
<1>1. p \in Procs /\ (\A q \in Schedulers \cup Maintainers : q = p)
  BY DEF Procs
<1>2. CASE UNCHANGED vars \/ \E t \in Tokens : LoseArtifacts(t)
  BY <1>2 DEF vars, LoseArtifacts, DriverStep, Outside, RowWaits, RowKept
<1>3. ASSUME NEW g \in Feedback, Submit(g) \/ ExpireLease(g)
      PROVE  DriverStep(p)
  <2>1. fb \in [Feedback -> FeedbackRow] /\ UNCHANGED <<proc, run, ckpt, moved>>
    BY <1>3 DEF TypeInv, RowsOK, Submit, ExpireLease
  <2>2. ASSUME NEW f \in Feedback
        PROVE  RowWaits(f) /\ (fb[f].status = "claimed" => RowKept(f))
    BY <1>3, <2>1 DEF Submit, ExpireLease, RowWaits, RowKept, FeedbackRow
  <2> QED
    BY <2>1, <2>2 DEF DriverStep, Outside
<1>4. CASE Poll(p) \/ (Command(p) /\ p \in Maintainers)
  BY <1>1, <1>4, PollDrives, ClaimDrives DEF Command
<1>5. CASE Work(p)
  BY <1>1, <1>5, ClaimDrives, CreateDrives, ResumeDrives, NodeDrives, ReadsDrive, WriteDrives, RunDrives,
     PatchDrives, SaveDrives DEF Work
<1>6. CASE Faulty(p) \/ PutCheckpoint(p)
  BY <1>1, <1>6, SaveDrives, FaultDrives DEF Faulty
<1> QED
  BY <1>1, <1>2, <1>3, <1>4, <1>5, <1>6 DEF Next

-----------------------------------------------------------------------------
(* The first layer: what one driver works on is active *)

\* The run a process executes is active, unless the process has just ended it; the
\* run a finalizer ends is active; only maintainers reopen runs; and a process that
\* is about to resume a run knows what its row says.
Working(p) ==
    /\ Engaged(p) /\ proc[p].mode = "graph" =>
          Active(proc[p].tok) \/ (proc[p].pc = "save" /\ Following(p) = "end")
    /\ Engaged(p) /\ proc[p].mode = "final" /\ "lost" \notin FaultKinds => Active(proc[p].tok)
    /\ Engaged(p) /\ proc[p].mode = "reopen" => p \in Maintainers
    /\ proc[p].unsaved => Engaged(p) /\ proc[p].mode = "graph"
    /\ proc[p].pc \in {"resume", "load"} =>
          /\ p \in Maintainers \/ Active(proc[p].tok)
          /\ proc[p].node = "end"
    /\ proc[p].pc = "load" => proc[p].seen = RunOf(p).status /\ proc[p].err = RunOf(p).err
    /\ proc[p].pc = "start" => Active(proc[p].tok)

\* A process that resumes or reopens a run has it in its hands all along.
Keeps(p) == /\ proc'[p].tok = proc[p].tok /\ proc'[p].fid = proc[p].fid
            /\ proc'[p].node = proc[p].node /\ proc'[p].out = proc[p].out

LEMMA ApproachFields ==
    ASSUME TypeInv, NEW p \in Procs
    PROVE  /\ LooksUp(p) => /\ Keeps(p) /\ proc'[p].pc = "load"
                            /\ proc'[p].unsaved = proc[p].unsaved
                            /\ proc'[p].mode = proc[p].mode
                            /\ proc'[p].seen = RunOf(p).status /\ proc'[p].err = RunOf(p).err
           /\ Enters(p) => /\ Keeps(p) /\ proc'[p].pc = "start"
                           /\ proc'[p].unsaved = proc[p].unsaved
           /\ Reopens(p) => /\ Keeps(p) /\ proc'[p].pc = "get" /\ proc'[p].mode = "reopen"
                            /\ proc'[p].goal \in ReopenGoals(p)
                            /\ proc'[p].unsaved = proc[p].unsaved
           /\ CatchesUp(p) => /\ Keeps(p) /\ proc'[p].pc = proc[p].pc
                              /\ proc'[p].mode = proc[p].mode
                              /\ proc'[p].goal = proc[p].goal /\ proc'[p].seen = proc[p].seen
                              /\ proc'[p].err = proc[p].err /\ proc'[p].unsaved = FALSE
<1>1. proc[p] \in Process
  BY DEF TypeInv, ProcsOK
<1>2. LooksUp(p) => /\ Keeps(p) /\ proc'[p].pc = "load"
                    /\ proc'[p].unsaved = proc[p].unsaved /\ proc'[p].mode = proc[p].mode
                    /\ proc'[p].seen = RunOf(p).status /\ proc'[p].err = RunOf(p).err
  BY <1>1 DEF Process, LooksUp, Keeps
<1>3. Enters(p) => /\ Keeps(p) /\ proc'[p].pc = "start"
                   /\ proc'[p].unsaved = proc[p].unsaved
  BY <1>1 DEF Process, Enters, Keeps
<1>4. Reopens(p) => /\ Keeps(p) /\ proc'[p].pc = "get" /\ proc'[p].mode = "reopen"
                    /\ proc'[p].goal \in ReopenGoals(p)
                    /\ proc'[p].unsaved = proc[p].unsaved
  <2> SUFFICES ASSUME NEW goal \in ReopenGoals(p),
                      proc'[p] = [proc[p] EXCEPT !.seen = "none", !.err = "none", !.pc = "get",
                                                 !.mode = "reopen", !.goal = goal]
               PROVE  /\ Keeps(p) /\ proc'[p].pc = "get" /\ proc'[p].mode = "reopen"
                      /\ proc'[p].goal = goal /\ proc'[p].unsaved = proc[p].unsaved
    BY DEF Reopens
  <2> QED
    BY <1>1 DEF Process, Keeps
<1>5. CatchesUp(p) => /\ Keeps(p) /\ proc'[p].pc = proc[p].pc /\ proc'[p].mode = proc[p].mode
                      /\ proc'[p].goal = proc[p].goal /\ proc'[p].seen = proc[p].seen
                      /\ proc'[p].err = proc[p].err /\ proc'[p].unsaved = FALSE
  BY <1>1 DEF Process, CatchesUp, Keeps
<1> QED
  BY <1>2, <1>3, <1>4, <1>5

\* What it is about to write is what the node, the finalizer or the retry calls for.
FailureVerdicts == {"security_rejected", "needs_human", "failed"}

Purpose(p) ==
    /\ proc[p].mode = "graph" /\ proc[p].pc \in {"get", "cas"} =>
          \E m \in Moves(proc[p].node, proc[p].out) : proc[p].goal = m[2]
    /\ proc[p].mode = "graph" /\ proc[p].pc = "patch" =>
          proc[p].goal = RunMove(proc[p].node, proc[p].out)[2]
    /\ proc[p].mode = "final" /\ proc[p].pc \in {"get", "cas"} =>
          proc[p].goal \in FailureVerdicts
    /\ proc[p].mode = "final" /\ proc[p].pc = "patch" =>
          proc[p].goal = FailedRun(proc[p].err)
    /\ proc[p].mode = "reopen" /\ proc[p].pc = "patch" => proc[p].goal \in RetryGoals

\* A node that writes leaves the run active, or is the last one.
LEMMA EndsOrGoesOn ==
    ASSUME NEW n \in WritingNodes, NEW out \in Conclusions
    PROVE  RunMove(n, out)[2] \in ActiveRun \/ Successor(n, out) = "end"
<1>1. CASE n \in {"finish_reproduction", "finish_agent_blocked"}
  BY <1>1 DEF RunMove, complete_reproduction, Reproduced, ActiveRun, Successor,
              AfterReproduction
<1>2. CASE n \notin {"finish_reproduction", "finish_agent_blocked"}
  BY <1>2 DEF WritingNodes, FinishNodes, RunMove, mark_gating, complete_gate,
              mark_reproducing, complete_issue_publication, mark_validating,
              complete_repair_failure, complete_validation, complete_publication,
              exhaust_budget, ActiveRun, Successor, AfterGate, AfterValidation
<1> QED
  BY <1>1, <1>2

LEMMA ThinksPurposefully ==
    ASSUME TypeInv, NEW p \in Procs, Purpose(p), Thinks(p)
    PROVE  Purpose(p)'
<1>1. ProcOK(proc[p])
  BY Started
<1>2. CASE LooksForPull(p) \/ AimsAtRow(p) \/ FindsWritten(p)
  BY <1>2 DEF LooksForPull, AimsAtRow, FindsWritten, Turns, Holding, Carries, Purpose
<1>3. CASE AimsAtVerdict(p) \/ FindsVerdict(p)
  BY <1>3 DEF AimsAtVerdict, FindsVerdict, Turns, Holding, Carries, Purpose, FailureVerdict,
              FailureVerdicts
<1>4. CASE Checks(p)
  BY <1>4 DEF Checks, Turns, Holding, Carries, Purpose
<1>5. CASE ChecksReopen(p) \/ FindsReopened(p)
  BY <1>5 DEF ChecksReopen, FindsReopened, Turns, Holding, Purpose
<1>6. CASE SeesRun(p) \/ AimsAtRun(p)
  BY <1>6 DEF SeesRun, AimsAtRun, Turns, Holding, Carries, Purpose
<1>7. CASE AimsAtEnd(p)
  BY <1>7 DEF AimsAtEnd, Turns, Holding, Purpose
<1>8. CASE AimsAtRevival(p)
  BY <1>1, <1>8 DEF AimsAtRevival, Turns, Holding, Purpose, ProcOK, RetryGoals
<1> QED
  BY <1>2, <1>3, <1>4, <1>5, <1>6, <1>7, <1>8 DEF Thinks

LEMMA PurposeStep ==
    ASSUME TypeInv, WorksOnRun, NEW p \in Procs, Purpose(p), DriverStep(p)
    PROVE  Purpose(p)'
<1>1. ASSUME proc'[p].pc \notin {"get", "cas", "patch"}
      PROVE  Purpose(p)'
  BY <1>1 DEF Purpose
<1>2. ASSUME NEW t, NEW f,
             \/ proc'[p] = Executing(t, f) \/ proc'[p] = Reopened(t, f)
             \/ proc'[p] = Resuming(t)
      PROVE  Purpose(p)'
  <2>1. proc'[p].pc \in {"node", "start", "resume"}
    BY <1>2 DEF Executing, Reopened, Resuming, Idle
  <2> QED
    BY <1>1, <2>1
<1>3. ASSUME Drops(p)
      PROVE  Purpose(p)'
  <2>1. proc'[p].pc = "idle"
    BY <1>3 DEF Drops, Idle
  <2> QED
    BY <1>1, <2>1
<1>4. ASSUME Fails(p)
      PROVE  Purpose(p)'
  BY <1>1, <1>4 DEF Fails
<1>5. CASE Outside
  BY <1>5 DEF Outside, Purpose
<1>6. CASE Silent(p)
  <2>1. CASE Thinks(p)
    BY <2>1, ThinksPurposefully
  <2>2. CASE SavesEnd(p) \/ TurnsToNext(p) \/ Polls(p)
    BY <1>1, <2>2 DEF SavesEnd, TurnsToNext, Polls, Idle
  <2>3. CASE SetsOut(p) \/ Resumes(p) \/ FindsRevived(p)
    BY <1>2, <2>3 DEF SetsOut, Resumes, FindsRevived
  <2>4. CASE LooksUp(p) \/ Enters(p)
    BY <1>1, <2>4, ApproachFields
  <2>5. CASE Reopens(p)
    BY <2>5, ApproachFields DEF Purpose
  <2>6. CASE CatchesUp(p)
    BY <2>6, ApproachFields DEF Keeps, Purpose
  <2> QED
    BY <1>3, <1>4, <1>6, <2>1, <2>2, <2>3, <2>4, <2>5, <2>6 DEF Silent
<1>7. CASE Concluding(p)
  BY <1>1, <1>7 DEF Concluding, Decides
<1>8. CASE WritesFeedback(p)
  <2>1. CASE AimsAgain(p)
    BY <2>1 DEF AimsAgain, Turns, Holding, Carries, Purpose
  <2>2. CASE HasMoved(p)
    BY <1>1, <2>2 DEF HasMoved, Turns
  <2> QED
    BY <1>3, <1>4, <1>8, <2>1, <2>2 DEF WritesFeedback
<1>9. CASE WritesRun(p)
  BY <1>1, <1>2, <1>3, <1>4, <1>9 DEF WritesRun, Turns
<1>10. CASE Queues(p)
  BY <1>1, <1>10 DEF Queues, Idle
<1>11. CASE StartsRun(p)
  BY <1>2, <1>3, <1>11 DEF StartsRun
<1> QED
  BY <1>5, <1>6, <1>7, <1>8, <1>9, <1>10, <1>11 DEF DriverStep

LEMMA WorkingStep ==
    ASSUME TypeInv, TokensInv, NEW p \in Procs, Working(p), Purpose(p), DriverStep(p)
    PROVE  Working(p)'
<1>1. /\ ProcOK(proc[p]) /\ run \in [Tokens -> RunRow] /\ proc[p] \in Process
      /\ proc[p].pc \notin Resting => proc[p].tok \in Tokens /\ proc[p].fid \in Feedback
  BY Started DEF TypeInv, RunsOK, Resting
<1>2. ASSUME Drops(p)
      PROVE  Working(p)'
  BY <1>2 DEF Drops, Idle, Working, Engaged, Aside
<1>3. ASSUME Fails(p), run'[proc[p].tok] = run[proc[p].tok] \/ "lost" \in FaultKinds
      PROVE  Working(p)'
  BY <1>3 DEF Fails, Carries, Working, Active
<1>4. ASSUME NEW t \in Tokens, NEW f \in Feedback, proc'[p] = Executing(t, f),
             run'[t].status \in ActiveRun
      PROVE  Working(p)'
  <2>1. /\ proc'[p].tok = t /\ proc'[p].mode = "graph" /\ proc'[p].pc = "node"
        /\ proc'[p].unsaved = FALSE
    <3>1. Executing(t, f).unsaved = FALSE
      BY DEF Executing, Idle
    <3> QED
      BY <1>4, <3>1, ExecutingFields
  <2> QED
    BY <1>4, <2>1 DEF Working, Active
<1>5. ASSUME Holding(p), UNCHANGED run, proc[p].pc # "save", proc'[p].pc \notin Aside
      PROVE  Working(p)'
  BY <1>5 DEF Holding, Carries, Working, Active, Engaged, Aside, BeforeGraph
<1>a. ASSUME NEW t \in Tokens, NEW f \in Feedback, proc'[p] = Reopened(t, f),
             run'[t].status \in ActiveRun
      PROVE  Working(p)'
  BY <1>a DEF Reopened, Idle, Working, Active, Engaged, Aside, BeforeGraph
<1>b. proc[p].pc \in Aside => proc[p].unsaved = FALSE
  BY <1>1 DEF Working, Engaged, Process
<1>6. CASE Outside
  BY <1>6 DEF Outside, Working, Engaged, Active, Following, RunOf
<1>7. CASE Silent(p)
  <2>1. CASE Thinks(p)
    <3>1. Holding(p) /\ proc[p].pc # "save" /\ proc'[p].pc \notin Aside
      BY <2>1 DEF Thinks, LooksForPull, AimsAtRow, FindsWritten, AimsAtVerdict, FindsVerdict,
                  Checks, ChecksReopen, FindsReopened, SeesRun, AimsAtRun, AimsAtEnd,
                  AimsAtRevival, Turns, Aside, BeforeGraph
    <3> QED
      BY <1>5, <1>7, <3>1 DEF Silent
  <2>2. CASE SavesEnd(p)
    BY <2>2 DEF SavesEnd, Idle, Working, Engaged, Aside
  <2>3. CASE TurnsToNext(p)
    BY <1>1, <1>7, <2>3 DEF Silent, TurnsToNext, Working, Engaged, Aside, BeforeGraph, Active,
                            ProcOK
  <2>4. CASE Polls(p)
    BY <1>b, <2>4 DEF Polls, Working, Engaged, Aside, BeforeGraph
  <2>5. CASE Resumes(p)
    <3>1. proc[p].tok \in Tokens /\ proc[p].fid \in Feedback /\ Active(proc[p].tok)
      BY <1>1, <2>5 DEF Resumes, Working, Resting
    <3>2. run'[proc[p].tok].status \in ActiveRun
      BY <1>7, <3>1 DEF Silent, Active
    <3> QED
      BY <1>4, <2>5, <3>1, <3>2 DEF Resumes
  <2>6. CASE Reopens(p)
    <3>1. p \in Maintainers
      <4>1. proc[p].seen \notin ActiveRun
        BY <2>6 DEF Reopens, ReopenGoals, FailedPublication, SpentBudget, ActiveRun
      <4> QED
        BY <2>6, <4>1 DEF Reopens, Working, Active, RunOf
    <3> QED
      BY <1>b, <2>6, <3>1, ApproachFields DEF Working, Reopens, Aside, BeforeGraph
  <2>7. CASE FindsRevived(p)
    <3>1. proc[p].goal \in RetryGoals /\ proc[p].pc \notin Resting
      BY <1>1, <2>7 DEF FindsRevived, ProcOK, Resting
    <3>2. run'[proc[p].tok].status \in ActiveRun
      BY <1>7, <2>7, <3>1 DEF Silent, FindsRevived, RunOf, Active, ActiveRun, RetryGoals
    <3> QED
      BY <1>1, <1>a, <2>7, <3>1, <3>2 DEF FindsRevived
  <2>8. CASE SetsOut(p)
    <3>1. PICK t \in Tokens : /\ p \in Maintainers \/ Active(t)
                              /\ proc'[p] = Resuming(t)
      BY <2>8 DEF SetsOut
    <3> QED
      BY <1>7, <3>1 DEF Silent, Resuming, Idle, Working, Active, Engaged, Aside, BeforeGraph
  <2>9. CASE LooksUp(p)
    BY <1>7, <1>b, <2>9, ApproachFields
       DEF LooksUp, Silent, Keeps, Working, Active, Engaged, Aside, BeforeGraph, RunOf
  <2>10. CASE Enters(p)
    BY <1>7, <1>b, <2>10, ApproachFields
       DEF Enters, Silent, Keeps, Working, Active, Engaged, Aside, BeforeGraph, RunOf
  <2>11. CASE CatchesUp(p)
    BY <1>7, <2>11, ApproachFields
       DEF CatchesUp, Silent, Keeps, Working, Active, Engaged, Aside, BeforeGraph
  <2> QED
    BY <1>2, <1>3, <1>7, <2>1, <2>2, <2>3, <2>4, <2>5, <2>6, <2>7, <2>8, <2>9, <2>10, <2>11
       DEF Silent
<1>8. CASE Concluding(p)
  BY <1>8 DEF Concluding, Decides, Carries, Working, Active, Engaged, Aside, BeforeGraph
<1>9. CASE WritesFeedback(p)
  BY <1>2, <1>3, <1>5, <1>9
     DEF WritesFeedback, AimsAgain, HasMoved, Turns, Aside, BeforeGraph
<1>10. CASE WritesRun(p)
  <2>1. /\ proc[p].pc \notin Resting /\ PatchedRow(p).status = proc[p].goal
        /\ run'[proc[p].tok] = PatchedRow(p)
    BY <1>1, <1>10, Started DEF WritesRun, Resting, Patched, PatchedRow, RunRow
  <2>2. CASE Turns(p, "patch", "save") /\ proc[p].mode = "graph"
    <3>1. /\ proc[p].node \in WritingNodes /\ proc[p].out \in Conclusions
          /\ proc[p].goal = RunMove(proc[p].node, proc[p].out)[2]
      BY <1>1, <2>2 DEF Turns, ProcOK, WritingNodes, Purpose, Process
    <3>2. run'[proc[p].tok].status \in ActiveRun \/ Following(p) = "end"
      BY <2>1, <3>1, EndsOrGoesOn DEF Active, Following
    <3> QED
      BY <2>2, <3>2 DEF Turns, Holding, Carries, Working, Active, Following, Engaged, Aside,
                        BeforeGraph
  <2>3. CASE proc[p].mode = "reopen" /\ proc'[p] = Reopened(proc[p].tok, proc[p].fid)
    <3>1. run'[proc[p].tok].status \in ActiveRun
      BY <1>10, <2>1, <2>3 DEF WritesRun, Purpose, Active, RetryGoals, ActiveRun
    <3> QED
      BY <1>1, <1>a, <2>1, <2>3, <3>1
  <2> QED
    BY <1>2, <1>3, <1>10, <2>2, <2>3 DEF WritesRun
<1>11. CASE Queues(p)
  BY <1>11 DEF Queues, Working, Engaged, Aside, BeforeGraph, Fresh, Idle
<1>12. CASE StartsRun(p)
  <2>1. proc[p].pc \notin Resting
    BY <1>12 DEF StartsRun, Resting
  <2>2. run'[proc[p].tok].status \in ActiveRun
    BY <1>1, <1>12, <2>1 DEF StartsRun, RunCreated, Active, ActiveRun
  <2> QED
    BY <1>1, <1>2, <1>4, <1>12, <2>1, <2>2 DEF StartsRun
<1> QED
  BY <1>6, <1>7, <1>8, <1>9, <1>10, <1>11, <1>12 DEF DriverStep

\* Whether one scheduler drives the runs or one maintainer, whatever fails except
\* that the reply to a write is lost: a run that has ended is not written again, but
\* by a maintainer who reopens it (TERMINAL_RUN_STATUSES, find_resumable, resume).
THEOREM EndedRunsStay ==
    ASSUME NEW d, Procs = {d}, "lost" \notin FaultKinds
    PROVE  Spec => TerminalRunsStay
<1> DEFINE Inv == RunInv /\ Working(d) /\ Purpose(d)
           Stays == \A t \in Tokens :
               run[t].status \in TerminalRun /\ run'[t].status # run[t].status =>
                   \E p \in Procs : proc[p].mode = "reopen" /\ proc[p].tok = t
<1>0. d \in Procs
  OBVIOUS
<1>1. Init => Inv
  <2>1. Init => RunInv
    BY TypeInit, OwnershipInit DEF RunInv
  <2>2. Init => Working(d) /\ Purpose(d)
    BY <1>0 DEF Init, Working, Purpose, Engaged, Aside, BeforeGraph, Fresh, Idle
  <2> QED
    BY <2>1, <2>2
<1>2. Inv /\ [Next]_vars => Inv'
  <2> SUFFICES ASSUME Inv, [Next]_vars PROVE Inv'
    OBVIOUS
  <2>1. DriverStep(d)
    BY OnlyDriver DEF RunInv, OwnershipInv
  <2>2. RunInv'
    BY RunInvStep
  <2>3. Working(d)' /\ Purpose(d)'
    BY <1>0, <2>1, WorkingStep, PurposeStep DEF RunInv, OwnershipInv
  <2> QED
    BY <2>2, <2>3
<1>3. Inv /\ [Next]_vars => Stays
  <2> SUFFICES ASSUME Inv, [Next]_vars, NEW t \in Tokens,
                      run[t].status \in TerminalRun, run'[t].status # run[t].status
               PROVE  \E p \in Procs : proc[p].mode = "reopen" /\ proc[p].tok = t
    OBVIOUS
  <2>1. RunSteps(t)
    BY RunsAndPlacesStep DEF RunInv
  <2>2. \/ CreatesRun(d, t) \/ PatchesRun(d, t)
    BY <2>1 DEF RunSteps, RunSame
  <2>3. ~CreatesRun(d, t)
    BY <1>0 DEF CreatesRun, RunInv, OwnershipInv, TokensInv, Created, TerminalRun
  <2>4. proc[d].pc = "patch" /\ proc[d].tok = t /\ Engaged(d)
    BY <2>2, <2>3 DEF PatchesRun, Engaged, Aside, BeforeGraph, Fresh
  <2>5. ~Active(t) /\ proc[d].mode \in {"graph", "final", "reopen"}
    BY <1>0, Started DEF Active, ActiveRun, TerminalRun, RunInv, Process
  <2> QED
    BY <2>4, <2>5 DEF Working
<1>4. TerminalRunsStay <=> [][Stays]_vars
  BY DEF TerminalRunsStay
<1> QED
  BY <1>1, <1>2, <1>3, <1>4, PTL DEF Spec

-----------------------------------------------------------------------------
(* One scheduler: duplicates *)

\* Another report of the problem is, or was, handled.
Warranted(f) == \E g \in Feedback \ {f} : /\ Fingerprint[g] = Fingerprint[f]
                                          /\ fb[g].status \notin {"absent", "duplicate"}

\* Between the gate's conclusion and the write to the row, the conclusion may lie in a
\* checkpoint for as long as a crash lasts.
DuplicateInv(p) ==
    /\ \A f \in Feedback, t \in Tokens :
          Active(t) /\ run[t].fid = f /\ ckpt[t].out = "duplicate" => Warranted(f)
    /\ \A t \in Tokens : ~Created(t) => ckpt[t].out # "duplicate"
    /\ \A f \in Feedback :
          Engaged(p) /\ proc[p].fid = f /\ proc[p].out = "duplicate" => Warranted(f)
    /\ NotAllDuplicates

LEMMA DuplicateMoves ==
    ASSUME NEW n, NEW out, NEW m \in Moves(n, out), m[2] = "duplicate"
    PROVE  out = "duplicate"
BY DEF Moves, StartGateMoves, RouteFeedbackMoves, FinishIssuePublicationMoves,
       FinishReproductionMoves, FinishAgentBlockedMoves, FinishRepairSuccessMoves,
       FinishRepairFailureMoves, FinishValidationMoves, FinishBudgetExhaustedMoves,
       FinishPublicationMoves

\* A process that is to write a duplicate has concluded so.
LEMMA DuplicateGoal ==
    ASSUME TypeInv, NEW p \in Procs, Purpose(p)
    PROVE  proc[p].pc \in {"get", "cas"} /\ proc[p].goal = "duplicate" =>
              proc[p].out = "duplicate"
<1>1. ProcOK(proc[p]) /\ proc[p].mode \in {"graph", "final", "reopen"}
  BY Started DEF Process
<1>2. "duplicate" \notin FailureVerdicts /\ "duplicate" \notin RetryGoals
  BY DEF FailureVerdicts, RetryGoals
<1> QED
  BY <1>1, <1>2, DuplicateMoves DEF Purpose, ProcOK

\* A row is only made a duplicate by a process that has concluded so.
LEMMA RowsStayOpen ==
    ASSUME TypeInv, NEW p, Procs = {p}, [Next]_vars, NEW f \in Feedback
    PROVE  /\ fb'[f].status = "absent" => fb[f].status = "absent"
           /\ fb'[f].status = "duplicate" =>
                 \/ fb[f].status = "duplicate"
                 \/ proc[p].pc = "cas" /\ proc[p].goal = "duplicate" /\ proc[p].fid = f
<1>1. RowSteps(f)
  BY RowsStep
<1>2. CASE RowSame(f) \/ RowQueued(f)
  BY <1>2 DEF RowSame, RowQueued
<1>3. CASE WritesRow(p, f)
  <2>1. proc[p].goal \in FeedbackStatus
    BY <1>3, Started DEF WritesRow, ProcOK
  <2> QED
    BY <1>3, <2>1 DEF WritesRow, RowRequeued, FeedbackStatus
<1> QED
  BY <1>1, <1>2, <1>3 DEF RowSteps

\* What is warranted stays so, whatever is written: a new duplicate has a witness, and
\* whoever it was the witness of can take that one.
LEMMA WarrantsStay ==
    ASSUME TypeInv, NEW p, Procs = {p}, Purpose(p), DuplicateInv(p), [Next]_vars,
           NEW f \in Feedback,
           \/ fb[f].status = "duplicate"
           \/ Warranted(f) /\ (proc[p].pc = "cas" => proc[p].fid = f)
    PROVE  Warranted(f)'
<1>1. PICK g \in Feedback \ {f} : /\ Fingerprint[g] = Fingerprint[f]
                                  /\ fb[g].status \notin {"absent", "duplicate"}
  BY DEF Warranted, DuplicateInv, NotAllDuplicates
<1>2. CASE fb'[g].status \notin {"absent", "duplicate"}
  BY <1>1, <1>2 DEF Warranted
<1>3. CASE fb'[g].status \in {"absent", "duplicate"}
  <2>1. /\ proc[p].pc = "cas" /\ proc[p].goal = "duplicate" /\ proc[p].fid = g
    BY <1>1, <1>3, RowsStayOpen
  <2>2. Warranted(g) /\ fb[f].status = "duplicate"
    BY <1>1, <2>1, DuplicateGoal DEF DuplicateInv, Engaged, Aside, BeforeGraph, Fresh
  <2>3. PICK h \in Feedback \ {g} : /\ Fingerprint[h] = Fingerprint[g]
                                    /\ fb[h].status \notin {"absent", "duplicate"}
    BY <2>2 DEF Warranted
  <2>4. h # f /\ fb'[h].status \notin {"absent", "duplicate"}
    BY <2>1, <2>2, <2>3, RowsStayOpen
  <2> QED
    BY <1>1, <2>3, <2>4 DEF Warranted
<1> QED
  BY <1>2, <1>3

LEMMA NoDuplicatesStep ==
    ASSUME TypeInv, NEW p, Procs = {p}, Purpose(p), DuplicateInv(p), [Next]_vars
    PROVE  NotAllDuplicates'
<1> SUFFICES ASSUME NEW f \in Feedback, fb'[f].status = "duplicate"
             PROVE  Warranted(f)'
  BY DEF NotAllDuplicates, Warranted
<1>1. \/ fb[f].status = "duplicate"
      \/ proc[p].pc = "cas" /\ proc[p].goal = "duplicate" /\ proc[p].fid = f
  BY RowsStayOpen
<1>2. fb[f].status = "duplicate" \/ (Warranted(f) /\ proc[p].fid = f)
  BY <1>1, DuplicateGoal DEF DuplicateInv, Engaged, Aside, BeforeGraph, Fresh
<1> QED
  BY <1>2, WarrantsStay

\* What the process concludes, or carries on, is warranted.
LEMMA DuplicateProcess ==
    ASSUME TypeInv, TokensInv, NEW p, Procs = {p}, Maintainers = {}, Working(p),
           Purpose(p), DuplicateInv(p), [Next]_vars, DriverStep(p), NEW f \in Feedback,
           Engaged(p)', proc'[p].fid = f, proc'[p].out = "duplicate"
    PROVE  Warranted(f)'
<1>p. p \in Procs
  OBVIOUS
<1>w. Working(p)'
  BY <1>p, WorkingStep
<1>1. ASSUME Warranted(f), proc[p].pc = "cas" => proc[p].fid = f
      PROVE  Warranted(f)'
  BY <1>1, WarrantsStay
<1>2. ASSUME Engaged(p), proc[p].fid = f, proc[p].out = "duplicate"
      PROVE  Warranted(f)'
  BY <1>1, <1>2 DEF DuplicateInv
<1>3. ASSUME Drops(p)
      PROVE  FALSE
  BY <1>3 DEF Drops, Idle, Engaged, Aside, BeforeGraph, Fresh
<1>4. ASSUME Carries(p), proc'[p].out = proc[p].out
      PROVE  Warranted(f)'
  BY <1>2, <1>4 DEF Carries
<1>5. ASSUME Fails(p)
      PROVE  Warranted(f)'
  BY <1>4, <1>5 DEF Fails
<1>6. CASE Outside
  BY <1>2, <1>6 DEF Outside, Engaged
<1>7. CASE Silent(p)
  <2>1. CASE Thinks(p)
    <3>1. Holding(p)
      BY <2>1 DEF Thinks, AimsAtRow, FindsWritten, AimsAtVerdict, FindsVerdict, Checks,
                  ChecksReopen, FindsReopened, SeesRun, AimsAtRun, AimsAtEnd, AimsAtRevival,
                  LooksForPull, Turns
    <3> QED
      BY <1>4, <3>1 DEF Holding
  <2>2. CASE SavesEnd(p) \/ TurnsToNext(p) \/ CatchesUp(p)
    <3>1. Engaged(p)
      BY <2>2 DEF SavesEnd, TurnsToNext, CatchesUp, Working, Engaged, Aside, BeforeGraph
    <3>2. proc'[p] = Idle \/ (proc'[p].fid = proc[p].fid /\ proc'[p].out = proc[p].out)
      BY <2>2, ApproachFields DEF SavesEnd, TurnsToNext, Keeps
    <3> QED
      BY <1>2, <3>1, <3>2 DEF Idle, Engaged, Aside
  <2>3. CASE Polls(p) \/ SetsOut(p) \/ LooksUp(p) \/ Enters(p) \/ FindsRevived(p)
    <3>1. proc'[p].pc \in Aside
      BY <2>3, ApproachFields
         DEF Polls, SetsOut, FindsRevived, Reopened, Resuming, Idle, Aside, BeforeGraph
    <3> QED
      BY <3>1 DEF Engaged
  <2>4. CASE Resumes(p)
    <3>1. /\ proc[p].tok \in Tokens /\ proc[p].fid \in Feedback /\ Active(proc[p].tok)
          /\ run[proc[p].tok].fid = proc[p].fid
      BY <1>p, <2>4, Started DEF Resumes, Working, TokensInv, Fresh
    <3>2. proc[p].fid = f /\ ckpt[proc[p].tok].out = "duplicate"
      BY <1>p, <2>4, <3>1, ExecutingFields DEF Resumes
    <3> QED
      BY <1>1, <3>1, <3>2 DEF DuplicateInv
  <2>5. CASE Reopens(p)
    BY <1>w, <2>5, ApproachFields DEF Working, Engaged, Aside, BeforeGraph
  <2> QED
    BY <1>3, <1>5, <1>7, <2>1, <2>2, <2>3, <2>4, <2>5 DEF Silent
<1>8. CASE Concluding(p)
  <2>1. proc[p].pc \in {"node", "post"} /\ proc[p].fid = f /\ Carries(p)
    BY <1>8 DEF Concluding, Decides, Carries
  <2>2. \/ Duplicates(f) # {}
        \/ proc'[p].out = proc[p].out
    BY <1>8, <2>1, RunAssumption
       DEF Concluding, Decides, RunAssumption, Routes, RepairOutcomes, Validations,
           Dispositions
  <2>3. Duplicates(f) # {} => Warranted(f)
    BY DEF Duplicates, Warranted, OpenStatus
  <2> QED
    BY <1>1, <1>4, <2>1, <2>2, <2>3
<1>9. CASE WritesFeedback(p)
  BY <1>3, <1>4, <1>5, <1>9 DEF WritesFeedback, AimsAgain, HasMoved, Turns, Holding
<1>10. CASE WritesRun(p)
  <2>1. proc[p].mode # "reopen"
    BY <1>10 DEF WritesRun, Working, Engaged, Aside, BeforeGraph, Fresh
  <2> QED
    BY <1>3, <1>4, <1>5, <1>10, <2>1 DEF WritesRun, Turns, Holding
<1>11. CASE Queues(p)
  BY <1>11 DEF Queues, Idle, Engaged, Aside, BeforeGraph, Fresh
<1>12. CASE StartsRun(p)
  <2>1. /\ proc[p].tok \in Tokens /\ proc[p].fid \in Feedback /\ ~Created(proc[p].tok)
    BY <1>p, <1>12, Started DEF StartsRun, TokensInv
  <2>2. proc'[p].out = ckpt[proc[p].tok].out
    BY <1>p, <1>3, <1>12, <2>1, ExecutingFields DEF StartsRun
  <2> QED
    BY <2>1, <2>2 DEF DuplicateInv
<1> QED
  BY <1>6, <1>7, <1>8, <1>9, <1>10, <1>11, <1>12 DEF DriverStep

\* ... and so is what a checkpoint carries on: the only run there is to resume is the one
\* the process works on.
LEMMA DuplicateThreads ==
    ASSUME TypeInv, WorksOnRun, OwnershipInv, SingleInv, NEW p, Procs = {p},
           Maintainers = {}, Working(p), Purpose(p), DuplicateInv(p), [Next]_vars,
           NEW t \in Tokens
    PROVE  /\ ~Created(t)' => ckpt'[t].out # "duplicate"
           /\ \A f \in Feedback :
                 run'[t].status \in ActiveRun /\ run'[t].fid = f /\ ckpt'[t].out = "duplicate"
                    => Warranted(f)'
<1>p. p \in Procs
  OBVIOUS
<1>t. TokensInv /\ PositionsInv /\ ckpt \in [Tokens -> Checkpoint]
  BY DEF OwnershipInv, TypeInv, CkptsOK
<1>1. \/ ckpt'[t].out = ckpt[t].out
      \/ t = proc[p].tok /\ Engaged(p) /\ ckpt'[t].out = proc[p].out
  <2>1. UNCHANGED ckpt \/ SavesAt(p)
    BY StepCourse
  <2>2. (proc[p].unsaved => Engaged(p)) /\ (proc[p].pc = "save" => Engaged(p))
    BY DEF Working, Engaged, Aside, BeforeGraph
  <2>3. PointsTo(proc[p].node, proc[p].out).out = proc[p].out
        /\ PointsTo(Following(p), proc[p].out).out = proc[p].out
    BY DEF PointsTo
  <2> QED
    BY <1>t, <2>1, <2>2, <2>3 DEF SavesAt, Engaged, Aside, BeforeGraph, Fresh
<1>2. Engaged(p) => /\ Created(proc[p].tok) /\ run[proc[p].tok].fid = proc[p].fid
  BY <1>p, <1>t, WorksOnCreated DEF Engaged, Aside, BeforeGraph, Fresh
<1>3. ~Created(t)' => ckpt'[t].out # "duplicate"
  <2>1. ~Created(t)' => ~Created(t)
    BY <1>t, CreatedStays
  <2> QED
    BY <1>1, <1>2, <2>1 DEF DuplicateInv
<1>4. ASSUME NEW f \in Feedback, run'[t].status \in ActiveRun, run'[t].fid = f,
             ckpt'[t].out = "duplicate"
      PROVE  Warranted(f)'
  <2>1. Active(t) /\ run[t].fid = f
    <3>1. RunSteps(t)
      BY RunsAndPlacesStep
    <3>2. CASE RunSame(t)
      BY <1>4, <3>2 DEF RunSame, Active
    <3>3. CASE CreatesRun(p, t)
      <4>1. ~Created(t) /\ ~Engaged(p)
        BY <1>p, <1>t, <3>3 DEF CreatesRun, TokensInv, Engaged, Aside, BeforeGraph, Fresh
      <4> QED
        BY <1>1, <1>4, <4>1 DEF DuplicateInv
    <3>4. CASE PatchesRun(p, t)
      <4>1. Engaged(p) /\ proc[p].mode \in {"graph", "final", "reopen"}
        BY <1>p, <3>4, Started DEF PatchesRun, Engaged, Aside, BeforeGraph, Fresh, Process
      <4>2. proc[p].mode # "reopen" /\ proc[p].pc = "patch"
        BY <3>4, <4>1 DEF Working, PatchesRun
      <4>3. proc[p].mode # "final"
        BY <1>4, <3>4, <4>2 DEF Purpose, PatchesRun, FailedRun, ActiveRun
      <4> QED
        BY <1>4, <3>4, <4>1, <4>2, <4>3 DEF PatchesRun, Working
    <3> QED
      BY <3>1, <3>2, <3>3, <3>4 DEF RunSteps
  <2>2. Engaged(p) => t = proc[p].tok /\ proc[p].fid = f
    BY <1>p, <1>2, <2>1 DEF SingleInv, Engaged, Aside, BeforeGraph, Fresh
  <2>3. Warranted(f)
    BY <1>1, <1>4, <2>1, <2>2 DEF DuplicateInv
  <2>4. proc[p].pc = "cas" => proc[p].fid = f
    BY <2>2 DEF Engaged, Aside, BeforeGraph, Fresh
  <2> QED
    BY <2>3, <2>4, WarrantsStay
<1> QED
  BY <1>3, <1>4

\* Where one scheduler is all there is, whatever fails, next to every duplicate there
\* is another report of the problem that was, or is being, handled: the gate reads the
\* other reports some requests before it writes, and only the run it is in can write
\* in between (classify_gate, FeedbackScheduler.run_once).
THEOREM DuplicatesHaveOriginal ==
    ASSUME NEW s, Schedulers = {s}, Maintainers = {}
    PROVE  Spec => []NotAllDuplicates
<1> DEFINE Inv == RunInv /\ SingleInv /\ Working(s) /\ Purpose(s) /\ DuplicateInv(s)
<1>0. s \in Procs /\ Procs = {s}
  BY DEF Procs
<1>1. Init => Inv
  <2>1. Init => RunInv
    BY TypeInit, OwnershipInit DEF RunInv
  <2>2. Init => SingleInv /\ DuplicateInv(s)
    BY <1>0 DEF Init, SingleInv, DuplicateInv, NotAllDuplicates, Engaged, Aside, Fresh, Idle,
                Active, ActiveRun
  <2>3. Init => Working(s) /\ Purpose(s)
    BY <1>0 DEF Init, Working, Purpose, Engaged, Aside, Idle
  <2> QED
    BY <2>1, <2>2, <2>3
<1>2. Inv /\ [Next]_vars => Inv'
  <2> SUFFICES ASSUME Inv, [Next]_vars PROVE Inv'
    OBVIOUS
  <2>1. DriverStep(s) /\ TypeInv /\ WorksOnRun /\ OwnershipInv /\ TokensInv
    BY <1>0, OnlyDriver DEF RunInv, OwnershipInv
  <2>2. RunInv'
    BY RunInvStep
  <2>3. Working(s)' /\ Purpose(s)'
    BY <1>0, <2>1, WorkingStep, PurposeStep
  <2>4. SingleInv'
    BY <2>1, <2>2, SingleStep DEF RunInv
  <2>5. DuplicateInv(s)'
    <3>1. \A f \in Feedback, t \in Tokens :
             (Active(t) /\ run[t].fid = f /\ ckpt[t].out = "duplicate" => Warranted(f))'
      BY <1>0, <2>1, DuplicateThreads DEF Active
    <3>2. \A t \in Tokens : (~Created(t) => ckpt[t].out # "duplicate")'
      BY <1>0, <2>1, DuplicateThreads
    <3>3. \A f \in Feedback :
             (Engaged(s) /\ proc[s].fid = f /\ proc[s].out = "duplicate" => Warranted(f))'
      BY <1>0, <2>1, DuplicateProcess
    <3>4. NotAllDuplicates'
      BY <1>0, <2>1, NoDuplicatesStep
    <3> QED
      BY <3>1, <3>2, <3>3, <3>4 DEF DuplicateInv
  <2> QED
    BY <2>2, <2>3, <2>4, <2>5
<1>3. Inv => NotAllDuplicates
  BY DEF DuplicateInv
<1> QED
  BY <1>1, <1>2, <1>3, PTL DEF Spec

-----------------------------------------------------------------------------
(* The second layer: how far the two tables and the checkpoint may be apart *)

\* The statuses a run that came to node n may still have, while it is active.
Reached(n) ==
    CASE n \in {"start_gate", "end"} -> ActiveRun
      [] n \in {"classify_gate", "route_feedback"} -> ActiveRun \ {"created"}
      [] n = "prepare_source" ->
            {"preparing_source", "reproducing", "repairing", "validating", "publishing"}
      [] n \in ReproducingNodes ->
            {"reproducing", "repairing", "validating", "publishing"}
      [] n \in RepairingNodes -> {"repairing", "validating", "publishing"}
      [] n \in {"validate_final", "finish_validation", "finish_budget_exhausted"} ->
            {"validating", "publishing"}
      [] n \in {"publish_pull_request", "finish_publication"} -> {"publishing"}
      [] OTHER -> {"publishing_issue"}

\* The statuses a row may have while its run has status s: StagesAgree, by name.
Stage(s) == Verdicts \cup
    CASE s = "created"          -> {"claimed", "gating"}
      [] s = "gating"           -> {"gating", "reproducing", "publishing_issue"}
      [] s = "preparing_source" -> {"reproducing"}
      [] s = "reproducing"      -> {"reproducing", "repairing"}
      [] s = "repairing"        -> {"repairing", "validating"}
      [] s = "validating"       -> {"validating", "validated", "publishing"}
      [] s = "publishing"       -> {"publishing", "stale_base"}
      [] s = "publishing_issue" -> {"publishing_issue"}

\* Where a run can be whose publication failed.
PullNodes  == {"publish_pull_request", "finish_publication", "end"}
IssueNodes == {"publish_issue", "finish_issue_publication", "end"}

\* A run with status s, whose row has error e, can be at node n.
FitsAt(s, e, n) ==
    /\ s \in ActiveRun => s \in Reached(n)
    /\ e = "publication" => n \in PullNodes
    /\ e = "issue_publication" => n \in IssueNodes

RowErr(t) == IF Owns(t) THEN fb[run[t].fid].err ELSE "none"

Fits(t, n) == FitsAt(run[t].status, RowErr(t), n)

\* What a run may be reopened for.
PublicationFailed(t) == FailedPublication(run[t].status, run[t].err)
BudgetResumable(t)   == SpentBudget(run[t].status, run[t].err) /\ InRepair(t)

\* A thread: its node fits, and a run whose publication failed waits at it.
Threaded(t) ==
    /\ Fits(t, ckpt[t].node)
    /\ ~Created(t) => ckpt[t].node = "start_gate"
    /\ run[t].status = "failed" /\ run[t].err = "publication" =>
          ckpt[t].node = "publish_pull_request"
    /\ run[t].status = "failed" /\ run[t].err = "issue_publication" =>
          ckpt[t].node = "publish_issue"

\* A row that waits has no owner, and one that was just claimed has no old error.
Waiting(f) ==
    /\ fb[f].status \in {"absent", "pending"} => fb[f].token = NoToken
    /\ fb[f].token \in Tokens /\ ~Created(fb[f].token) => fb[f].err \notin PublicationErrors

\* The node a process is at, or is about to save as the next one.
NodeOf(p) == IF proc[p].pc = "save" THEN Following(p) ELSE proc[p].node

\* The memory of a process and the checkpoint it came from.
Abreast(p) == Engaged(p) =>
    /\ Fits(proc[p].tok, NodeOf(p))
    /\ proc[p].mode # "reopen" /\ ~proc[p].unsaved =>
          ckpt[proc[p].tok].node = proc[p].node
    /\ proc[p].mode = "reopen" => proc[p].node = "end"
    /\ proc[p].mode = "final" /\ proc[p].err = "publication" =>
          proc[p].node = "publish_pull_request"
    /\ proc[p].mode = "final" /\ proc[p].err = "issue_publication" =>
          proc[p].node = "publish_issue"
    /\ proc[p].pc = "save" => RunOf(p).status # "failed"
    /\ proc[p].pc = "patch" /\ proc[p].mode = "graph" =>
          RunMove(proc[p].node, proc[p].out)[1] \in {proc[p].seen, "any"}

\* Whoever turns to the run row has left the feedback row as it should be.
Ahead(p) == proc[p].pc \in {"runget", "patch"} /\ Owns(proc[p].tok) =>
    /\ proc[p].mode = "graph" /\ proc[p].node \in FinishNodes =>
          fb[run[proc[p].tok].fid].status \in AlreadyDone(proc[p].node, proc[p].out)
    /\ proc[p].mode = "final" => fb[run[proc[p].tok].fid].status \notin Finalizable

\* A maintainer who reopens a run: what it may be reopened for, and the row first.
Reviving(p) == Engaged(p) /\ proc[p].mode = "reopen" =>
    /\ \/ proc[p].goal \in {"publishing", "publishing_issue"} /\ PublicationFailed(proc[p].tok)
       \/ /\ proc[p].goal = "reproducing" /\ BudgetResumable(proc[p].tok)
          /\ ckpt[proc[p].tok].node \in ReproducingNodes
       \/ /\ proc[p].goal = "repairing" /\ BudgetResumable(proc[p].tok)
          /\ ckpt[proc[p].tok].node \in RepairingNodes
    /\ proc[p].pc = "get" => proc[p].goal # "publishing_issue"
    /\ proc[p].pc = "cas" =>
          /\ proc[p].goal = "publishing" => proc[p].err = "publication"
          /\ proc[p].goal = "publishing_issue" => proc[p].err = "issue_publication"
    /\ proc[p].pc \in {"runget", "patch"} =>
          Owns(proc[p].tok) /\ fb[run[proc[p].tok].fid].status = proc[p].goal

\* The two tables.
Agrees(t) ==
    /\ t \in moved => run[t].status # "created"
    /\ Active(t) /\ run[t].status # "created" =>
          Holds(t) \/ (run[t].status = "publishing" /\ t \in moved)
    /\ Active(t) /\ Owns(t) => fb[run[t].fid].status \in Stage(run[t].status)
    /\ PublicationFailed(t) /\ Owns(t)
          /\ fb[run[t].fid].status \in {"publishing", "publishing_issue"} =>
             fb[run[t].fid].status = IF run[t].err = "publication" THEN "publishing"
                                     ELSE "publishing_issue"

TablesInv(p) ==
    /\ \A t \in Tokens : Threaded(t) /\ Agrees(t)
    /\ \A f \in Feedback : Waiting(f)
    /\ Abreast(p) /\ Ahead(p) /\ Reviving(p)

-----------------------------------------------------------------------------
(* What the tables of the graph say about that *)

\* A node that only concludes hands on what it fits.
Thinking == {"classify_gate", "repair_agent", "validate_final", "publish_issue",
             "publish_pull_request"}

LEMMA ThinkingReaches ==
    ASSUME NEW n \in Thinking, NEW out
    PROVE  Reached(n) \subseteq Reached(Successor(n, out))
<1>1. CASE n = "repair_agent"
  <2>1. Successor(n, out) \in {"finish_reproduction", "finish_agent_blocked"}
    BY <1>1 DEF Successor, AfterRepairAgent, Reproduced
  <2>2. CASE Successor(n, out) = "finish_reproduction"
    BY <1>1, <2>2 DEF Reached, ReproducingNodes, RepairingNodes
  <2>3. CASE Successor(n, out) = "finish_agent_blocked"
    BY <1>1, <2>3 DEF Reached, ReproducingNodes, RepairingNodes
  <2> QED
    BY <2>1, <2>2, <2>3
<1>2. CASE n = "validate_final"
  <2>1. Successor(n, out) \in {"finish_validation", "finish_budget_exhausted"}
    BY <1>2 DEF Successor, AfterValidateFinal
  <2> QED
    BY <1>2, <2>1 DEF Reached, ReproducingNodes, RepairingNodes
<1>3. CASE n \in {"classify_gate", "publish_issue", "publish_pull_request"}
  BY <1>3 DEF Reached, Successor, ReproducingNodes, RepairingNodes
<1> QED
  BY <1>1, <1>2, <1>3 DEF Thinking

\* A node that writes leaves the run where the next node wants it.
LEMMA WritingReaches ==
    ASSUME NEW n \in WritingNodes, NEW out, RunMove(n, out)[2] \in ActiveRun
    PROVE  RunMove(n, out)[2] \in Reached(Successor(n, out))
<1>1. CASE n \in {"start_gate", "prepare_source", "finish_repair_success"}
  BY <1>1 DEF RunMove, mark_gating, mark_reproducing, mark_validating, ActiveRun, Successor,
              Reached, ReproducingNodes, RepairingNodes
<1>2. CASE n = "route_feedback"
  BY <1>2 DEF RunMove, complete_gate, ActiveRun, Successor, AfterGate, Reached,
              ReproducingNodes, RepairingNodes
<1>3. CASE n \in {"finish_reproduction", "finish_agent_blocked"}
  BY <1>3 DEF RunMove, complete_reproduction, ActiveRun, Successor, AfterReproduction, Reached,
              ReproducingNodes, RepairingNodes, Reproduced
<1>4. CASE n = "finish_validation"
  BY <1>4 DEF RunMove, complete_validation, ActiveRun, Successor, AfterValidation, Reached,
              ReproducingNodes, RepairingNodes
<1>5. CASE n \in {"finish_issue_publication", "finish_repair_failure",
                  "finish_budget_exhausted", "finish_publication"}
  BY <1>5 DEF RunMove, complete_issue_publication, complete_repair_failure, exhaust_budget,
              complete_publication, ActiveRun
<1> QED
  BY <1>1, <1>2, <1>3, <1>4, <1>5 DEF WritingNodes, FinishNodes

\* The moves of a run between active statuses.
Rises == {<<"created", "gating">>, <<"gating", "preparing_source">>,
          <<"gating", "publishing_issue">>, <<"preparing_source", "reproducing">>,
          <<"reproducing", "repairing">>, <<"repairing", "validating">>,
          <<"validating", "publishing">>}

LEMMA RunMoveRises ==
    ASSUME NEW n \in WritingNodes, NEW out, RunMove(n, out)[2] \in ActiveRun
    PROVE  \E m \in Rises : m[1] = RunMove(n, out)[1] /\ m[2] = RunMove(n, out)[2]
BY DEF WritingNodes, FinishNodes, RunMove, mark_gating, complete_gate, mark_reproducing,
       complete_issue_publication, complete_reproduction, mark_validating,
       complete_repair_failure, complete_validation, complete_publication, exhaust_budget,
       Reproduced, ActiveRun, Rises

\* Whatever a run has reached, it has still reached after such a move.
LEMMA ReachedRises ==
    ASSUME NEW m \in Rises, NEW n, m[1] \in Reached(n)
    PROVE  m[2] \in Reached(n)
BY DEF Rises, Reached, ActiveRun, ReproducingNodes, RepairingNodes

LEMMA NodesFollow ==
    ASSUME NEW n, NEW out
    PROVE  /\ n \in PullNodes => Successor(n, out) \in PullNodes
           /\ n \in IssueNodes => Successor(n, out) \in IssueNodes
BY DEF PullNodes, IssueNodes, Successor

\* What a node takes for its own earlier write is at the stage its run goes to.
LEMMA DoneAgrees ==
    ASSUME NEW n \in FinishNodes, NEW out, Handed(n, out), NEW s \in AlreadyDone(n, out),
           RunMove(n, out)[2] \in ActiveRun
    PROVE  s \in Stage(RunMove(n, out)[2])
<1>1. CASE n = "start_gate"
  BY <1>1 DEF AlreadyDone, Moves, StartGateMoves, RunMove, mark_gating, Stage
<1>2. CASE n = "route_feedback"
  <2>1. s = out
    <3>1. Moves(n, out) = {<<"gating", out>>}
      BY <1>2 DEF Moves, RouteFeedbackMoves
    <3>2. AlreadyDone(n, out) \subseteq {m[2] : m \in Moves(n, out)}
      BY <1>2 DEF AlreadyDone
    <3> QED
      BY <3>1, <3>2
  <2>2. \/ out = "reproducing" /\ RunMove(n, out)[2] = "preparing_source"
        \/ out = "publishing_issue" /\ RunMove(n, out)[2] = "publishing_issue"
    BY <1>2 DEF RunMove, complete_gate, ActiveRun
  <2> QED
    BY <2>1, <2>2 DEF Stage
<1>3. CASE n = "finish_reproduction"
  BY <1>3 DEF AlreadyDone, Moves, FinishReproductionMoves, RunMove, complete_reproduction,
              Stage, ActiveRun
<1>4. CASE n = "finish_repair_success"
  BY <1>4 DEF AlreadyDone, Moves, FinishRepairSuccessMoves, RunMove, mark_validating, Stage
<1>5. CASE n = "finish_validation"
  <2>1. out = "passed" /\ RunMove(n, out)[2] = "publishing"
    BY <1>5 DEF RunMove, complete_validation, ActiveRun
  <2>2. Moves(n, out) = {<<"validating", "validated">>, <<"validated", "publishing">>}
    BY <1>5, <2>1 DEF Moves, FinishValidationMoves
  <2>3. s = "publishing"
    <3>1. /\ {m[2] : m \in Moves(n, out)} = {"validated", "publishing"}
          /\ {m[1] : m \in Moves(n, out)} = {"validating", "validated"}
      BY <2>2
    <3> QED
      BY <1>5, <3>1 DEF AlreadyDone
  <2> QED
    BY <2>1, <2>3 DEF Stage
<1>6. CASE n \in {"finish_agent_blocked", "finish_issue_publication", "finish_repair_failure",
                  "finish_budget_exhausted", "finish_publication"}
  BY <1>6 DEF RunMove, complete_reproduction, complete_issue_publication, Handed, Reproduced,
              complete_repair_failure, exhaust_budget, complete_publication, ActiveRun
<1> QED
  BY <1>1, <1>2, <1>3, <1>4, <1>5, <1>6 DEF FinishNodes

\* A node's move of the row keeps it at the stage of the run, which is known to have
\* reached the node.
LEMMA MovesAgree ==
    ASSUME NEW n, NEW out, Handed(n, out), NEW m \in Moves(n, out), m[2] # "pending",
           NEW s \in Reached(n), NEW from \in Stage(s), CanMove(from, m[2])
    PROVE  m[2] \in Stage(s)
<1>1. CASE n = "start_gate"
  BY <1>1 DEF Moves, StartGateMoves, Reached, ActiveRun, Stage, CanMove, Verdicts, InFlight,
              FeedbackStatus
<1>2. CASE n = "route_feedback"
  BY <1>2 DEF Moves, RouteFeedbackMoves, Reached, ActiveRun, Stage, CanMove, Verdicts, InFlight,
              FeedbackStatus, Handed, Routes
<1>3. CASE n \in {"finish_reproduction", "finish_agent_blocked"}
  BY <1>3 DEF Moves, FinishReproductionMoves, FinishAgentBlockedMoves, Reached,
              ReproducingNodes, Stage, CanMove, Verdicts, InFlight, FeedbackStatus, Handed
<1>4. CASE n \in RepairingNodes
  BY <1>4 DEF Moves, FinishRepairSuccessMoves, FinishRepairFailureMoves, Reached,
              ReproducingNodes, RepairingNodes, Stage, CanMove, Verdicts, InFlight,
              FeedbackStatus
<1>5. CASE n = "finish_validation"
  BY <1>5 DEF Moves, FinishValidationMoves, Reached, ReproducingNodes, RepairingNodes, Stage,
              CanMove, Verdicts, InFlight, FeedbackStatus
<1>6. CASE n = "finish_publication"
  BY <1>6 DEF Moves, FinishPublicationMoves, Reached, ReproducingNodes, RepairingNodes, Stage,
              CanMove, Verdicts, InFlight, FeedbackStatus
<1>7. CASE n \in {"finish_issue_publication", "finish_budget_exhausted"}
  BY <1>7 DEF Moves, FinishIssuePublicationMoves, FinishBudgetExhaustedMoves, Stage, Verdicts,
              InFlight, FeedbackStatus
<1> QED
  BY <1>1, <1>2, <1>3, <1>4, <1>5, <1>6, <1>7 DEF Moves, RepairingNodes

\* A node stops moving the row where it would take the row for moved.
LEMMA MovesDone ==
    ASSUME NEW n, NEW out, NEW m \in Moves(n, out), NEW row, row.status = m[2],
           \A k \in Moves(n, out) : ~Applicable(k, row)
    PROVE  m[2] \in AlreadyDone(n, out)
<1>1. CASE n \in {"finish_validation", "finish_publication"}
  BY <1>1 DEF Applicable, AlreadyDone, Moves, FinishValidationMoves, FinishPublicationMoves
<1>2. CASE n \in {"start_gate", "finish_issue_publication", "finish_reproduction",
                  "finish_repair_success", "finish_repair_failure", "finish_budget_exhausted"}
  BY <1>2 DEF AlreadyDone, Moves, StartGateMoves, FinishIssuePublicationMoves,
              FinishReproductionMoves, FinishRepairSuccessMoves, FinishRepairFailureMoves,
              FinishBudgetExhaustedMoves
<1>3. CASE n \in {"route_feedback", "finish_agent_blocked"}
  <2>1. PICK from \in {"gating", "reproducing"} : Moves(n, out) = {<<from, out>>}
    BY <1>3 DEF Moves, RouteFeedbackMoves, FinishAgentBlockedMoves
  <2>2. m = <<from, out>> /\ row.status = out
    BY <2>1
  <2>3. from # "stale_base" /\ from # out
    BY <2>1, <2>2 DEF Applicable
  <2> QED
    BY <2>1, <2>2, <2>3 DEF AlreadyDone
<1> QED
  BY <1>1, <1>2, <1>3 DEF Moves

-----------------------------------------------------------------------------
(* What a step of the driver may do to a run's row, status, checkpoint and base *)

\* A process that moves the row of its run t on.
MovesOn(p, t) ==
    /\ WritesFeedback(p) /\ proc[p].tok = t /\ proc[p].fid = run[t].fid
    /\ Owns(t) /\ proc[p].goal # "pending"
    /\ fb'[run[t].fid].status = proc[p].goal
    /\ fb'[run[t].fid].err \in PublicationErrors =>
          proc[p].mode = "final" /\ fb'[run[t].fid].err = proc[p].err

LEMMA WrittenFields ==
    ASSUME TypeInv, NEW p \in Procs, proc[p].pc = "cas", Matches(p), fb' = Written(p)
    PROVE  /\ \A f \in Feedback : f # proc[p].fid => fb'[f] = fb[f]
           /\ \/ /\ proc[p].seen = "stale_base" /\ proc[p].goal = "pending"
                 /\ fb'[proc[p].fid].token = NoToken
              \/ /\ ~(proc[p].seen = "stale_base" /\ proc[p].goal = "pending")
                 /\ fb'[proc[p].fid].status = proc[p].goal
                 /\ fb'[proc[p].fid].token = proc[p].tok
                 /\ fb'[proc[p].fid].err \in PublicationErrors =>
                       proc[p].mode = "final" /\ fb'[proc[p].fid].err = proc[p].err
<1> DEFINE f == proc[p].fid
           e == IF proc[p].mode = "final" THEN Kept(proc[p].err)
                ELSE IF proc[p].node = "finish_budget_exhausted" THEN "budget" ELSE "none"
<1>1. /\ f \in Feedback /\ fb[f] \in FeedbackRow /\ fb \in [Feedback -> FeedbackRow]
      /\ fb[f].token = proc[p].tok
  BY Started DEF TypeInv, RowsOK, Matches
<1>2. \A g \in Feedback : g # f => fb'[g] = fb[g]
  BY <1>1 DEF Written
<1>3. CASE proc[p].seen = "stale_base" /\ proc[p].goal = "pending"
  <2>1. fb'[f] = [fb[f] EXCEPT !.status = "pending", !.token = NoToken, !.lease = FALSE,
                               !.requeues = 1, !.err = "none"]
    BY <1>1, <1>3 DEF Written
  <2>2. fb'[f].token = NoToken
    BY <1>1, <2>1 DEF FeedbackRow
  <2> QED
    BY <1>2, <1>3, <2>2
<1>4. CASE ~(proc[p].seen = "stale_base" /\ proc[p].goal = "pending")
  <2>1. fb'[f] = [fb[f] EXCEPT !.status = proc[p].goal, !.lease = FALSE, !.err = e]
    BY <1>1, <1>4 DEF Written
  <2>2. fb'[f].status = proc[p].goal /\ fb'[f].token = proc[p].tok /\ fb'[f].err = e
    <3> HIDE DEF e
    <3> QED
      BY <1>1, <2>1 DEF FeedbackRow
  <2>3. e \in PublicationErrors => proc[p].mode = "final" /\ e = proc[p].err
    BY DEF Kept, PublicationErrors
  <2> HIDE DEF e
  <2> QED
    BY <1>2, <1>4, <2>2, <2>3
<1> QED
  BY <1>3, <1>4

\* Waiting rows stay what they are.
LEMMA WaitingStep ==
    ASSUME RunInv, NEW p, Procs = {p}, [Next]_vars, DriverStep(p),
           NEW f \in Feedback, Waiting(f)
    PROVE  Waiting(f)'
<1>1. TypeInv /\ TokensInv /\ AimsInv /\ p \in Procs /\ NoToken \notin Tokens
  BY DEF RunInv, OwnershipInv, NoToken, Tokens
<1>2. \A t \in Tokens : Created(t) => Created(t)'
  BY <1>1, CreatedStays
<1>3. CASE RowWaits(f)
  BY <1>1, <1>2, <1>3 DEF RowWaits, RowKept, Waiting, Created, PublicationErrors
<1>4. CASE fb' = fb
  BY <1>2, <1>4 DEF Waiting, Created
<1>5. CASE WritesFeedback(p)
  <2>1. /\ proc[p].pc = "cas" /\ Matches(p) /\ fb' = Written(p) /\ proc[p].pc \notin Fresh
    BY <1>5 DEF WritesFeedback, Fresh
  <2>2. Created(proc[p].tok) /\ proc[p].tok \in Tokens
    BY <1>1, <2>1, WorksOnCreated
  <2>3. \/ proc[p].goal \notin {"absent", "pending"}
        \/ proc[p].seen = "stale_base" /\ proc[p].goal = "pending"
    <3>1. ProcOK(proc[p]) /\ Aim(p)
      BY <1>1, Started DEF AimsInv
    <3>2. CASE proc[p].mode = "reopen"
      BY <2>1, <3>1, <3>2 DEF ProcOK, RetryGoals
    <3>3. CASE proc[p].mode # "reopen"
      BY <2>1, <3>1, <3>3 DEF ProcOK, Aim, CanMove, FeedbackStatus
    <3> QED
      BY <3>2, <3>3
  <2>4. CASE f # proc[p].fid
    BY <1>1, <1>2, <2>1, <2>4, WrittenFields DEF Waiting, Created
  <2>5. CASE f = proc[p].fid
    BY <1>1, <1>2, <2>1, <2>2, <2>3, <2>5, WrittenFields DEF Waiting, Created
  <2> QED
    BY <2>4, <2>5
<1> QED
  BY <1>3, <1>4, <1>5
     DEF DriverStep, Outside, Silent, Concluding, WritesRun, Queues, StartsRun

\* A run that owns its row after a step has owned it before, unless the step created
\* the run, and the row was left alone or moved on by the run's driver.
LEMMA OwnRow ==
    ASSUME RunInv, NEW p, Procs = {p}, [Next]_vars, DriverStep(p),
           \A f \in Feedback : Waiting(f),
           NEW t \in Tokens, Created(t), fb'[run[t].fid].token = t
    PROVE  MovesOn(p, t) \/ (Owns(t) /\ RowKept(run[t].fid))
<1> DEFINE f == run[t].fid
<1>1. /\ TypeInv /\ TokensInv /\ p \in Procs /\ NoToken \notin Tokens
      /\ f \in Feedback /\ t <= claims /\ t \in Nat /\ claims \in Nat
  BY CreatedHasFeedback, TokensNumbered DEF RunInv, OwnershipInv, TokensInv, NoToken, Tokens
<1>2. CASE RowWaits(f)
  <2>1. t # claims + 1
    BY <1>1
  <2>2. RowKept(f) \/ (fb'[f].token = fb[f].token /\ fb[f].status = "absent")
    BY <1>1, <1>2, <2>1 DEF RowWaits
  <2>3. fb[f].status = "absent" => fb[f].token = NoToken
    BY <1>1 DEF Waiting
  <2> QED
    BY <1>1, <2>2, <2>3 DEF RowKept, Owns
<1>3. CASE fb' = fb
  BY <1>3 DEF RowKept, Owns
<1>4. CASE WritesFeedback(p)
  <2>1. /\ proc[p].pc = "cas" /\ Matches(p) /\ fb' = Written(p)
        /\ proc[p].pc \notin Fresh
    BY <1>4 DEF WritesFeedback, Fresh
  <2>2. CASE f # proc[p].fid
    BY <1>1, <2>1, <2>2, WrittenFields DEF RowKept, Owns
  <2>3. CASE f = proc[p].fid
    <3>1. /\ ~(proc[p].seen = "stale_base" /\ proc[p].goal = "pending")
          /\ fb'[f].status = proc[p].goal /\ fb'[f].token = proc[p].tok
          /\ fb'[f].err \in PublicationErrors =>
                proc[p].mode = "final" /\ fb'[f].err = proc[p].err
      BY <1>1, <2>1, <2>3, WrittenFields
    <3>2. fb[f].token = t /\ proc[p].tok = t
      BY <2>1, <2>3, <3>1 DEF Matches
    <3>3. proc[p].goal # "pending"
      <4>1. ProcOK(proc[p]) /\ Aim(p)
        BY <1>1, Started DEF AimsInv, RunInv, OwnershipInv
      <4>2. CASE proc[p].mode = "reopen"
        BY <2>1, <4>1, <4>2 DEF ProcOK, RetryGoals
      <4>3. CASE proc[p].mode # "reopen"
        BY <2>1, <3>1, <4>1, <4>3 DEF Aim, CanMove
      <4> QED
        BY <4>2, <4>3
    <3> QED
      BY <1>4, <2>3, <3>1, <3>2, <3>3 DEF MovesOn, Owns
  <2> QED
    BY <2>2, <2>3
<1> HIDE DEF f
<1>5. CASE Outside \/ Queues(p)
  BY <1>1, <1>2, <1>5 DEF Outside, Queues, f
<1> QED
  BY <1>3, <1>4, <1>5 DEF DriverStep, Silent, Concluding, WritesRun, StartsRun

\* A run row is left alone, created, or written by its driver.
StartsAs(p, t) == /\ StartsRun(p) /\ proc[p].tok = t /\ ~Created(t)
                  /\ run'[t].status = "created" /\ run'[t].fid = proc[p].fid

PatchesAs(p, t) ==
    /\ WritesRun(p) /\ proc[p].tok = t /\ Created(t) /\ Engaged(p)
    /\ run'[t].status = proc[p].goal /\ run'[t].fid = run[t].fid
    /\ run'[t].err \in PublicationErrors =>
          \/ proc[p].mode = "final" /\ run'[t].err = proc[p].err
          \/ proc[p].mode = "graph"

LEMMA OwnRun ==
    ASSUME RunInv, NEW p, Procs = {p}, DriverStep(p), NEW t \in Tokens
    PROVE  run'[t] = run[t] \/ StartsAs(p, t) \/ PatchesAs(p, t)
<1>1. TypeInv /\ TokensInv /\ p \in Procs /\ run \in [Tokens -> RunRow]
  BY DEF RunInv, OwnershipInv, TypeInv, RunsOK
<1>2. CASE StartsRun(p)
  <2>1. proc[p].pc = "create" /\ run' = RunCreated(proc[p].tok, proc[p].fid)
    BY <1>2 DEF StartsRun
  <2>2. proc[p].tok \in Tokens /\ ~Created(proc[p].tok)
    BY <1>1, <2>1, Started DEF TokensInv
  <2>3. CASE t = proc[p].tok
    BY <1>1, <1>2, <2>1, <2>2, <2>3 DEF StartsAs, RunCreated
  <2>4. CASE t # proc[p].tok
    BY <1>1, <2>1, <2>4 DEF RunCreated
  <2> QED
    BY <2>3, <2>4
<1>3. CASE WritesRun(p)
  <2>1. proc[p].pc = "patch" /\ run' = Patched(p)
    BY <1>3 DEF WritesRun
  <2>2. /\ proc[p].tok \in Tokens /\ Created(proc[p].tok) /\ Engaged(p)
        /\ run[proc[p].tok] \in RunRow
    BY <1>1, <2>1, WorksOnCreated DEF Engaged, Aside, BeforeGraph, Fresh
  <2>3. CASE t = proc[p].tok
    <3> DEFINE e == IF proc[p].mode = "final" THEN Kept(proc[p].err)
                    ELSE IF proc[p].mode = "reopen" THEN "none"
                    ELSE IF proc[p].node = "finish_budget_exhausted" THEN "budget"
                    ELSE run[t].err
               v == run[t].valid \/ (proc[p].mode = "graph" /\ proc[p].goal = "publishing")
    <3>1. run'[t] = [run[t] EXCEPT !.status = proc[p].goal, !.err = e, !.valid = v]
      BY <1>1, <2>1, <2>2, <2>3 DEF Patched, PatchedRow
    <3>2. e \in PublicationErrors => \/ proc[p].mode = "final" /\ e = proc[p].err
                                     \/ proc[p].mode = "graph"
      <4>1. proc[p].mode \in {"graph", "final", "reopen"}
        BY <1>1, Started DEF Process
      <4> QED
        BY <4>1 DEF Kept, PublicationErrors
    <3> HIDE DEF e, v
    <3>3. run'[t].status = proc[p].goal /\ run'[t].fid = run[t].fid /\ run'[t].err = e
      BY <2>2, <2>3, <3>1 DEF RunRow
    <3> QED
      BY <1>3, <2>2, <2>3, <3>2, <3>3 DEF PatchesAs
  <2>4. CASE t # proc[p].tok
    BY <1>1, <2>1, <2>4 DEF Patched
  <2> QED
    BY <2>3, <2>4
<1>4. CASE run' = run
  BY <1>4
<1> QED
  BY <1>2, <1>3, <1>4 DEF DriverStep, Outside, Silent, Concluding, WritesFeedback, Queues

\* A checkpoint is written by the process at work, which saves the next node or flushes
\* its own.
LEMMA OwnThread ==
    ASSUME RunInv, NEW p, Procs = {p}, Working(p), DriverStep(p), NEW t \in Tokens
    PROVE  \/ ckpt'[t] = ckpt[t]
           \/ /\ Engaged(p) /\ proc[p].tok = t /\ Created(t) /\ ckpt'[t].node = NodeOf(p)
              /\ proc[p].mode = "graph"
              /\ \/ SavesEnd(p)
                 \/ /\ proc[p].unsaved /\ proc[p].pc # "save"
                    /\ Fails(p) \/ CatchesUp(p)
<1>1. /\ TypeInv /\ TokensInv /\ p \in Procs /\ ProcOK(proc[p])
      /\ ckpt \in [Tokens -> [node : Nodes \cup {"end"}, out : Conclusions]]
  BY Started DEF RunInv, OwnershipInv, TypeInv, CkptsOK, Checkpoint
<1>2. Engaged(p) => proc[p].tok \in Tokens /\ Created(proc[p].tok)
  BY <1>1, WorksOnCreated DEF Engaged, Aside, BeforeGraph, Fresh
<1>3. ASSUME Flushes(p), proc[p].unsaved, proc[p].pc # "save", Fails(p) \/ CatchesUp(p)
      PROVE  \/ ckpt'[t] = ckpt[t]
             \/ /\ Engaged(p) /\ proc[p].tok = t /\ Created(t) /\ ckpt'[t].node = NodeOf(p)
                /\ proc[p].mode = "graph"
  <2>1. Engaged(p) /\ proc[p].mode = "graph"
    BY <1>3 DEF Working
  <2>2. CASE proc[p].tok = t
    <3>1. ckpt'[t] = PointsTo(proc[p].node, proc[p].out)
      BY <1>1, <1>3, <2>2 DEF Flushes
    <3> QED
      BY <1>2, <1>3, <2>1, <2>2, <3>1 DEF PointsTo, NodeOf
  <2>3. CASE proc[p].tok # t
    BY <1>1, <1>3, <2>3 DEF Flushes
  <2> QED
    BY <2>2, <2>3
<1>4. CASE SavesEnd(p)
  <2>1. proc[p].pc = "save" /\ Following(p) = "end" /\ Engaged(p) /\ proc[p].mode = "graph"
    BY <1>1, <1>4 DEF SavesEnd, Engaged, Aside, BeforeGraph, ProcOK
  <2>2. CASE proc[p].tok = t
    <3>1. ckpt'[t] = PointsTo("end", proc[p].out)
      BY <1>1, <1>4, <2>2 DEF SavesEnd
    <3> QED
      BY <1>2, <1>4, <2>1, <2>2, <3>1 DEF PointsTo, NodeOf
  <2>3. CASE proc[p].tok # t
    BY <1>1, <1>4, <2>3 DEF SavesEnd
  <2> QED
    BY <2>2, <2>3
<1>5. CASE ckpt' = ckpt
  BY <1>5
<1>6. CASE Fails(p)
  BY <1>3, <1>5, <1>6 DEF Fails
<1>7. CASE Drops(p)
  BY <1>5, <1>7 DEF Drops, Working
<1>8. CASE CatchesUp(p)
  BY <1>3, <1>8 DEF CatchesUp
<1> QED
  BY <1>4, <1>5, <1>6, <1>7, <1>8
     DEF DriverStep, Outside, Silent, Concluding, WritesFeedback, WritesRun, Queues, StartsRun,
         TurnsToNext

\* Main is found to have left a run's base where its pull request is published.
LEMMA OwnBase ==
    ASSUME NEW p, DriverStep(p), NEW t \in moved'
    PROVE  \/ t \in moved
           \/ /\ Concluding(p) /\ proc[p].tok = t /\ proc[p].node = "publish_pull_request"
              /\ proc[p].pc \in {"node", "post"} /\ Engaged(p) /\ proc[p].mode = "graph"
              /\ UNCHANGED run
BY DEF DriverStep, Outside, Silent, Concluding, Decides, Carries, WritesFeedback, WritesRun,
       Queues, StartsRun

-----------------------------------------------------------------------------
(* The threads *)

DriveInv(p) == RunInv /\ Working(p) /\ Purpose(p) /\ TablesInv(p)

\* What is known of the driver's run when it writes the run row.
LEMMA PatchIs ==
    ASSUME NEW p, Procs = {p}, DriveInv(p), NEW t \in Tokens, PatchesAs(p, t)
    PROVE  \/ /\ proc[p].mode = "graph" /\ Active(t) /\ proc[p].node \in WritingNodes
              /\ proc[p].goal = RunMove(proc[p].node, proc[p].out)[2]
              /\ proc[p].goal \in ActiveRun =>
                    \E m \in Rises : m[1] = run[t].status /\ m[2] = proc[p].goal
              /\ proc[p].goal # "failed"
           \/ /\ proc[p].mode = "final" /\ proc[p].goal = FailedRun(proc[p].err)
              /\ proc[p].goal \notin ActiveRun
           \/ /\ proc[p].mode = "reopen" /\ Owns(t) /\ proc[p].node = "end"
              /\ proc[p].goal \in ActiveRun /\ proc[p].goal \in Reached(ckpt[t].node)
              /\ fb[run[t].fid].status = proc[p].goal /\ proc[p].goal \in Stage(proc[p].goal)
              /\ proc[p].goal \notin Unowned /\ proc[p].goal # "failed"
<1>1. /\ TypeInv /\ p \in Procs /\ ProcOK(proc[p]) /\ proc[p] \in Process
      /\ proc[p].pc = "patch" /\ proc[p].tok = t /\ Engaged(p)
      /\ run[t].status = proc[p].seen
  BY Started DEF DriveInv, RunInv, PatchesAs, WritesRun, RunOf
<1>2. /\ Working(p) /\ Purpose(p) /\ Abreast(p) /\ Reviving(p) /\ Threaded(t) /\ Agrees(t)
  BY DEF DriveInv, TablesInv
<1>3. CASE proc[p].mode = "graph"
  <2> DEFINE mv == RunMove(proc[p].node, proc[p].out)
  <2>1. /\ Active(t) /\ proc[p].goal = mv[2] /\ proc[p].node \in WritingNodes
    BY <1>1, <1>2, <1>3 DEF Working, Purpose, ProcOK, WritingNodes
  <2>2. mv[1] \in {proc[p].seen, "any"}
    BY <1>1, <1>2, <1>3 DEF Abreast
  <2>3. mv[2] # "failed" /\ (mv[1] = "any" => mv[2] \notin ActiveRun)
    BY DEF RunMove, mark_gating, complete_gate, mark_reproducing, complete_issue_publication,
           complete_reproduction, mark_validating, complete_repair_failure,
           complete_validation, complete_publication, exhaust_budget, ActiveRun, Reproduced
  <2>4. mv[2] \in ActiveRun => \E m \in Rises : m[1] = mv[1] /\ m[2] = mv[2]
    BY <2>1, RunMoveRises
  <2> HIDE DEF mv
  <2> QED
    BY <1>1, <1>3, <2>1, <2>2, <2>3, <2>4 DEF mv
<1>4. CASE proc[p].mode = "final"
  BY <1>1, <1>2, <1>4 DEF Purpose, FailedRun, ActiveRun
<1>5. CASE proc[p].mode = "reopen"
  <2>1. /\ Owns(t) /\ fb[run[t].fid].status = proc[p].goal /\ proc[p].node = "end"
    BY <1>1, <1>2, <1>5 DEF Reviving, Abreast
  <2>2. CASE proc[p].goal \in {"publishing", "publishing_issue"} /\ PublicationFailed(t)
    <3>1. proc[p].goal = IF run[t].err = "publication" THEN "publishing"
                         ELSE "publishing_issue"
      BY <1>2, <2>1, <2>2 DEF Agrees
    <3>2. CASE run[t].err = "publication"
      <4>1. ckpt[t].node = "publish_pull_request" /\ proc[p].goal = "publishing"
        BY <1>2, <2>2, <3>1, <3>2 DEF Threaded, PublicationFailed, FailedPublication
      <4> QED
        BY <1>5, <2>1, <4>1
           DEF Reached, ReproducingNodes, RepairingNodes, ActiveRun, Stage, Unowned
    <3>3. CASE run[t].err = "issue_publication"
      <4>1. ckpt[t].node = "publish_issue" /\ proc[p].goal = "publishing_issue"
        BY <1>2, <2>2, <3>1, <3>3 DEF Threaded, PublicationFailed, FailedPublication
      <4> QED
        BY <1>5, <2>1, <4>1
           DEF Reached, ReproducingNodes, RepairingNodes, ActiveRun, Stage, Unowned
    <3> QED
      BY <2>2, <3>2, <3>3 DEF PublicationFailed, FailedPublication, PublicationErrors
  <2>3. CASE proc[p].goal = "reproducing" /\ ckpt[t].node \in ReproducingNodes
    BY <1>5, <2>1, <2>3
       DEF Reached, ReproducingNodes, RepairingNodes, ActiveRun, Stage, Unowned
  <2>4. CASE proc[p].goal = "repairing" /\ ckpt[t].node \in RepairingNodes
    BY <1>5, <2>1, <2>4
       DEF Reached, ReproducingNodes, RepairingNodes, ActiveRun, Stage, Unowned
  <2> QED
    BY <1>1, <1>2, <1>5, <2>2, <2>3, <2>4 DEF Reviving
<1> QED
  BY <1>1, <1>3, <1>4, <1>5 DEF Process

\* What fits a run goes on to fit it, whatever the step does to the run, its row and
\* its base: for the node in the checkpoint and the one in memory.
LEMMA FitsStays ==
    ASSUME NEW p, Procs = {p}, DriveInv(p), [Next]_vars, DriverStep(p), NEW t \in Tokens, NEW n,
           n = ckpt[t].node \/ (Engaged(p) /\ proc[p].tok = t /\ n = NodeOf(p))
    PROVE  Fits(t, n)'
<1>1. /\ RunInv /\ TypeInv /\ TokensInv /\ p \in Procs /\ ProcOK(proc[p])
      /\ proc[p].pc \notin Resting => proc[p].tok \in Tokens /\ proc[p].fid \in Feedback
  BY Started DEF DriveInv, RunInv, OwnershipInv, Resting
<1>2. /\ Threaded(t) /\ Abreast(p) /\ Agrees(t) /\ \A f \in Feedback : Waiting(f)
      /\ Working(p)
  BY DEF DriveInv, TablesInv
<1>3. Fits(t, n)
  BY <1>2 DEF Threaded, Abreast
<1>4. run'[t].status \in ActiveRun => run'[t].status \in Reached(n)
  <2>1. CASE run'[t] = run[t]
    BY <1>3, <2>1 DEF Fits, FitsAt
  <2>2. CASE StartsAs(p, t)
    <3>1. n = "start_gate"
      BY <1>2, <2>2 DEF StartsAs, StartsRun, Threaded, Engaged, Aside, BeforeGraph, Fresh
    <3>2. Reached("start_gate") = ActiveRun
      BY DEF Reached, ReproducingNodes, RepairingNodes
    <3> QED
      BY <3>1, <3>2
  <2>3. CASE PatchesAs(p, t)
    <3>1. run'[t].status = proc[p].goal
      BY <2>3 DEF PatchesAs
    <3>2. CASE proc[p].mode = "graph" /\ proc[p].goal \in ActiveRun
      <4>1. PICK m \in Rises : m[1] = run[t].status /\ m[2] = proc[p].goal
        BY <2>3, <3>2, PatchIs
      <4>2. run[t].status \in Reached(n)
        BY <1>3, <2>3, <3>2, PatchIs DEF Fits, FitsAt, Active
      <4> QED
        BY <3>1, <4>1, <4>2, ReachedRises
    <3>3. CASE proc[p].mode = "reopen"
      <4>1. /\ n = ckpt[t].node \/ n = "end"
            /\ proc[p].goal \in Reached(ckpt[t].node) /\ proc[p].goal \in ActiveRun
        BY <2>3, <3>3, PatchIs DEF PatchesAs, WritesRun, NodeOf
      <4>2. Reached("end") = ActiveRun
        BY DEF Reached, ReproducingNodes, RepairingNodes
      <4> QED
        BY <3>1, <4>1, <4>2
    <3> QED
      BY <2>3, <3>1, <3>2, <3>3, PatchIs
  <2> QED
    BY <1>1, <2>1, <2>2, <2>3, OwnRun
<1>5. /\ RowErr(t)' = "publication" => n \in PullNodes
      /\ RowErr(t)' = "issue_publication" => n \in IssueNodes
  <2> SUFFICES ASSUME Owns(t)', fb'[run'[t].fid].err \in PublicationErrors
               PROVE  /\ fb'[run'[t].fid].err = "publication" => n \in PullNodes
                      /\ fb'[run'[t].fid].err = "issue_publication" => n \in IssueNodes
    BY DEF RowErr, PublicationErrors
  <2>1. run'[t].status # "none" /\ fb'[run'[t].fid].token = t
    BY DEF Owns, Created
  <2>2. CASE Created(t)
    <3>1. run'[t].fid = run[t].fid
      BY <1>1, <2>2, CreatedStays
    <3>2. CASE Owns(t) /\ RowKept(run[t].fid)
      BY <1>3, <3>1, <3>2 DEF RowKept, Fits, FitsAt, RowErr
    <3>3. CASE MovesOn(p, t)
      <4>1. /\ proc[p].mode = "final" /\ fb'[run[t].fid].err = proc[p].err
            /\ proc[p].pc = "cas" /\ Engaged(p) /\ proc[p].tok = t
        BY <3>1, <3>3 DEF MovesOn, WritesFeedback, Engaged, Aside, BeforeGraph, Fresh
      <4>2. n = proc[p].node
        BY <1>2, <4>1 DEF Abreast, NodeOf, Working
      <4> QED
        BY <1>2, <3>1, <4>1, <4>2 DEF Abreast, PullNodes, IssueNodes
    <3> QED
      BY <1>1, <1>2, <2>1, <2>2, <3>1, <3>2, <3>3, OwnRow
  <2>3. CASE ~Created(t)
    <3>1. StartsAs(p, t)
      BY <1>1, <2>1, <2>3, OwnRun DEF Created, PatchesAs
    <3>2. fb' = fb /\ run'[t].fid \in Feedback
      BY <1>1, <3>1 DEF StartsAs, StartsRun, Resting
    <3> QED
      BY <1>2, <2>1, <2>3, <3>2 DEF Waiting
  <2> QED
    BY <2>2, <2>3
<1> QED
  BY <1>4, <1>5 DEF Fits, FitsAt

LEMMA ThreadedStep ==
    ASSUME NEW p, Procs = {p}, DriveInv(p), [Next]_vars, DriverStep(p), NEW t \in Tokens
    PROVE  Threaded(t)'
<1>1. /\ RunInv /\ TypeInv /\ TokensInv /\ p \in Procs /\ ProcOK(proc[p])
      /\ Threaded(t) /\ Abreast(p) /\ Working(p)
  BY Started DEF DriveInv, RunInv, OwnershipInv, TablesInv
<1> DEFINE n == ckpt'[t].node
<1>2. ckpt'[t] = ckpt[t] \/ (Engaged(p) /\ proc[p].tok = t /\ n = NodeOf(p))
  BY <1>1, OwnThread
<1>3. ASSUME NEW m, m = ckpt'[t].node PROVE Fits(t, m)'
  BY <1>2, <1>3, FitsStays
<1>4. Fits(t, ckpt[t].node)'
  BY <1>3 DEF Fits
<1>5. ~Created(t)' => n = "start_gate"
  <2>1. ~Created(t)' => ~Created(t)
    BY <1>1, CreatedStays
  <2> QED
    BY <1>1, <2>1, OwnThread DEF Threaded
<1>6. CASE run'[t] = run[t] /\ run[t].status = "failed"
  <2>1. ASSUME Engaged(p), proc[p].tok = t, proc[p].pc = "save"
        PROVE  FALSE
    BY <1>1, <1>6, <2>1 DEF Abreast, RunOf
  <2>2. ASSUME Engaged(p), proc[p].tok = t, proc[p].pc # "save", proc[p].mode = "graph"
        PROVE  FALSE
    BY <1>1, <1>6, <2>2 DEF Working, Active, ActiveRun
  <2>3. ckpt'[t] = ckpt[t]
    BY <1>1, <2>1, <2>2, OwnThread
  <2> QED
    BY <1>1, <1>4, <1>5, <1>6, <2>3 DEF Threaded
<1>7. CASE PatchesAs(p, t) /\ run'[t].status = "failed" /\ run'[t].err \in PublicationErrors
  <2>1. proc[p].mode = "final" /\ run'[t].err = proc[p].err
    <3>1. proc[p].goal = "failed"
      BY <1>7 DEF PatchesAs
    <3>2. proc[p].mode = "final"
      BY <1>7, <3>1, PatchIs
    <3> QED
      BY <1>7, <3>2 DEF PatchesAs
  <2>2. ~proc[p].unsaved /\ ckpt[t].node = proc[p].node /\ proc[p].pc # "save"
    BY <1>1, <1>7, <2>1 DEF Abreast, PatchesAs, WritesRun, Working
  <2>3. ckpt'[t] = ckpt[t]
    BY <1>1, <2>1, OwnThread
  <2>4. /\ proc[p].err = "publication" => proc[p].node = "publish_pull_request"
        /\ proc[p].err = "issue_publication" => proc[p].node = "publish_issue"
    BY <1>1, <1>7, <2>1 DEF Abreast, PatchesAs
  <2> QED
    BY <1>4, <1>5, <2>1, <2>2, <2>3, <2>4 DEF Threaded
<1>8. CASE run'[t].status # "failed" \/ run'[t].err \notin PublicationErrors
  BY <1>4, <1>5, <1>8 DEF Threaded, PublicationErrors
<1>9. ~(StartsAs(p, t) /\ run'[t].status = "failed")
  BY DEF StartsAs
<1> QED
  BY <1>1, <1>6, <1>7, <1>8, <1>9, OwnRun

\* A run loses its row when it sends a stale publication back, and then only.
LEMMA HoldsOn ==
    ASSUME NEW p, Procs = {p}, DriveInv(p), [Next]_vars, DriverStep(p), NEW t \in Tokens,
           Holds(t)
    PROVE  Holds(t)' \/ (run[t].status = "publishing" /\ t \in moved' /\ UNCHANGED run)
<1>1. /\ RunInv /\ TypeInv /\ TokensInv /\ AimsInv /\ p \in Procs
      /\ proc[p] \in Process /\ ProcOK(proc[p]) /\ Aim(p)
      /\ Working(p) /\ Purpose(p) /\ Abreast(p)
      /\ proc[p].pc \notin Resting => proc[p].tok \in Tokens /\ proc[p].fid \in Feedback
  BY Started DEF DriveInv, RunInv, OwnershipInv, AimsInv, TablesInv, Resting
<1>2. /\ Created(t) /\ run[t].fid \in Feedback /\ fb[run[t].fid].token = t
      /\ fb[run[t].fid].status \notin Unowned /\ t # NoToken
      /\ run'[t].status # "none" /\ run'[t].fid = run[t].fid
  BY <1>1, CreatedHasFeedback, CreatedStays DEF Holds, Owns, Created, NoToken, Tokens
<1>3. CASE RowKept(run[t].fid)
  BY <1>2, <1>3 DEF RowKept, Holds, Owns, Created
<1>4. CASE RowWaits(run[t].fid)
  BY <1>2, <1>3, <1>4 DEF RowWaits, Unowned
<1>5. CASE fb' = fb
  BY <1>3, <1>5 DEF RowKept
<1>6. CASE WritesFeedback(p)
  <2>1. /\ proc[p].pc = "cas" /\ Matches(p) /\ fb' = Written(p) /\ UNCHANGED run
        /\ Engaged(p) /\ proc[p].fid \in Feedback /\ proc[p].tok \in Tokens
    BY <1>1, <1>6 DEF WritesFeedback, Engaged, Aside, BeforeGraph, Resting
  <2>2. CASE run[t].fid # proc[p].fid
    BY <1>1, <1>2, <1>3, <2>1, <2>2, WrittenFields DEF RowKept
  <2>3. CASE run[t].fid = proc[p].fid /\ proc[p].seen = "stale_base" /\ proc[p].goal = "pending"
    <3>1. proc[p].tok = t /\ t \in moved
      BY <1>1, <1>2, <2>1, <2>3 DEF Matches, Aim
    <3>2. proc[p].mode = "graph"
      BY <1>1, <2>1, <2>3 DEF Purpose, ProcOK, RetryGoals, FailureVerdicts, Process
    <3>3. PICK m \in Moves(proc[p].node, proc[p].out) : m[2] = "pending"
      BY <1>1, <2>1, <2>3, <3>2 DEF Purpose
    <3>4. proc[p].node = "finish_publication"
      <4>1. Handed(proc[p].node, proc[p].out) /\ proc[p].node \in FinishNodes \cup {"prepare_source"}
        BY <1>1, <2>1, <3>2 DEF ProcOK
      <4> QED
        BY <3>3, <4>1 DEF Moves, FinishNodes, Handed, Routes, StartGateMoves,
               RouteFeedbackMoves, FinishIssuePublicationMoves, FinishReproductionMoves,
               FinishAgentBlockedMoves, FinishRepairSuccessMoves, FinishRepairFailureMoves,
               FinishValidationMoves, FinishBudgetExhaustedMoves
    <3>5. Active(t) /\ Fits(t, "finish_publication")
      BY <1>1, <2>1, <3>1, <3>2, <3>4 DEF Working, Abreast, NodeOf
    <3>6. run[t].status = "publishing"
      BY <3>5 DEF Fits, FitsAt, Active, Reached, ReproducingNodes, RepairingNodes
    <3> QED
      BY <2>1, <3>1, <3>6, <1>6 DEF WritesFeedback
  <2>4. CASE /\ run[t].fid = proc[p].fid
             /\ ~(proc[p].seen = "stale_base" /\ proc[p].goal = "pending")
    <3>1. fb'[run[t].fid].status = proc[p].goal /\ fb'[run[t].fid].token = t
      BY <1>1, <1>2, <2>1, <2>4, WrittenFields DEF Matches
    <3>2. proc[p].goal \notin Unowned
      <4>1. CASE proc[p].mode = "reopen"
        BY <1>1, <2>1, <4>1 DEF ProcOK, RetryGoals, Unowned
      <4>2. CASE proc[p].mode # "reopen"
        BY <1>1, <2>1, <2>4, <4>2 DEF Aim, CanMove, Unowned
      <4> QED
        BY <4>1, <4>2
    <3> QED
      BY <1>2, <3>1, <3>2 DEF Holds, Owns, Created
  <2> QED
    BY <2>2, <2>3, <2>4
<1>7. CASE Outside \/ Queues(p)
  BY <1>2, <1>4, <1>7 DEF Outside, Queues
<1> QED
  BY <1>5, <1>6, <1>7 DEF DriverStep, Silent, Concluding, WritesRun, StartsRun

\* The tables stay within one node of each other.
LEMMA AgreesStep ==
    ASSUME NEW p, Procs = {p}, DriveInv(p), [Next]_vars, DriverStep(p), NEW t \in Tokens
    PROVE  Agrees(t)'
<1>1. /\ RunInv /\ TypeInv /\ TokensInv /\ PositionsInv /\ AimsInv /\ PlacesInv /\ RowsInv
      /\ p \in Procs /\ proc[p] \in Process /\ ProcOK(proc[p])
      /\ proc[p].pc \notin Resting => proc[p].tok \in Tokens /\ proc[p].fid \in Feedback
  BY Started DEF DriveInv, RunInv, OwnershipInv, Resting
<1>2. /\ Threaded(t) /\ Agrees(t) /\ Abreast(p) /\ Ahead(p) /\ Reviving(p)
      /\ Working(p) /\ Purpose(p) /\ \A f \in Feedback : Waiting(f)
  BY DEF DriveInv, TablesInv
<1>3. moved \subseteq moved'
  BY <1>1, PositionsGrow
<1>4. CASE run'[t] = run[t]
  <2>1. t \in moved' => run'[t].status # "created"
    <3>1. CASE t \in moved
      BY <1>2, <1>4, <3>1 DEF Agrees
    <3>2. CASE /\ proc[p].tok = t /\ proc[p].node = "publish_pull_request"
               /\ proc[p].pc \in {"node", "post"} /\ Engaged(p) /\ proc[p].mode = "graph"
      <4>1. Active(t) /\ Fits(t, "publish_pull_request")
        BY <1>2, <3>2 DEF Working, Abreast, NodeOf
      <4>2. run[t].status = "publishing"
        BY <4>1 DEF Fits, FitsAt, Active, Reached, ReproducingNodes, RepairingNodes
      <4> QED
        BY <1>4, <4>2
    <3> QED
      BY <3>1, <3>2, OwnBase
  <2>2. Active(t)' /\ run'[t].status # "created" =>
           Holds(t)' \/ (run'[t].status = "publishing" /\ t \in moved')
    <3>1. Active(t)' => Active(t)
      BY <1>4 DEF Active
    <3> QED
      BY <1>2, <1>3, <1>4, <3>1, HoldsOn DEF Agrees
  <2>3. CASE ~Owns(t)'
    BY <2>1, <2>2, <2>3 DEF Agrees
  <2>4. CASE Owns(t)'
    <3>1. Created(t) /\ fb'[run[t].fid].token = t
      BY <1>4, <2>4 DEF Owns, Created
    <3>2. CASE Owns(t) /\ RowKept(run[t].fid)
      BY <1>2, <1>4, <2>1, <2>2, <3>2
         DEF Agrees, RowKept, Active, PublicationFailed, FailedPublication
    <3>3. CASE MovesOn(p, t)
      <4>1. /\ proc[p].pc = "cas" /\ Engaged(p) /\ Matches(p) /\ proc[p].tok = t
            /\ proc[p].fid = run[t].fid /\ proc[p].goal # "pending" /\ Owns(t)
            /\ fb'[run[t].fid].status = proc[p].goal
        BY <3>3 DEF MovesOn, WritesFeedback, Engaged, Aside, BeforeGraph, Fresh
      <4>2. CASE proc[p].mode = "graph"
        <5>1. Active(t) /\ Fits(t, proc[p].node) /\ Handed(proc[p].node, proc[p].out)
          BY <1>1, <1>2, <4>1, <4>2 DEF Working, Abreast, NodeOf, ProcOK
        <5>2. PICK m \in Moves(proc[p].node, proc[p].out) : proc[p].goal = m[2]
          BY <1>2, <4>1, <4>2 DEF Purpose
        <5>3. CanMove(proc[p].seen, proc[p].goal) /\ fb[run[t].fid].status = proc[p].seen
          BY <1>1, <4>1, <4>2 DEF AimsInv, Aim, Matches
        <5>4. run[t].status \in Reached(proc[p].node) /\ proc[p].seen \in Stage(run[t].status)
          BY <1>2, <4>1, <5>1, <5>3 DEF Fits, FitsAt, Active, Agrees
        <5>5. proc[p].goal \in Stage(run[t].status)
          BY <4>1, <5>1, <5>2, <5>3, <5>4, MovesAgree
        <5> QED
          BY <1>4, <2>1, <2>2, <4>1, <5>1, <5>5
             DEF Agrees, Active, ActiveRun, PublicationFailed, FailedPublication
      <4>3. CASE proc[p].mode = "final"
        <5>1. proc[p].goal \in FailureVerdicts
          BY <1>2, <4>1, <4>3 DEF Purpose
        <5>2. /\ proc[p].goal \in Stage(run[t].status)
              /\ proc[p].goal \notin {"publishing", "publishing_issue"}
          BY <5>1 DEF FailureVerdicts, Stage, Verdicts, FeedbackStatus, InFlight
        <5> QED
          BY <1>4, <2>1, <2>2, <4>1, <5>2 DEF Agrees
      <4>4. CASE proc[p].mode = "reopen"
        <5>1. ~Active(t)
          BY <1>2, <4>1, <4>4
             DEF Reviving, PublicationFailed, FailedPublication, BudgetResumable, SpentBudget,
                 Active, ActiveRun
        <5>2. proc[p].err = fb[run[t].fid].err /\ RowErr(t) = fb[run[t].fid].err
          BY <4>1, <4>4 DEF Matches, RowErr
        <5>3. /\ proc[p].goal = "publishing" => ckpt[t].node \in PullNodes
              /\ proc[p].goal = "publishing_issue" => ckpt[t].node \in IssueNodes
          BY <1>2, <4>1, <4>4, <5>2 DEF Reviving, Threaded, Fits, FitsAt
        <5>4. PublicationFailed(t) =>
                 /\ proc[p].goal = "publishing" => run[t].err = "publication"
                 /\ proc[p].goal = "publishing_issue" => run[t].err = "issue_publication"
          BY <1>2, <5>3 DEF PublicationFailed, FailedPublication, PublicationErrors, Threaded,
                            PullNodes, IssueNodes
        <5> QED
          BY <1>4, <2>1, <2>2, <4>1, <5>1, <5>4
             DEF Agrees, Active, PublicationFailed, FailedPublication
      <4> QED
        BY <1>1, <4>2, <4>3, <4>4 DEF Process
    <3> QED
      BY <1>1, <1>2, <3>1, <3>2, <3>3, OwnRow
  <2> QED
    BY <2>3, <2>4
<1>5. CASE StartsAs(p, t)
  <2>1. /\ proc[p].pc = "create" /\ fb' = fb /\ moved' = moved /\ ~Created(t)
        /\ run'[t].fid \in Feedback /\ run'[t].status = "created"
    BY <1>1, <1>5 DEF StartsAs, StartsRun, Resting
  <2>2. t \notin moved'
    BY <1>1, <2>1 DEF PlacesInv
  <2>3. ASSUME NEW f \in Feedback, fb[f].token = t
        PROVE  fb[f].status \in Stage("created")
    <3>1. fb[f].status \notin InFlight
      BY <1>1, <2>1, <2>3, RunAssumption
         DEF RowsInv, TokensInv, NoFeedback, RunAssumption, Created
    <3>2. fb[f].status \notin {"absent", "pending"}
      BY <1>2, <2>3 DEF Waiting, NoToken, Tokens
    <3>3. fb[f].status \in FeedbackStatus \cup {"absent"}
      BY <1>1 DEF TypeInv, RowsOK, FeedbackRow
    <3> QED
      BY <3>1, <3>2, <3>3 DEF Stage, Verdicts
  <2>4. Owns(t)' => fb'[run'[t].fid].token = t
    BY DEF Owns
  <2> QED
    BY <2>1, <2>2, <2>3, <2>4 DEF Agrees, PublicationFailed, FailedPublication, Active
<1>6. CASE PatchesAs(p, t)
  <2>1. /\ fb' = fb /\ moved' = moved /\ run'[t].fid = run[t].fid /\ Created(t)
        /\ proc[p].pc = "patch" /\ proc[p].tok = t /\ run'[t].status = proc[p].goal
        /\ Engaged(p) /\ run[t].status = proc[p].seen
    BY <1>6 DEF PatchesAs, WritesRun, RunOf
  <2>2. Owns(t)' => Owns(t)
    BY <2>1 DEF Owns
  <2>3. CASE proc[p].mode = "graph"
    <3>1. /\ Active(t) /\ proc[p].node \in WritingNodes /\ proc[p].goal # "failed"
          /\ proc[p].goal = RunMove(proc[p].node, proc[p].out)[2]
          /\ proc[p].goal \in ActiveRun =>
                \E m \in Rises : m[1] = run[t].status /\ m[2] = proc[p].goal
      BY <1>6, <2>3, PatchIs
    <3>2. proc[p].goal # "created"
      BY <3>1 DEF RunMove, mark_gating, complete_gate, mark_reproducing,
              complete_issue_publication, complete_reproduction, mark_validating, Reproduced,
              complete_repair_failure, complete_validation, complete_publication, exhaust_budget
    <3>3. proc[p].goal \in ActiveRun => Holds(t)'
      <4>1. proc[p].goal \in ActiveRun => Holds(t)
        <5>1. Bound(t)
          BY <1>1, <2>1, <2>3 DEF PositionsInv, InMemory
        <5> QED
          BY <1>2, <3>1, <5>1 DEF Agrees, Rises, Bound
      <4> QED
        BY <2>1, <3>1, <4>1 DEF Holds, Owns, Created, ActiveRun
    <3>4. ASSUME proc[p].goal \in ActiveRun, Owns(t)
          PROVE  fb[run[t].fid].status \in Stage(proc[p].goal)
      <4>1. CASE proc[p].node \in FinishNodes
        <5>1. fb[run[t].fid].status \in AlreadyDone(proc[p].node, proc[p].out)
          BY <1>2, <2>1, <2>3, <3>4, <4>1 DEF Ahead
        <5>2. Handed(proc[p].node, proc[p].out)
          BY <1>1, <2>1 DEF ProcOK
        <5> QED
          BY <3>1, <3>4, <4>1, <5>1, <5>2, DoneAgrees
      <4>2. CASE proc[p].node = "prepare_source"
        <5>1. proc[p].goal = "reproducing" /\ run[t].status = "preparing_source"
          BY <3>1, <3>4, <4>2 DEF RunMove, mark_reproducing, Rises
        <5>2. fb[run[t].fid].status \in Stage("preparing_source")
          BY <1>2, <3>1, <3>4, <5>1 DEF Agrees
        <5> QED
          BY <5>1, <5>2 DEF Stage
      <4> QED
        BY <3>1, <4>1, <4>2 DEF WritingNodes
    <3> QED
      BY <2>1, <2>2, <3>1, <3>2, <3>3, <3>4
         DEF Agrees, Active, PublicationFailed, FailedPublication
  <2>4. CASE proc[p].mode = "final"
    <3>1. proc[p].goal \notin ActiveRun /\ proc[p].goal # "created"
      BY <1>6, <2>4, PatchIs DEF ActiveRun
    <3>2. Owns(t) => fb[run[t].fid].status \notin {"publishing", "publishing_issue"}
      BY <1>2, <2>1, <2>4 DEF Ahead, Finalizable
    <3> QED
      BY <2>1, <2>2, <3>1, <3>2 DEF Agrees, Active
  <2>5. CASE proc[p].mode = "reopen"
    <3>1. /\ Owns(t) /\ proc[p].goal # "failed" /\ proc[p].goal \notin Unowned
          /\ fb[run[t].fid].status = proc[p].goal /\ proc[p].goal \in Stage(proc[p].goal)
      BY <1>6, <2>5, PatchIs
    <3>2. proc[p].goal \notin {"created", "none"}
      BY <1>1, <1>2, <2>1, <2>5 DEF Purpose, RetryGoals
    <3>3. Holds(t)'
      BY <2>1, <3>1, <3>2 DEF Holds, Owns, Created
    <3> QED
      BY <2>1, <3>1, <3>2, <3>3 DEF Agrees, Active, PublicationFailed, FailedPublication
  <2> QED
    BY <1>1, <2>3, <2>4, <2>5 DEF Process
<1> QED
  BY <1>1, <1>4, <1>5, <1>6, OwnRun


-----------------------------------------------------------------------------
(* The driver *)

LEMMA RestingNext ==
    ASSUME TypeInv, NEW p \in Procs,
           \/ SavesEnd(p) \/ Polls(p) \/ SetsOut(p) \/ LooksUp(p) \/ Enters(p) \/ FindsRevived(p)
    PROVE  proc'[p].pc \in {"idle", "claim", "resume", "load", "start"}
<1>1. CASE SavesEnd(p)
  BY <1>1 DEF SavesEnd, Idle
<1>2. CASE Polls(p)
  BY <1>2 DEF Polls
<1>3. CASE SetsOut(p)
  BY <1>3 DEF SetsOut, Resuming, Idle
<1>4. CASE LooksUp(p) \/ Enters(p)
  BY <1>4, ApproachFields
<1>5. CASE FindsRevived(p)
  BY <1>5 DEF FindsRevived, Reopened, Idle
<1> QED
  BY <1>1, <1>2, <1>3, <1>4, <1>5

LEMMA FitsHere ==
    ASSUME NEW p, NEW t, NEW n, proc'[p].tok = t, NodeOf(p)' = n, Fits(t, n)'
    PROVE  Fits(proc[p].tok, NodeOf(p))'
BY DEF NodeOf, Fits, RowErr, Owns, Created

\* A process that takes up run t is where its checkpoint is.
LEMMA TakenAbreast ==
    ASSUME NEW p, Procs = {p}, DriveInv(p), [Next]_vars, DriverStep(p), NEW t \in Tokens,
           UNCHANGED ckpt, proc'[p].tok = t, proc'[p].node = ckpt[t].node,
           proc'[p].mode = "graph", proc'[p].pc \notin {"save", "patch"}
    PROVE  Abreast(p)'
<1>1. ASSUME NEW n, n = ckpt[t].node PROVE Fits(proc[p].tok, NodeOf(p))'
  <2>1. Fits(t, n)'
    BY <1>1, FitsStays
  <2>2. NodeOf(p)' = n
    BY <1>1 DEF NodeOf
  <2> QED
    BY <2>1, <2>2, FitsHere
<1>2. Fits(proc[p].tok, NodeOf(p))'
  BY <1>1
<1> QED
  BY <1>2 DEF Abreast

\* Whatever a run's status is, it fits the end: so does a maintainer who reopens it.
LEMMA ReopeningAbreast ==
    ASSUME NEW p, proc'[p].mode = "reopen", proc'[p].node = "end",
           proc'[p].pc \notin {"save", "patch"}
    PROVE  Abreast(p)'
<1>1. ASSUME NEW t, t = proc'[p].tok PROVE Fits(proc[p].tok, NodeOf(p))'
  <2>1. Fits(t, "end")'
    BY DEF Fits, FitsAt, Reached, ReproducingNodes, RepairingNodes, PullNodes, IssueNodes
  <2>2. NodeOf(p)' = "end"
    BY DEF NodeOf
  <2> QED
    BY <1>1, <2>1, <2>2, FitsHere
<1>2. Fits(proc[p].tok, NodeOf(p))'
  BY <1>1
<1> QED
  BY <1>2 DEF Abreast

\* One that stays where it is stays abreast.
LEMMA HoldingAbreast ==
    ASSUME NEW p, Procs = {p}, DriveInv(p), [Next]_vars, DriverStep(p), UNCHANGED ckpt,
           Holding(p), proc[p].pc # "save", proc'[p].pc # "save",
           proc'[p].pc = "patch" /\ proc[p].mode = "graph" =>
               RunMove(proc[p].node, proc[p].out)[1] \in {proc'[p].seen, "any"}
    PROVE  Abreast(p)'
<1>1. /\ TypeInv /\ p \in Procs /\ Abreast(p) /\ Engaged(p) /\ proc[p].tok \in Tokens
  BY Started DEF DriveInv, RunInv, TablesInv, Holding, Carries, Engaged, Aside, BeforeGraph, Fresh
<1>2. ASSUME NEW t, NEW n, t = proc[p].tok, n = proc[p].node
      PROVE  Fits(proc[p].tok, NodeOf(p))'
  <2>1. Fits(t, n)'
    BY <1>1, <1>2, FitsStays DEF NodeOf
  <2>2. NodeOf(p)' = n /\ proc'[p].tok = t
    BY <1>2 DEF NodeOf, Holding, Carries
  <2> QED
    BY <2>1, <2>2, FitsHere
<1>3. Fits(proc[p].tok, NodeOf(p))'
  BY <1>2
<1> QED
  BY <1>1, <1>3 DEF Abreast, Holding, Carries

\* One that is done with its node turns to the next one.
LEMMA SavingAbreast ==
    ASSUME NEW p, Procs = {p}, DriveInv(p), [Next]_vars, DriverStep(p), UNCHANGED ckpt,
           Carries(p), proc[p].pc # "save", proc[p].mode = "graph",
           proc'[p].pc = "save", proc'[p].mode = "graph",
           proc'[p].unsaved = proc[p].unsaved, run'[proc[p].tok].status # "failed",
           run'[proc[p].tok].status \in ActiveRun =>
               run'[proc[p].tok].status \in Reached(Successor(proc[p].node, proc'[p].out))
    PROVE  Abreast(p)'
<1>1. /\ TypeInv /\ p \in Procs /\ Abreast(p) /\ Engaged(p) /\ proc[p].tok \in Tokens
  BY Started DEF DriveInv, RunInv, TablesInv, Carries, Engaged, Aside, BeforeGraph, Fresh
<1>2. ASSUME NEW t, NEW n, NEW o, t = proc[p].tok, n = proc[p].node, o = proc'[p].out
      PROVE  Fits(proc[p].tok, NodeOf(p))'
  <2>1. Fits(t, n)'
    BY <1>1, <1>2, FitsStays DEF NodeOf
  <2>2. ASSUME NEW m, m = Successor(n, o) PROVE Fits(t, m)'
    <3>1. run'[t].status \in ActiveRun => run'[t].status \in Reached(m)
      BY <1>2, <2>2
    <3> QED
      BY <2>1, <2>2, <3>1, NodesFollow DEF Fits, FitsAt
  <2>3. NodeOf(p)' = Successor(n, o) /\ proc'[p].tok = t
    BY <1>2 DEF NodeOf, Following, Carries
  <2>4. ASSUME NEW m, m = Successor(n, o) PROVE Fits(proc[p].tok, NodeOf(p))'
    BY <2>2, <2>3, <2>4, FitsHere
  <2> QED
    BY <2>4
<1>3. Fits(proc[p].tok, NodeOf(p))'
  BY <1>2
<1> QED
  BY <1>1, <1>3 DEF Abreast, Carries, RunOf

\* One that fails leaves the run where the exception found it.
LEMMA FailingAbreast ==
    ASSUME NEW p, Procs = {p}, DriveInv(p), [Next]_vars, DriverStep(p), Fails(p)
    PROVE  Abreast(p)'
<1>1. /\ TypeInv /\ p \in Procs /\ Abreast(p) /\ Engaged(p) /\ proc[p].tok \in Tokens
      /\ proc[p].pc # "save" /\ ProcOK(proc[p])
      /\ ckpt \in [Tokens -> [node : Nodes \cup {"end"}, out : Conclusions]]
  BY Started DEF DriveInv, RunInv, TablesInv, Fails, Carries, Engaged, Aside, BeforeGraph, Fresh, TypeInv, CkptsOK,
                 Checkpoint
<1>2. ASSUME NEW t, NEW n, t = proc[p].tok, n = proc[p].node
      PROVE  Fits(proc[p].tok, NodeOf(p))'
  <2>1. Fits(t, n)'
    BY <1>1, <1>2, FitsStays DEF NodeOf
  <2>2. NodeOf(p)' = n /\ proc'[p].tok = t
    BY <1>2 DEF NodeOf, Fails, Carries
  <2> QED
    BY <2>1, <2>2, FitsHere
<1>3. Fits(proc[p].tok, NodeOf(p))'
  BY <1>2
<1>4. ckpt'[proc[p].tok].node = proc[p].node
  <2>1. CASE proc[p].unsaved
    <3>1. ckpt'[proc[p].tok] = PointsTo(proc[p].node, proc[p].out)
      BY <1>1, <2>1 DEF Fails, Flushes
    <3> QED
      BY <3>1 DEF PointsTo
  <2>2. CASE ~proc[p].unsaved
    BY <1>1, <2>2 DEF Fails, Abreast
  <2> QED
    BY <2>1, <2>2
<1>5. /\ proc'[p].err = "publication" => proc[p].node = "publish_pull_request"
      /\ proc'[p].err = "issue_publication" => proc[p].node = "publish_issue"
  BY <1>1 DEF Fails, Mishap, RaisedBy, LacksResult, ProcOK
<1>6. /\ proc'[p].tok = proc[p].tok /\ proc'[p].node = proc[p].node /\ proc'[p].pc = "fail"
      /\ proc'[p].unsaved = FALSE /\ proc'[p].mode = "final"
  BY DEF Fails, Carries
<1> QED
  BY <1>3, <1>4, <1>5, <1>6 DEF Abreast

\* What the steps of the driver leave in its memory fits the run it works on.
LEMMA AbreastStep ==
    ASSUME NEW p, Procs = {p}, DriveInv(p), [Next]_vars, DriverStep(p)
    PROVE  Abreast(p)'
<1>1. /\ TypeInv /\ TokensInv /\ p \in Procs /\ Abreast(p) /\ Working(p) /\ Purpose(p)
      /\ ProcOK(proc[p]) /\ proc[p] \in Process
      /\ proc[p].pc \notin Resting => proc[p].tok \in Tokens /\ proc[p].fid \in Feedback
      /\ ckpt \in [Tokens -> [node : Nodes \cup {"end"}, out : Conclusions]]
  BY Started DEF DriveInv, RunInv, OwnershipInv, TablesInv, Resting, TypeInv, CkptsOK,
                 Checkpoint
<1>2. ASSUME ~Engaged(p)' PROVE Abreast(p)'
  BY <1>2 DEF Abreast
<1>3. ASSUME Drops(p) PROVE Abreast(p)'
  BY <1>2, <1>3 DEF Drops, Idle, Engaged, Aside, BeforeGraph, Fresh
<1>4. ASSUME NEW t \in Tokens, NEW f \in Feedback, proc'[p] = Executing(t, f), UNCHANGED ckpt
      PROVE  Abreast(p)'
  <2>1. /\ proc'[p].tok = t /\ proc'[p].node = ckpt[t].node
        /\ proc'[p].mode = "graph" /\ proc'[p].pc = "node"
    BY <1>1, <1>4, ExecutingFields
  <2> QED
    BY <1>4, <2>1, TakenAbreast
<1>5. ASSUME Turns(p, proc[p].pc, "save"), UNCHANGED ckpt, proc[p].mode = "graph",
             proc[p].pc \in {"runget", "patch"},
             run'[proc[p].tok].status = RunMove(proc[p].node, proc[p].out)[2]
      PROVE  Abreast(p)'
  <2>1. Holding(p) /\ proc'[p].pc = "save"
    BY <1>5 DEF Turns
  <2>2. proc[p].node \in WritingNodes
    BY <1>1, <1>5 DEF ProcOK, WritingNodes
  <2>3. RunMove(proc[p].node, proc[p].out)[2] # "failed"
    BY DEF RunMove, mark_gating, complete_gate, mark_reproducing, complete_issue_publication,
           complete_reproduction, mark_validating, complete_repair_failure,
           complete_validation, complete_publication, exhaust_budget
  <2>4. RunMove(proc[p].node, proc[p].out)[2] \in ActiveRun =>
           RunMove(proc[p].node, proc[p].out)[2]
               \in Reached(Successor(proc[p].node, proc[p].out))
    BY <2>2, WritingReaches
  <2>5. /\ Carries(p) /\ proc'[p].out = proc[p].out /\ proc'[p].mode = "graph"
        /\ proc'[p].unsaved = proc[p].unsaved
    BY <1>5, <2>1 DEF Holding
  <2> QED
    BY <1>5, <2>1, <2>3, <2>4, <2>5, SavingAbreast
<1>6. CASE Outside
  <2>1. ASSUME Engaged(p), NEW t, NEW n, t = proc[p].tok, n = NodeOf(p)
        PROVE  Fits(proc[p].tok, NodeOf(p))'
    <3>1. Fits(t, n)'
      BY <1>1, <2>1, FitsStays DEF Engaged, Aside, BeforeGraph, Fresh, Resting
    <3>2. NodeOf(p)' = n /\ proc'[p].tok = t
      BY <1>6, <2>1 DEF Outside, NodeOf, Following
    <3> QED
      BY <3>1, <3>2, FitsHere
  <2>2. Engaged(p) => Fits(proc[p].tok, NodeOf(p))'
    BY <2>1
  <2>3. Engaged(p)' <=> Engaged(p)
    BY <1>6 DEF Outside, Engaged
  <2> QED
    BY <1>1, <1>6, <2>2, <2>3 DEF Outside, Abreast, RunOf
<1>7. CASE Silent(p)
  <2>1. CASE Thinks(p) /\ ~SeesRun(p) /\ UNCHANGED ckpt
    <3>1. /\ Holding(p) /\ proc[p].pc # "save" /\ proc'[p].pc # "save"
          /\ proc'[p].pc = "patch" /\ proc[p].mode = "graph" => AimsAtRun(p)
      BY <2>1 DEF Thinks, LooksForPull, AimsAtRow, FindsWritten, AimsAtVerdict, FindsVerdict,
                  Checks, ChecksReopen, FindsReopened, SeesRun, AimsAtRun, AimsAtEnd,
                  AimsAtRevival, Turns
    <3>2. AimsAtRun(p) => RunMove(proc[p].node, proc[p].out)[1] \in {proc'[p].seen, "any"}
      BY DEF AimsAtRun
    <3> QED
      BY <2>1, <3>1, <3>2, HoldingAbreast
  <2>2. CASE SeesRun(p) /\ UNCHANGED ckpt
    BY <1>5, <1>7, <2>2 DEF Silent, SeesRun, Turns, RunOf
  <2>3. CASE SavesEnd(p)
    BY <1>2, <2>3 DEF SavesEnd, Idle, Engaged, Aside
  <2>4. CASE TurnsToNext(p)
    <3>1. /\ proc[p].tok \in Tokens /\ proc[p].pc = "save" /\ Engaged(p)
          /\ proc'[p].pc = "node" /\ proc'[p].mode = "graph" /\ proc'[p].unsaved = TRUE
          /\ proc'[p].tok = proc[p].tok /\ proc'[p].node = Following(p)
      BY <1>1, <2>4 DEF TurnsToNext, Resting, Engaged, Aside, BeforeGraph
    <3>2. ASSUME NEW t, NEW n, t = proc[p].tok, n = NodeOf(p)
          PROVE  Fits(proc[p].tok, NodeOf(p))'
      <4>1. Fits(t, n)'
        BY <3>1, <3>2, FitsStays
      <4>2. NodeOf(p)' = n /\ proc'[p].tok = t
        BY <3>1, <3>2 DEF NodeOf
      <4> QED
        BY <4>1, <4>2, FitsHere
    <3>3. Fits(proc[p].tok, NodeOf(p))'
      BY <3>2
    <3> QED
      BY <3>1, <3>3 DEF Abreast
  <2>5. CASE CatchesUp(p)
    <3>1. /\ Engaged(p) /\ proc[p].mode = "graph" /\ proc[p].tok \in Tokens
          /\ proc[p].pc # "save" /\ UNCHANGED run
      BY <1>1, <1>7, <2>5 DEF CatchesUp, Working, Engaged, Aside, BeforeGraph, Resting, Silent
    <3>2. /\ proc'[p].tok = proc[p].tok /\ proc'[p].node = proc[p].node
          /\ proc'[p].out = proc[p].out /\ proc'[p].pc = proc[p].pc
          /\ proc'[p].mode = proc[p].mode /\ proc'[p].seen = proc[p].seen
      BY <1>1, <2>5, ApproachFields DEF Keeps
    <3>3. ASSUME NEW t, NEW n, t = proc[p].tok, n = NodeOf(p)
          PROVE  Fits(proc[p].tok, NodeOf(p))'
      <4>1. Fits(t, n)'
        BY <3>1, <3>3, FitsStays
      <4>2. NodeOf(p)' = n /\ proc'[p].tok = t
        BY <3>1, <3>2, <3>3 DEF NodeOf
      <4> QED
        BY <4>1, <4>2, FitsHere
    <3>4. Fits(proc[p].tok, NodeOf(p))'
      BY <3>3
    <3>5. ckpt'[proc[p].tok] = PointsTo(proc[p].node, proc[p].out)
      BY <1>1, <2>5, <3>1 DEF CatchesUp, Flushes
    <3>6. ckpt'[proc[p].tok].node = proc[p].node
      BY <3>5 DEF PointsTo
    <3> QED
      BY <1>1, <3>1, <3>2, <3>4, <3>6 DEF Abreast
  <2>6. CASE Polls(p) \/ SetsOut(p) \/ LooksUp(p) \/ Enters(p)
    BY <1>1, <1>2, <2>6, RestingNext DEF Engaged, Aside, BeforeGraph
  <2>7. CASE Resumes(p) /\ UNCHANGED ckpt
    BY <1>1, <1>4, <2>7 DEF Resumes, Resting
  <2>8. CASE Reopens(p)
    <3>1. proc'[p].pc = "get" /\ proc'[p].mode = "reopen" /\ proc'[p].node = proc[p].node
      BY <1>1, <2>8, ApproachFields DEF Keeps
    <3>2. proc[p].node = "end"
      BY <1>1, <2>8 DEF Reopens, Working
    <3> QED
      BY <3>1, <3>2, ReopeningAbreast
  <2>9. CASE FindsRevived(p)
    BY <1>2, <2>9 DEF FindsRevived, Reopened, Idle, Engaged, Aside, BeforeGraph
  <2>10. CASE Fails(p)
    BY <2>10, FailingAbreast
  <2> QED
    BY <1>3, <1>7, <2>1, <2>2, <2>3, <2>4, <2>5, <2>6, <2>7, <2>8, <2>9, <2>10 DEF Silent
<1>8. CASE Concluding(p)
  <2>1. /\ Decides(p) /\ UNCHANGED <<run, ckpt>> /\ Active(proc[p].tok)
    BY <1>1, <1>8 DEF Concluding, Decides, Carries, Working
  <2>2. proc[p].node \in Thinking
    BY <2>1 DEF Decides, Thinking
  <2>3. run[proc[p].tok].status \in Reached(proc[p].node)
    BY <1>1, <2>1 DEF Abreast, Fits, FitsAt, NodeOf, Decides, Carries, Active
  <2>4. run[proc[p].tok].status \in Reached(Successor(proc[p].node, proc'[p].out))
    BY <2>2, <2>3, ThinkingReaches
  <2>5. run[proc[p].tok].status # "failed"
    BY <2>1 DEF Active, ActiveRun
  <2> QED
    BY <2>1, <2>4, <2>5, SavingAbreast DEF Decides
<1>9. CASE WritesFeedback(p)
  <2>1. CASE (AimsAgain(p) \/ HasMoved(p)) /\ UNCHANGED ckpt
    BY <2>1, HoldingAbreast DEF AimsAgain, HasMoved, Turns
  <2> QED
    BY <1>3, <1>9, <2>1, FailingAbreast DEF WritesFeedback
<1>10. CASE WritesRun(p)
  <2>1. /\ proc[p].tok \in Tokens /\ proc[p].fid \in Feedback /\ proc[p].pc = "patch"
        /\ PatchedRow(p).status = proc[p].goal /\ run'[proc[p].tok] = PatchedRow(p)
    BY <1>1, <1>10, Started DEF WritesRun, Resting, Patched, PatchedRow, RunRow, TypeInv, RunsOK
  <2>2. CASE Turns(p, "patch", "save") /\ proc[p].mode = "graph" /\ UNCHANGED ckpt
    <3>1. proc[p].goal = RunMove(proc[p].node, proc[p].out)[2]
      BY <1>1, <2>1, <2>2 DEF Purpose
    <3> QED
      BY <1>5, <2>1, <2>2, <3>1
  <2>3. CASE proc'[p] = Reopened(proc[p].tok, proc[p].fid)
    BY <1>2, <2>3 DEF Reopened, Idle, Engaged, Aside, BeforeGraph
  <2> QED
    BY <1>3, <1>10, <2>2, <2>3, FailingAbreast DEF WritesRun
<1>11. CASE Queues(p)
  BY <1>2, <1>11 DEF Queues, Idle, Engaged, Aside, BeforeGraph, Fresh
<1>12. CASE StartsRun(p)
  BY <1>1, <1>3, <1>4, <1>12 DEF StartsRun, Resting
<1> QED
  BY <1>6, <1>7, <1>8, <1>9, <1>10, <1>11, <1>12 DEF DriverStep

\* Whoever goes on to the run row has found or left the feedback row as it should be.
LEMMA AheadStep ==
    ASSUME NEW p, Procs = {p}, DriveInv(p), [Next]_vars, DriverStep(p)
    PROVE  Ahead(p)'
<1>1. /\ RunInv /\ TypeInv /\ TokensInv /\ p \in Procs /\ Ahead(p) /\ Purpose(p)
      /\ ProcOK(proc[p]) /\ proc[p] \in Process /\ \A f \in Feedback : Waiting(f)
      /\ proc[p].pc \notin Resting => proc[p].tok \in Tokens /\ proc[p].fid \in Feedback
      /\ \A f \in Feedback : fb[f] \in FeedbackRow
  BY Started DEF DriveInv, RunInv, OwnershipInv, TablesInv, Resting, TypeInv, RowsOK
<1>2. ASSUME proc'[p].pc \notin {"runget", "patch"} PROVE Ahead(p)'
  BY <1>2 DEF Ahead
<1>3. ASSUME NEW t \in Tokens, NEW f, proc'[p] = Executing(t, f) PROVE Ahead(p)'
  BY <1>2, <1>3 DEF Executing, Idle
<1>4. ASSUME Drops(p) \/ Fails(p) PROVE Ahead(p)'
  BY <1>2, <1>4 DEF Drops, Fails, Idle
<1>5. ASSUME Holding(p), proc[p].pc \in {"runget", "patch"}, UNCHANGED <<fb, run>>
      PROVE  Ahead(p)'
  BY <1>1, <1>5 DEF Holding, Carries, Ahead, Owns, Created
<1>6. CASE Outside
  <2>1. CASE proc[p].pc \in {"runget", "patch"} /\ Owns(proc[p].tok)'
    <3>1. proc[p].tok \in Tokens /\ Created(proc[p].tok) /\ run[proc[p].tok].fid \in Feedback
      BY <1>1, <2>1, WorksOnCreated, CreatedHasFeedback DEF Resting, Fresh
    <3>2. fb'[run[proc[p].tok].fid].token = proc[p].tok
      BY <1>6, <2>1 DEF Outside, Owns
    <3>3. ~MovesOn(p, proc[p].tok)
      BY <2>1 DEF MovesOn, WritesFeedback
    <3>4. Owns(proc[p].tok) /\ RowKept(run[proc[p].tok].fid)
      BY <1>1, <3>1, <3>2, <3>3, OwnRow
    <3> QED
      BY <1>1, <1>6, <2>1, <3>4 DEF Outside, Ahead, RowKept
  <2>2. CASE ~(proc[p].pc \in {"runget", "patch"} /\ Owns(proc[p].tok)')
    BY <1>6, <2>2 DEF Outside, Ahead, Owns, Created
  <2> QED
    BY <2>1, <2>2
<1>7. CASE Silent(p)
  <2>1. ASSUME Engaged(p), Owns(proc[p].tok)
        PROVE  HasRow(p) /\ run[proc[p].tok].fid = proc[p].fid
    BY <1>1, <2>1 DEF Engaged, Aside, BeforeGraph, Fresh, Owns, HasRow, RowOf, TokensInv
  <2>2. CASE FindsWritten(p)
    BY <1>7, <2>1, <2>2 DEF Silent, FindsWritten, Turns, Holding, Carries, Ahead, RowOf, Owns,
                            Created, FinishNodes
  <2>3. CASE FindsVerdict(p)
    BY <1>7, <2>1, <2>3 DEF Silent, FindsVerdict, Turns, Holding, Carries, Ahead, RowOf, Owns,
                            Created
  <2>4. CASE FindsReopened(p)
    BY <2>4 DEF FindsReopened, Turns, Holding, Ahead
  <2>5. CASE AimsAtRun(p) \/ AimsAtEnd(p) \/ AimsAtRevival(p)
    BY <1>5, <1>7, <2>5 DEF Silent, AimsAtRun, AimsAtEnd, AimsAtRevival, Turns
  <2>6. CASE AimsAtRow(p) \/ AimsAtVerdict(p) \/ Checks(p) \/ ChecksReopen(p) \/ SeesRun(p)
    BY <1>2, <2>6 DEF AimsAtRow, AimsAtVerdict, Checks, ChecksReopen, SeesRun, Turns
  <2>7. CASE \/ SavesEnd(p) \/ Polls(p) \/ SetsOut(p) \/ LooksUp(p) \/ Enters(p)
             \/ FindsRevived(p)
    BY <1>1, <1>2, <2>7, RestingNext
  <2>9. CASE TurnsToNext(p) \/ LooksForPull(p) \/ Resumes(p)
    BY <1>2, <2>9 DEF TurnsToNext, LooksForPull, Turns, Resumes, Executing, Idle
  <2>10. CASE Reopens(p)
    BY <1>1, <1>2, <2>10, ApproachFields
  <2>8. CASE CatchesUp(p)
    <3>1. Keeps(p) /\ proc'[p].pc = proc[p].pc /\ proc'[p].mode = proc[p].mode
      BY <1>1, <2>8, ApproachFields
    <3> QED
      BY <1>1, <1>7, <3>1 DEF Silent, Keeps, Ahead, Owns, Created
  <2> QED
    BY <1>4, <1>7, <2>2, <2>3, <2>4, <2>5, <2>6, <2>7, <2>8, <2>9, <2>10 DEF Silent, Thinks
<1>8. CASE Concluding(p)
  BY <1>2, <1>8 DEF Concluding, Decides
<1>9. CASE WritesFeedback(p)
  <2>1. CASE HasMoved(p) /\ Owns(proc[p].tok)'
    <3>1. /\ proc[p].pc = "cas" /\ Matches(p) /\ fb' = Written(p) /\ UNCHANGED run
          /\ proc'[p].pc = "runget" /\ proc'[p].tok = proc[p].tok
          /\ proc'[p].node = proc[p].node /\ proc'[p].out = proc[p].out
          /\ proc'[p].mode = proc[p].mode
      BY <1>9, <2>1 DEF WritesFeedback, HasMoved, Turns, Holding, Carries
    <3>2. /\ run[proc[p].tok].fid = proc[p].fid /\ proc[p].tok \in Tokens
          /\ proc[p].fid \in Feedback
      BY <1>1, <3>1 DEF TokensInv, Resting, Fresh
    <3>3. fb'[proc[p].fid].token = proc[p].tok
      BY <2>1, <3>1, <3>2 DEF Owns
    <3>4. proc[p].tok # NoToken
      BY <3>2 DEF Tokens, NoToken
    <3>5. fb'[proc[p].fid].status = proc[p].goal
      BY <1>1, <3>1, <3>3, <3>4, WrittenFields
    <3>6. ASSUME proc[p].mode = "graph"
          PROVE  proc[p].goal \in AlreadyDone(proc[p].node, proc[p].out)
      <4>1. PICK m \in Moves(proc[p].node, proc[p].out) : proc[p].goal = m[2]
        BY <1>1, <3>1, <3>6 DEF Purpose
      <4>2. WrittenStatus(p).status = m[2]
        BY <1>1, <3>2, <4>1 DEF WrittenStatus, RowOf, FeedbackRow
      <4>3. \A k \in Moves(proc[p].node, proc[p].out) : ~Applicable(k, WrittenStatus(p))
        BY <2>1, <3>6 DEF HasMoved
      <4> QED
        BY <4>1, <4>2, <4>3, MovesDone
    <3>7. ASSUME proc[p].mode = "final"
          PROVE  proc[p].goal \notin Finalizable
      BY <1>1, <3>1, <3>7 DEF Purpose, FailureVerdicts, Finalizable
    <3> QED
      BY <3>1, <3>2, <3>5, <3>6, <3>7 DEF Ahead
  <2>2. CASE HasMoved(p) /\ ~Owns(proc[p].tok)'
    BY <2>2 DEF HasMoved, Turns, Holding, Carries, Ahead, Owns, Created
  <2>3. CASE AimsAgain(p)
    BY <1>2, <2>3 DEF AimsAgain, Turns
  <2> QED
    BY <1>4, <1>9, <2>1, <2>2, <2>3 DEF WritesFeedback
<1>10. CASE WritesRun(p)
  <2>1. CASE Turns(p, "patch", "save")
    BY <1>2, <2>1 DEF Turns
  <2> QED
    BY <1>2, <1>4, <1>10, <2>1 DEF WritesRun, Reopened, Idle
<1>11. CASE Queues(p)
  BY <1>2, <1>11 DEF Queues, Idle
<1>12. CASE StartsRun(p)
  BY <1>1, <1>3, <1>4, <1>12 DEF StartsRun, Resting
<1> QED
  BY <1>6, <1>7, <1>8, <1>9, <1>10, <1>11, <1>12 DEF DriverStep

\* A maintainer's retry keeps to what the run failed for, and writes the row first.
LEMMA RevivingStep ==
    ASSUME NEW p, Procs = {p}, DriveInv(p), [Next]_vars, DriverStep(p)
    PROVE  Reviving(p)'
<1>1. /\ RunInv /\ TypeInv /\ TokensInv /\ p \in Procs /\ Reviving(p)
      /\ ProcOK(proc[p]) /\ proc[p] \in Process
      /\ \A t \in Tokens : Agrees(t)
      /\ Working(p)
      /\ proc[p].pc \notin Resting => proc[p].tok \in Tokens /\ proc[p].fid \in Feedback
  BY Started DEF DriveInv, RunInv, OwnershipInv, TablesInv, Resting
<1>2. ASSUME ~Engaged(p)' \/ proc'[p].mode # "reopen" PROVE Reviving(p)'
  BY <1>2 DEF Reviving
<1>3. ASSUME NEW t, NEW f, proc'[p] = Executing(t, f) PROVE Reviving(p)'
  BY <1>2, <1>3 DEF Executing, Idle
<1>4. ASSUME Drops(p) \/ Fails(p) PROVE Reviving(p)'
  BY <1>2, <1>4 DEF Drops, Fails, Idle, Engaged, Aside, BeforeGraph, Fresh
<1>5. ASSUME Engaged(p)
      PROVE  /\ proc[p].tok \in Tokens /\ Created(proc[p].tok)
             /\ run[proc[p].tok].fid = proc[p].fid /\ proc[p].fid \in Feedback
  BY <1>1, <1>5, WorksOnCreated DEF Engaged, Aside, BeforeGraph, TokensInv, Resting, Fresh
<1>6. CASE Outside
  <2>1. ASSUME Engaged(p), proc[p].mode = "reopen", proc[p].pc \in {"runget", "patch"}
        PROVE  /\ Owns(proc[p].tok)'
               /\ fb'[run[proc[p].tok].fid].status = proc[p].goal
    <3>1. /\ Owns(proc[p].tok) /\ fb[run[proc[p].tok].fid].status = proc[p].goal
          /\ proc[p].goal \in {"publishing", "publishing_issue", "reproducing", "repairing"}
      BY <1>1, <2>1 DEF Reviving
    <3>2. RowWaits(run[proc[p].tok].fid)
      BY <1>5, <1>6, <2>1 DEF Outside
    <3>3. RowKept(run[proc[p].tok].fid)
      BY <3>1, <3>2 DEF RowWaits, Unowned
    <3> QED
      BY <1>6, <3>1, <3>3 DEF Outside, RowKept, Owns, Created
  <2> QED
    BY <1>1, <1>6, <2>1 DEF Outside, Reviving, Engaged, PublicationFailed, BudgetResumable,
                            InRepair, Owns, Created
<1>7. CASE Silent(p)
  <2>0. UNCHANGED <<fb, run>>
    BY <1>7 DEF Silent
  <2>1. CASE ChecksReopen(p) /\ UNCHANGED ckpt
    <3>1. /\ proc[p].pc = "get" /\ Engaged(p) /\ proc[p].mode = "reopen"
          /\ proc'[p].pc = "cas" /\ proc'[p].tok = proc[p].tok
          /\ proc'[p].err = RowOf(p).err /\ Reopenable(p, RowOf(p))
          /\ proc'[p].goal = IF RowOf(p).err = "issue_publication" THEN "publishing_issue"
                             ELSE proc[p].goal
      BY <2>1 DEF ChecksReopen, Turns, Holding, Carries
    <3>2. /\ proc[p].goal # "publishing_issue"
          /\ proc[p].goal = "publishing" => RowOf(p).err \in PublicationErrors
          /\ proc[p].goal # "publishing" => RowOf(p).err \in {"budget", "unexpected"}
      BY <1>1, <3>1 DEF Reviving, Reopenable
    <3>3. /\ proc[p].goal # "publishing" => proc'[p].goal = proc[p].goal
          /\ proc[p].goal = "publishing" => proc'[p].goal \in {"publishing", "publishing_issue"}
          /\ proc'[p].goal = "publishing" => proc'[p].err = "publication"
          /\ proc'[p].goal = "publishing_issue" => proc'[p].err = "issue_publication"
      BY <3>1, <3>2 DEF PublicationErrors
    <3> QED
      BY <1>1, <2>0, <2>1, <3>1, <3>2, <3>3
         DEF Reviving, PublicationFailed, BudgetResumable, InRepair
  <2>2. CASE FindsReopened(p) /\ UNCHANGED ckpt
    <3>1. /\ proc[p].pc = "get" /\ Engaged(p) /\ proc[p].mode = "reopen" /\ HasRow(p)
          /\ proc'[p].pc = "runget" /\ proc'[p].tok = proc[p].tok
          /\ proc'[p].goal = RowOf(p).status /\ AlreadyReopened(p, RowOf(p))
      BY <2>2 DEF FindsReopened, Turns, Holding, Carries
    <3>2. /\ proc[p].goal # "publishing" => proc'[p].goal = proc[p].goal
          /\ proc[p].goal = "publishing" => proc'[p].goal \in {"publishing", "publishing_issue"}
      BY <3>1 DEF AlreadyReopened
    <3>3. /\ Owns(proc[p].tok)'
          /\ fb[run[proc[p].tok].fid].status = proc'[p].goal
      BY <1>5, <2>0, <3>1 DEF HasRow, RowOf, Owns, Created
    <3> QED
      BY <1>1, <2>0, <2>2, <3>1, <3>2, <3>3
         DEF Reviving, PublicationFailed, BudgetResumable, InRepair, Owns, Created
  <2>3. CASE AimsAtRevival(p) /\ UNCHANGED ckpt
    <3>1. /\ proc[p].pc = "runget" /\ Engaged(p) /\ proc[p].mode = "reopen"
          /\ proc'[p].pc = "patch" /\ proc'[p].tok = proc[p].tok
          /\ proc'[p].goal = IF proc[p].goal \notin {"publishing", "publishing_issue"}
                             THEN proc[p].goal
                             ELSE IF RunOf(p).err = "issue_publication" THEN "publishing_issue"
                             ELSE "publishing"
      BY <2>3 DEF AimsAtRevival, Turns, Holding, Carries
    <3>2. Owns(proc[p].tok) /\ fb[run[proc[p].tok].fid].status = proc[p].goal
      BY <1>1, <3>1 DEF Reviving
    <3>3. ASSUME proc[p].goal \in {"publishing", "publishing_issue"}
          PROVE  proc'[p].goal = proc[p].goal
      <4>1. PublicationFailed(proc[p].tok)
        BY <1>1, <3>1, <3>3 DEF Reviving
      <4>2. proc[p].goal = IF run[proc[p].tok].err = "publication" THEN "publishing"
                           ELSE "publishing_issue"
        BY <1>1, <1>5, <3>1, <3>2, <3>3, <4>1 DEF Agrees
      <4>3. run[proc[p].tok].err \in PublicationErrors
        BY <4>1 DEF PublicationFailed, FailedPublication
      <4> QED
        BY <3>1, <3>3, <4>2, <4>3 DEF PublicationErrors, RunOf
    <3>4. proc'[p].goal = proc[p].goal
      BY <3>1, <3>3
    <3> QED
      BY <1>1, <2>0, <2>3, <3>1, <3>2, <3>4
         DEF Reviving, PublicationFailed, BudgetResumable, InRepair, Owns, Created
  <2>4. CASE Reopens(p) /\ UNCHANGED ckpt
    <3>1. /\ proc'[p].tok = proc[p].tok /\ proc'[p].pc = "get"
          /\ proc'[p].goal \in ReopenGoals(p)
      BY <1>1, <2>4, ApproachFields DEF Keeps
    <3>2. proc[p].seen = run[proc[p].tok].status /\ proc[p].err = run[proc[p].tok].err
      BY <1>1, <2>4 DEF Reopens, Working, RunOf
    <3>3. \/ proc'[p].goal = "publishing" /\ PublicationFailed(proc[p].tok)
          \/ /\ proc'[p].goal = "reproducing" /\ BudgetResumable(proc[p].tok)
             /\ ckpt[proc[p].tok].node \in ReproducingNodes
          \/ /\ proc'[p].goal = "repairing" /\ BudgetResumable(proc[p].tok)
             /\ ckpt[proc[p].tok].node \in RepairingNodes
      BY <3>1, <3>2 DEF ReopenGoals, PublicationFailed, BudgetResumable, InRepair
    <3> QED
      BY <2>0, <2>4, <3>1, <3>3 DEF Reviving, PublicationFailed, BudgetResumable, InRepair
  <2>5. CASE \/ AimsAtRow(p) \/ FindsWritten(p) \/ AimsAtVerdict(p) \/ FindsVerdict(p)
             \/ Checks(p) \/ SeesRun(p) \/ AimsAtRun(p) \/ AimsAtEnd(p)
    BY <1>2, <2>5 DEF AimsAtRow, FindsWritten, AimsAtVerdict, FindsVerdict, Checks, SeesRun,
                      AimsAtRun, AimsAtEnd, Turns, Holding
  <2>6. CASE LooksForPull(p) \/ TurnsToNext(p) \/ Resumes(p)
    BY <1>2, <2>6 DEF LooksForPull, Turns, Holding, TurnsToNext, Resumes, Executing, Idle
  <2>7. CASE \/ SavesEnd(p) \/ Polls(p) \/ SetsOut(p) \/ LooksUp(p) \/ Enters(p)
             \/ FindsRevived(p)
    <3>1. proc'[p].pc \in Aside
      BY <1>1, <2>7, RestingNext DEF Aside, BeforeGraph
    <3> QED
      BY <1>2, <3>1 DEF Engaged
  <2>8. CASE CatchesUp(p)
    <3>1. proc'[p].mode = "graph"
      BY <1>1, <2>8, ApproachFields DEF CatchesUp, Working
    <3> QED
      BY <1>2, <3>1
  <2> QED
    BY <1>4, <1>7, <2>1, <2>2, <2>3, <2>4, <2>5, <2>6, <2>7, <2>8 DEF Silent, Thinks
<1>8. CASE Concluding(p)
  BY <1>2, <1>8 DEF Concluding, Decides
<1>9. CASE WritesFeedback(p)
  <2>1. CASE HasMoved(p) /\ proc[p].mode = "reopen" /\ UNCHANGED ckpt
    <3>1. /\ proc[p].pc = "cas" /\ Engaged(p) /\ Matches(p) /\ fb' = Written(p)
          /\ UNCHANGED run /\ proc'[p].pc = "runget" /\ proc'[p].tok = proc[p].tok
          /\ proc'[p].goal = proc[p].goal
      BY <1>9, <2>1 DEF WritesFeedback, HasMoved, Turns, Holding, Carries
    <3>2. proc[p].goal # "pending"
      BY <1>1, <2>1, <3>1 DEF Reviving
    <3>3. fb'[proc[p].fid].status = proc[p].goal /\ fb'[proc[p].fid].token = proc[p].tok
      BY <1>1, <3>1, <3>2, WrittenFields
    <3>4. Owns(proc[p].tok)' /\ fb'[run[proc[p].tok].fid].status = proc[p].goal
      BY <1>5, <3>1, <3>3 DEF Owns, Created
    <3> QED
      BY <1>1, <2>1, <3>1, <3>4 DEF Reviving, PublicationFailed, BudgetResumable, InRepair,
                                    Owns, Created
  <2>2. CASE HasMoved(p) /\ proc[p].mode # "reopen"
    BY <1>2, <2>2 DEF HasMoved, Turns, Holding
  <2>3. CASE AimsAgain(p)
    BY <1>2, <2>3 DEF AimsAgain, Turns, Holding
  <2> QED
    BY <1>4, <1>9, <2>1, <2>2, <2>3 DEF WritesFeedback
<1>10. CASE WritesRun(p)
  <2>1. CASE Turns(p, "patch", "save") /\ proc[p].mode = "graph"
    BY <1>2, <2>1 DEF Turns, Holding
  <2> QED
    BY <1>2, <1>4, <1>10, <2>1
       DEF WritesRun, Reopened, Idle, Engaged, Aside, BeforeGraph
<1>11. CASE Queues(p)
  BY <1>2, <1>11 DEF Queues, Idle, Engaged, Aside, BeforeGraph, Fresh
<1>12. CASE StartsRun(p)
  BY <1>3, <1>4, <1>12 DEF StartsRun
<1> QED
  BY <1>6, <1>7, <1>8, <1>9, <1>10, <1>11, <1>12 DEF DriverStep

\* All of it together.
LEMMA DriveInit ==
    ASSUME NEW p, Procs = {p}, Init
    PROVE  DriveInv(p)
<1>1. RunInv /\ p \in Procs
  BY TypeInit, OwnershipInit DEF RunInv
<1>2. Working(p) /\ Purpose(p) /\ Abreast(p) /\ Ahead(p) /\ Reviving(p)
  BY <1>1 DEF Init, Working, Purpose, Abreast, Ahead, Reviving, Engaged, Aside, BeforeGraph, Fresh, Idle
<1>3. ASSUME NEW f \in Feedback PROVE Waiting(f)
  BY <1>3 DEF Init, Waiting, NoToken, Tokens
<1>4. ASSUME NEW t \in Tokens PROVE Threaded(t) /\ Agrees(t)
  <2>1. /\ run[t].status = "none" /\ ckpt[t].node = "start_gate" /\ moved = {}
    BY <1>4 DEF Init
  <2> QED
    BY <2>1 DEF Threaded, Agrees, Fits, FitsAt, RowErr, Owns, Created, Active, ActiveRun,
                PublicationFailed, FailedPublication
<1> QED
  BY <1>1, <1>2, <1>3, <1>4 DEF DriveInv, TablesInv

LEMMA DriveStep ==
    ASSUME NEW p, Procs = {p}, DriveInv(p), [Next]_vars
    PROVE  DriveInv(p)'
<1>1. /\ RunInv /\ TypeInv /\ TokensInv /\ PositionsInv /\ Working(p) /\ Purpose(p)
      /\ WorksOnRun /\ p \in Procs
  BY DEF DriveInv, RunInv, OwnershipInv
<1>2. DriverStep(p)
  BY <1>1, OnlyDriver
<1>3. RunInv' /\ Working(p)' /\ Purpose(p)'
  BY <1>1, <1>2, RunInvStep, WorkingStep, PurposeStep
<1>4. \A t \in Tokens : Threaded(t)' /\ Agrees(t)'
  BY <1>2, ThreadedStep, AgreesStep
<1>5. \A f \in Feedback : Waiting(f)'
  BY <1>1, <1>2, WaitingStep DEF DriveInv, TablesInv
<1>6. Abreast(p)' /\ Ahead(p)' /\ Reviving(p)'
  BY <1>2, AbreastStep, AheadStep, RevivingStep
<1> QED
  BY <1>3, <1>4, <1>5, <1>6 DEF DriveInv, TablesInv

\* Whether one scheduler drives the runs or one maintainer, and whatever fails: the row
\* an active run owns is at the stage of the run, one node ahead of it, or has the
\* verdict the run is about to get (the finish_ nodes write the feedback row first, and
\* mark_gating to complete_validation follow).
THEOREM TablesAgree ==
    ASSUME NEW d, Procs = {d}
    PROVE  Spec => []StagesAgree
<1>1. DriveInv(d) => StagesAgree
  <2> SUFFICES ASSUME DriveInv(d) PROVE StagesAgree
    OBVIOUS
  <2>1. \A t \in Tokens : Agrees(t)
    BY DEF DriveInv, TablesInv
  <2>2. \A t \in Tokens : Active(t) /\ Owns(t) =>
            fb[run[t].fid].status \in Stage(run[t].status)
    BY <2>1 DEF Agrees
  <2> QED
    BY <2>2 DEF StagesAgree, Stage
<1>2. Init => DriveInv(d)
  BY DriveInit
<1>3. DriveInv(d) /\ [Next]_vars => DriveInv(d)'
  BY DriveStep
<1> QED
  BY <1>1, <1>2, <1>3, PTL DEF Spec

\* ... and a run that can be resumed owns its feedback, but before its first node and
\* after it has given a stale feedback back (claim_next_agent_feedback,
\* complete_stale_base).
THEOREM ActiveRunOwns ==
    ASSUME NEW d, Procs = {d}
    PROVE  Spec => []ActiveRunOwnsFeedback
<1>1. DriveInv(d) => ActiveRunOwnsFeedback
  <2> SUFFICES ASSUME DriveInv(d), NEW t \in Tokens, Active(t), ~Owns(t),
                      run[t].status # "created"
               PROVE  run[t].status = "publishing" /\ t \in moved
    BY DEF ActiveRunOwnsFeedback
  <2>1. Agrees(t)
    BY DEF DriveInv, TablesInv
  <2> QED
    BY <2>1 DEF Agrees, Holds
<1>2. Init => DriveInv(d)
  BY DriveInit
<1>3. DriveInv(d) /\ [Next]_vars => DriveInv(d)'
  BY DriveStep
<1> QED
  BY <1>1, <1>2, <1>3, PTL DEF Spec

-----------------------------------------------------------------------------
(* The third layer: what a run that has ended leaves behind *)

\* Only a row whose patch has passed gets to publication, ...
Passed(t) == Owns(t) /\ fb[run[t].fid].status \in {"validated", "publishing"} =>
    verdict[t] = "passed"

\* ... an ended run has its row settled, but for the exceptions of
\* OnlyUnfinalizedStranded, ...
Kempt(t) ==
    Owns(t) /\ run[t].status \in TerminalRun /\ fb[run[t].fid].status \in InFlight
        => MayBeReopened(t) \/ LeftBehind(t)

\* ... and always where the graph ended it, whose checkpoint is still to come.
Closing(p) == proc[p].pc = "save" /\ Owns(proc[p].tok) /\ RunOf(p).status \in TerminalRun =>
    fb[run[proc[p].tok].fid].status \notin InFlight

KeptInv(p) == /\ DriveInv(p) /\ SafetyInv
              /\ \A t \in Tokens : Passed(t) /\ Kempt(t)
              /\ Closing(p)

\* Where a node ends the run, it has settled the row, but that finish_validation would
\* take a row that is being published for its own work.
LEMMA EndSettles ==
    ASSUME NEW n \in FinishNodes, NEW out, Handed(n, out), RunMove(n, out)[2] \notin ActiveRun,
           NEW s \in AlreadyDone(n, out), s \in InFlight
    PROVE  n = "finish_validation" /\ out # "passed" /\ s = "publishing"
<1>1. CASE n \in {"start_gate", "finish_repair_success"}
  BY <1>1 DEF RunMove, mark_gating, mark_validating, ActiveRun
<1>2. CASE n = "route_feedback"
  <2>1. s = out
    BY <1>2 DEF AlreadyDone, Moves, RouteFeedbackMoves
  <2>2. out \notin {"reproducing", "publishing_issue"}
    BY <1>2 DEF RunMove, complete_gate, ActiveRun
  <2> QED
    BY <1>2, <2>1, <2>2 DEF Handed, Routes, InFlight
<1>3. CASE n = "finish_reproduction"
  <2>1. out \notin Reproduced
    <3>1. RunMove(n, out) = complete_reproduction(out)
      BY <1>3 DEF RunMove
    <3>2. out \in Reproduced => complete_reproduction(out)[2] = "repairing"
      BY DEF complete_reproduction, Reproduced
    <3> QED
      BY <3>1, <3>2 DEF ActiveRun
  <2> QED
    BY <1>3, <2>1 DEF AlreadyDone, Moves, FinishReproductionMoves, InFlight
<1>4. CASE n = "finish_agent_blocked"
  BY <1>4 DEF AlreadyDone, Moves, FinishAgentBlockedMoves, Handed, InFlight
<1>5. CASE n \in {"finish_issue_publication", "finish_repair_failure",
                  "finish_budget_exhausted"}
  BY <1>5 DEF AlreadyDone, Moves, FinishIssuePublicationMoves, FinishRepairFailureMoves,
              FinishBudgetExhaustedMoves, InFlight
<1>6. CASE n = "finish_validation"
  <2>1. out # "passed"
    BY <1>6 DEF RunMove, complete_validation, ActiveRun
  <2> QED
    BY <1>6, <2>1 DEF AlreadyDone, Moves, FinishValidationMoves, InFlight
<1>7. CASE n = "finish_publication"
  <2>1. CASE out = "opened"
    BY <1>7, <2>1 DEF AlreadyDone, Moves, FinishPublicationMoves, InFlight
  <2>2. CASE out # "opened"
    <3>1. Moves(n, out) = {<<"publishing", "stale_base">>, <<"stale_base", "pending">>,
                           <<"stale_base", "needs_human">>}
      BY <1>7, <2>2 DEF Moves, FinishPublicationMoves
    <3>2. /\ {m[2] : m \in Moves(n, out)} = {"stale_base", "pending", "needs_human"}
          /\ {m[1] : m \in Moves(n, out)} = {"publishing", "stale_base"}
      BY <3>1
    <3> QED
      BY <1>7, <3>2 DEF AlreadyDone, InFlight
  <2> QED
    BY <2>1, <2>2
<1> QED
  BY <1>1, <1>2, <1>3, <1>4, <1>5, <1>6, <1>7 DEF FinishNodes

\* Only finish_validation, told that the patch has passed, takes a row to publication.
LEMMA PassedMoves ==
    ASSUME NEW n, NEW out, Handed(n, out), NEW m \in Moves(n, out),
           m[2] \in {"validated", "publishing"}
    PROVE  n = "finish_validation" /\ out = "passed"
<1>1. CASE n = "route_feedback"
  BY <1>1 DEF Moves, RouteFeedbackMoves, Handed, Routes
<1>2. CASE n \in {"finish_reproduction", "finish_agent_blocked", "finish_repair_failure"}
  BY <1>2 DEF Moves, FinishReproductionMoves, FinishAgentBlockedMoves,
              FinishRepairFailureMoves, Handed
<1>3. CASE n \in {"finish_validation", "finish_publication"}
  BY <1>3 DEF Moves, FinishValidationMoves, FinishPublicationMoves
<1>4. CASE n \in {"start_gate", "finish_issue_publication", "finish_repair_success",
                  "finish_budget_exhausted"}
  BY <1>4 DEF Moves, StartGateMoves, FinishIssuePublicationMoves, FinishRepairSuccessMoves,
              FinishBudgetExhaustedMoves
<1> QED
  BY <1>1, <1>2, <1>3, <1>4 DEF Moves

\* A run that is created, or was never, has no row at a later stage.
LEMMA UnusedRow ==
    ASSUME RunInv, NEW t \in Tokens, ~Created(t), NEW f \in Feedback, fb[f].token = t
    PROVE  fb[f].status \notin InFlight
BY RunAssumption
   DEF RunInv, OwnershipInv, RowsInv, TokensInv, NoFeedback, RunAssumption, Created

\* A row goes to publication when its patch has passed.
LEMMA PassedStep ==
    ASSUME NEW p, Procs = {p}, KeptInv(p), [Next]_vars, DriverStep(p), NEW t \in Tokens
    PROVE  Passed(t)'
<1>1. /\ RunInv /\ TypeInv /\ TokensInv /\ AimsInv /\ p \in Procs
      /\ proc[p] \in Process /\ ProcOK(proc[p]) /\ Purpose(p) /\ Abreast(p) /\ Reviving(p)
      /\ Threaded(t) /\ Passed(t) /\ SafetyInv /\ \A f \in Feedback : Waiting(f)
  BY Started DEF KeptInv, DriveInv, RunInv, OwnershipInv, TablesInv
<1>2. Grows
  BY <1>1, StepGrows DEF SafetyInv
<1> SUFFICES ASSUME Owns(t)', fb'[run'[t].fid].status \in {"validated", "publishing"}
             PROVE  verdict'[t] = "passed"
  BY DEF Passed
<1>3. CASE Created(t)
  <2>1. run[t].fid \in Feedback /\ run'[t].fid = run[t].fid
    BY <1>1, <1>3, CreatedHasFeedback, CreatedStays
  <2>2. verdict[t] = "passed" => verdict'[t] = "passed"
    BY <1>2, <2>1 DEF Grows
  <2>3. fb'[run[t].fid].token = t
    BY <2>1 DEF Owns
  <2>4. CASE Owns(t) /\ RowKept(run[t].fid)
    BY <1>1, <2>1, <2>2, <2>4 DEF Passed, RowKept
  <2>5. CASE MovesOn(p, t)
    <3>1. /\ proc[p].pc = "cas" /\ Engaged(p) /\ Matches(p) /\ proc[p].tok = t
          /\ proc[p].fid = run[t].fid /\ Owns(t)
          /\ fb'[run[t].fid].status = proc[p].goal
      BY <2>5 DEF MovesOn, WritesFeedback, Engaged, Aside, BeforeGraph, Fresh
    <3>2. CASE proc[p].mode = "graph"
      <4>1. PICK m \in Moves(proc[p].node, proc[p].out) : proc[p].goal = m[2]
        BY <1>1, <3>1, <3>2 DEF Purpose
      <4>2. proc[p].node = "finish_validation" /\ proc[p].out = "passed"
        BY <1>1, <2>1, <3>1, <4>1, PassedMoves DEF ProcOK
      <4>3. verdict[t] = "passed"
        BY <1>1, <3>1, <4>2 DEF SafetyInv, ProcsSound, Sound, Cleared, Fresh
      <4> QED
        BY <2>2, <4>3
    <3>3. CASE proc[p].mode = "final"
      BY <1>1, <2>1, <3>1, <3>3 DEF Purpose, FailureVerdicts
    <3>4. CASE proc[p].mode = "reopen"
      <4>1. proc[p].goal = "publishing" /\ PublicationFailed(t)
        BY <1>1, <2>1, <3>1, <3>4 DEF Reviving
      <4>2. fb[run[t].fid].err = "publication"
        BY <1>1, <3>1, <3>4, <4>1 DEF Reviving, Matches
      <4>3. ckpt[t].node \in PullNodes
        BY <1>1, <3>1, <4>2 DEF Threaded, Fits, FitsAt, RowErr
      <4>4. ckpt[t].node = "publish_pull_request"
        BY <1>1, <4>1, <4>3
           DEF Threaded, PublicationFailed, FailedPublication, PublicationErrors, PullNodes
      <4>5. verdict[t] = "passed"
        BY <1>1, <4>4 DEF SafetyInv, ThreadsCleared, Cleared
      <4> QED
        BY <2>2, <4>5
    <3> QED
      BY <1>1, <3>2, <3>3, <3>4 DEF Process
  <2> QED
    BY <1>1, <1>3, <2>3, <2>4, <2>5, OwnRow
<1>4. CASE ~Created(t)
  <2>1. run'[t].status # "none" /\ run'[t].status # run[t].status
    BY <1>4 DEF Owns, Created
  <2>2. StartsAs(p, t)
    BY <1>1, <1>4, <2>1, OwnRun DEF PatchesAs
  <2>3. /\ fb' = fb /\ run'[t].fid \in Feedback
    BY <1>1, <2>2, Started DEF StartsAs, StartsRun
  <2>4. fb[run'[t].fid].token = t
    BY <2>3 DEF Owns
  <2> QED
    BY <1>1, <1>4, <2>3, <2>4, UnusedRow DEF InFlight
<1> QED
  BY <1>3, <1>4

\* Where the graph ends a run, the row is settled.
LEMMA EndIsSettled ==
    ASSUME NEW p, Procs = {p}, KeptInv(p), NEW t \in Tokens, PatchesAs(p, t), Owns(t),
           proc[p].mode = "graph", proc[p].goal \notin ActiveRun
    PROVE  fb[run[t].fid].status \notin InFlight
<1> DEFINE n == proc[p].node
           out == proc[p].out
           s == fb[run[t].fid].status
<1>1. /\ p \in Procs /\ ProcOK(proc[p]) /\ Ahead(p) /\ Passed(t) /\ ProcsSound /\ DriveInv(p)
  BY Started DEF KeptInv, DriveInv, RunInv, TablesInv, SafetyInv
<1>2. proc[p].pc = "patch" /\ proc[p].tok = t
  BY DEF PatchesAs, WritesRun
<1>3. n \in WritingNodes /\ proc[p].goal = RunMove(n, out)[2]
  BY <1>1, PatchIs
<1>4. n \in FinishNodes
  BY <1>3 DEF WritingNodes, RunMove, mark_reproducing, ActiveRun
<1>5. s \in AlreadyDone(n, out) /\ Handed(n, out)
  BY <1>1, <1>2, <1>4 DEF Ahead, ProcOK
<1>6. ASSUME s \in InFlight PROVE FALSE
  <2>1. n = "finish_validation" /\ out # "passed" /\ s = "publishing"
    <3> HIDE DEF n, out, s
    <3> QED
      BY <1>3, <1>4, <1>5, <1>6, EndSettles
  <2>2. verdict[t] = out
    BY <1>1, <1>2, <2>1 DEF ProcsSound, Sound, Cleared, Fresh
  <2> QED
    BY <1>1, <2>1, <2>2 DEF Passed
<1> QED
  BY <1>6

\* A run that ends leaves no more behind than the theorem says, ...
LEMMA KemptStep ==
    ASSUME NEW p, Procs = {p}, KeptInv(p), [Next]_vars, DriverStep(p), NEW t \in Tokens
    PROVE  Kempt(t)'
<1>1. /\ RunInv /\ TypeInv /\ TokensInv /\ p \in Procs /\ DriveInv(p)
      /\ proc[p] \in Process /\ Working(p) /\ Purpose(p) /\ Ahead(p) /\ Reviving(p)
      /\ Kempt(t) /\ Closing(p) /\ \A f \in Feedback : Waiting(f)
  BY Started DEF KeptInv, DriveInv, RunInv, OwnershipInv, TablesInv
<1> SUFFICES ASSUME Owns(t)', run'[t].status \in TerminalRun,
                    fb'[run'[t].fid].status \in InFlight
             PROVE  MayBeReopened(t)' \/ LeftBehind(t)'
  BY DEF Kempt
<1>2. CASE run'[t] = run[t]
  <2>1. Created(t) /\ fb'[run[t].fid].token = t /\ run[t].status \in TerminalRun /\ ~Active(t)
    BY <1>2 DEF Owns, Created, Active, TerminalRun, ActiveRun
  <2>2. ASSUME Owns(t), RowKept(run[t].fid)
        PROVE  MayBeReopened(t)' \/ LeftBehind(t)'
    <3>1. fb[run[t].fid].status \in InFlight
      BY <1>2, <2>2 DEF RowKept
    <3>2. MayBeReopened(t) \/ LeftBehind(t)
      BY <1>1, <2>1, <2>2, <3>1 DEF Kempt
    <3>3. ckpt'[t] = ckpt[t]
      <4>1. ~(SavesEnd(p) /\ proc[p].tok = t)
        BY <1>1, <2>1, <2>2, <3>1 DEF Closing, SavesEnd, RunOf
      <4>2. ~(Engaged(p) /\ proc[p].tok = t /\ proc[p].mode = "graph" /\ proc[p].pc # "save")
        BY <1>1, <2>1 DEF Working
      <4> QED
        BY <1>1, <4>1, <4>2, OwnThread
    <3>4. MayBeReopened(t) => MayBeReopened(t)'
      BY <1>2, <3>3 DEF MayBeReopened, InRepair
    <3>5. LeftBehind(t) => LeftBehind(t)'
      BY <1>2, <2>2 DEF LeftBehind, RowKept
    <3> QED
      BY <3>2, <3>4, <3>5
  <2>3. ASSUME MovesOn(p, t)
        PROVE  MayBeReopened(t)'
    <3>1. /\ proc[p].pc = "cas" /\ Engaged(p) /\ proc[p].tok = t
          /\ fb'[run[t].fid].status = proc[p].goal
      BY <2>3 DEF MovesOn, WritesFeedback, Engaged, Aside, BeforeGraph, Fresh
    <3>2. proc[p].mode # "graph"
      BY <1>1, <2>1, <3>1 DEF Working
    <3>3. proc[p].mode # "final"
      BY <1>1, <1>2, <3>1 DEF Purpose, FailureVerdicts, InFlight
    <3>4. proc[p].mode = "reopen"
      BY <1>1, <3>2, <3>3 DEF Process
    <3>5. PublicationFailed(t) \/ BudgetResumable(t)
      BY <1>1, <3>1, <3>4 DEF Reviving
    <3>6. ckpt'[t] = ckpt[t]
      BY <1>1, <3>4, OwnThread
    <3> QED
      BY <1>2, <3>5, <3>6 DEF PublicationFailed, BudgetResumable, MayBeReopened, InRepair
  <2> QED
    BY <1>1, <2>1, <2>2, <2>3, OwnRow
<1>3. CASE StartsAs(p, t)
  BY <1>3 DEF StartsAs, TerminalRun
<1>4. CASE PatchesAs(p, t)
  <2>1. /\ fb' = fb /\ run'[t].fid = run[t].fid /\ Created(t) /\ Engaged(p)
        /\ proc[p].pc = "patch" /\ proc[p].tok = t /\ run'[t].status = proc[p].goal
    BY <1>4 DEF PatchesAs, WritesRun
  <2>2. Owns(t) /\ fb[run[t].fid].status \in InFlight /\ proc[p].goal \notin ActiveRun
    BY <2>1 DEF Owns, TerminalRun, ActiveRun
  <2>3. proc[p].mode # "graph"
    BY <1>4, <2>2, EndIsSettled
  <2>4. proc[p].mode # "reopen"
    BY <1>1, <1>4, <2>2, PatchIs
  <2>5. proc[p].mode = "final"
    BY <1>1, <2>3, <2>4 DEF Process
  <2>6. proc[p].goal = FailedRun(proc[p].err)
    BY <1>1, <2>1, <2>5 DEF Purpose
  <2>7. proc[p].goal # "completed"
    BY <2>6 DEF FailedRun
  <2>8. fb[run[t].fid].status \in {"validated", "stale_base"}
    BY <1>1, <2>1, <2>2, <2>5 DEF Ahead, Finalizable, InFlight
  <2> QED
    BY <2>1, <2>7, <2>8 DEF LeftBehind
<1> QED
  BY <1>1, <1>2, <1>3, <1>4, OwnRun

\* A process comes to the end of a node by a conclusion, by finding the run row written,
\* or by writing it.
LEMMA ToSave ==
    ASSUME RunInv, NEW p, Procs = {p}, DriverStep(p), proc'[p].pc = "save"
    PROVE  \/ Outside
           \/ /\ Engaged(p) /\ proc[p].mode = "graph" /\ proc[p].pc # "save"
              /\ UNCHANGED run /\ proc'[p].tok = proc[p].tok
           \/ WritesRun(p) /\ Turns(p, "patch", "save") /\ proc[p].mode = "graph"
<1>1. p \in Procs /\ proc[p] \in Process
  BY Started DEF RunInv
<1>2. ~Drops(p) /\ ~Fails(p) /\ ~SavesEnd(p) /\ ~TurnsToNext(p)
  BY DEF Drops, Fails, SavesEnd, TurnsToNext, Idle
<1>3. ~CatchesUp(p)
  BY <1>1 DEF CatchesUp, Process
<1>4. ~(Polls(p) \/ SetsOut(p) \/ Resumes(p) \/ FindsRevived(p))
  BY DEF Polls, SetsOut, Resumes, FindsRevived, Resuming, Executing, Reopened, Idle
<1>5. ~(LooksUp(p) \/ Enters(p) \/ Reopens(p))
  BY <1>1 DEF LooksUp, Enters, Reopens, Process
<1>6. ASSUME Thinks(p)
      PROVE  SeesRun(p)
  BY <1>6 DEF Thinks, LooksForPull, AimsAtRow, FindsWritten, AimsAtVerdict, FindsVerdict, Checks,
              ChecksReopen, FindsReopened, AimsAtRun, AimsAtEnd, AimsAtRevival, Turns
<1>7. CASE Silent(p)
  <2>1. SeesRun(p) /\ UNCHANGED run
    BY <1>2, <1>3, <1>4, <1>5, <1>6, <1>7 DEF Silent
  <2> QED
    BY <2>1 DEF SeesRun, Turns, Holding, Carries
<1>8. CASE Concluding(p)
  BY <1>8 DEF Concluding, Decides, Carries
<1>9. ~WritesFeedback(p)
  BY <1>2 DEF WritesFeedback, AimsAgain, HasMoved, Turns
<1>10. CASE WritesRun(p)
  BY <1>2, <1>10 DEF WritesRun, Reopened, Idle
<1>11. ~Queues(p)
  BY DEF Queues, Idle
<1>12. ~StartsRun(p)
  BY <1>2 DEF StartsRun, Executing, Idle
<1> QED
  BY <1>7, <1>8, <1>9, <1>10, <1>11, <1>12 DEF DriverStep

\* ... and nothing where the graph has come to its end.
LEMMA ClosingStep ==
    ASSUME NEW p, Procs = {p}, KeptInv(p), [Next]_vars, DriverStep(p)
    PROVE  Closing(p)'
<1>1. /\ RunInv /\ TypeInv /\ p \in Procs /\ DriveInv(p) /\ proc[p] \in Process
      /\ Working(p) /\ Closing(p)
  BY Started DEF KeptInv, DriveInv, RunInv
<1> SUFFICES ASSUME NEW t, t = proc'[p].tok, proc'[p].pc = "save", Owns(t)',
                    run'[t].status \in TerminalRun
             PROVE  fb'[run'[t].fid].status \notin InFlight
  BY DEF Closing, RunOf
<1>2. CASE Outside
  <2>1. /\ proc' = proc /\ run' = run /\ Created(t) /\ fb'[run[t].fid].token = t
        /\ proc[p].pc = "save" /\ proc[p].tok = t /\ run[t].status \in TerminalRun
    BY <1>2 DEF Outside, Owns, Created
  <2>2. t \in Tokens /\ run[t].fid \in Feedback
    BY <1>1, <2>1, Started DEF RunInv, WorksOnRun, Fresh
  <2>3. RowWaits(run[t].fid)
    BY <1>2, <2>2 DEF Outside
  <2>4. CASE RowKept(run[t].fid)
    BY <1>1, <2>1, <2>4 DEF RowKept, Closing, Owns, RunOf
  <2> QED
    BY <2>1, <2>3, <2>4 DEF RowWaits, InFlight
<1>3. CASE /\ Engaged(p) /\ proc[p].mode = "graph" /\ proc[p].pc # "save"
           /\ UNCHANGED run /\ proc'[p].tok = proc[p].tok
  BY <1>1, <1>3 DEF Working, Active, ActiveRun, TerminalRun
<1>4. CASE WritesRun(p) /\ Turns(p, "patch", "save") /\ proc[p].mode = "graph"
  <2>1. /\ proc[p].tok = t /\ proc[p].pc = "patch" /\ fb' = fb /\ run' = Patched(p)
    BY <1>4 DEF WritesRun, Turns, Holding, Carries
  <2>2. t \in Tokens
    BY <1>1, <2>1, Started
  <2>3. ~StartsAs(p, t)
    BY <2>1 DEF StartsAs, StartsRun
  <2>4. run'[t] = run[t] \/ PatchesAs(p, t)
    BY <1>1, <2>2, <2>3, OwnRun
  <2>5. run'[t] # run[t]
    <3>1. Active(t)
      BY <1>1, <1>4, <2>1 DEF Working, Turns, Holding, Carries
    <3> QED
      BY <3>1 DEF Active, ActiveRun, TerminalRun
  <2>6. PatchesAs(p, t) /\ run'[t].fid = run[t].fid /\ Created(t)
    BY <2>4, <2>5 DEF PatchesAs
  <2>7. Owns(t) /\ proc[p].goal \notin ActiveRun
    BY <2>1, <2>6 DEF Owns, PatchesAs, TerminalRun, ActiveRun
  <2> QED
    BY <1>4, <2>1, <2>2, <2>6, <2>7, EndIsSettled
<1> QED
  BY <1>1, <1>2, <1>3, <1>4, ToSave

\* All of it together.
LEMMA KeptInit ==
    ASSUME NEW p, Procs = {p}, Init
    PROVE  KeptInv(p)
<1>1. DriveInv(p) /\ SafetyInv /\ p \in Procs
  BY DriveInit, SafetyInit
<1>2. proc[p].pc = "idle"
  BY <1>1 DEF Init, Idle
<1>3. Closing(p)
  BY <1>2 DEF Closing
<1>4. ASSUME NEW t \in Tokens PROVE Passed(t) /\ Kempt(t)
  <2>1. run[t].status = "none"
    BY <1>4 DEF Init
  <2> QED
    BY <2>1 DEF Passed, Kempt, Owns, Created
<1> QED
  BY <1>1, <1>3, <1>4 DEF KeptInv

LEMMA KeptStep ==
    ASSUME NEW p, Procs = {p}, KeptInv(p), [Next]_vars
    PROVE  KeptInv(p)'
<1>1. DriveInv(p) /\ SafetyInv /\ TypeInv /\ WorksOnRun
  BY DEF KeptInv, DriveInv, RunInv
<1>2. DriverStep(p)
  BY <1>1, OnlyDriver DEF DriveInv, RunInv, OwnershipInv
<1>3. DriveInv(p)' /\ TypeInv'
  BY <1>1, DriveStep, TypeStep
<1>4. SafetyInv'
  BY <1>1, <1>3, SafetyStep
<1>5. \A t \in Tokens : Passed(t)' /\ Kempt(t)'
  BY <1>2, PassedStep, KemptStep
<1>6. Closing(p)'
  BY <1>2, ClosingStep
<1> QED
  BY <1>3, <1>4, <1>5, <1>6 DEF KeptInv

\* With one driver, whatever fails and whenever it dies: a run that has ended leaves its
\* row in flight only if a maintainer can reopen it, or as a VALIDATED or STALE_BASE row
\* of a run that has failed (_finalize_run_failure, GateController.resume).
THEOREM NothingStranded ==
    ASSUME NEW d, Procs = {d}
    PROVE  Spec => []OnlyUnfinalizedStranded
<1>1. KeptInv(d) => OnlyUnfinalizedStranded
  BY DEF KeptInv, Kempt, OnlyUnfinalizedStranded
<1>2. Init => KeptInv(d)
  BY KeptInit
<1>3. KeptInv(d) /\ [Next]_vars => KeptInv(d)'
  BY KeptStep
<1> QED
  BY <1>1, <1>2, <1>3, PTL DEF Spec

=============================================================================
