-------------------------- MODULE FeedbackRun_proofs --------------------------
(***************************************************************************)
(* Type correctness of FeedbackRun for every set of rows, processes and    *)
(* faults.  TypeOK is not inductive: a process writes the goal it computed *)
(* some steps ago into one of two tables with different vocabularies, and  *)
(* the goal of two nodes is the conclusion of an earlier one, which may    *)
(* have come back from a checkpoint.  TypeInv says what is remembered.     *)
(***************************************************************************)
EXTENDS FeedbackRun, FiniteSetTheorems, TLAPS

\* What a node that turns a conclusion into a status has been handed.
Handed(n, out) ==
    /\ n = "route_feedback" => out \in Routes
    /\ n = "finish_agent_blocked" => out \in {"cannot_reproduce", "needs_human"}

RetryGoals == {"publishing", "publishing_issue", "reproducing", "repairing"}

Checkpoint == [node : Nodes \cup {"end"}, out : Conclusions]

\* What is true of one process, one run row and one checkpoint by itself.
ProcOK(r) ==
    /\ r \in Process
    /\ r.pc \notin {"idle", "claim"} => r.tok \in Tokens /\ r.fid \in Feedback
    /\ r.pc \in {"node", "save", "post"} => r.mode = "graph"
    /\ r.pc = "post" => r.node = "publish_pull_request"
    /\ r.pc = "fail" => r.mode = "final"
    /\ r.pc # "save" => Handed(r.node, r.out)
    /\ r.pc = "save" => Handed(Successor(r.node, r.out), r.out)
    /\ r.pc \in {"get", "cas"} => r.goal \in FeedbackStatus
    /\ r.pc = "patch" => r.goal \in RunStatus
    /\ r.pc \in {"get", "cas", "runget"} /\ r.mode = "reopen" => r.goal \in RetryGoals
    /\ r.pc \in {"get", "cas", "runget", "patch"} /\ r.mode = "graph" =>
          r.node \in FinishNodes \cup {"prepare_source"}

RunOK(row) == row \in RunRow /\ (row.status # "none" => row.fid \in Feedback)

CkptOK(c) == c \in Checkpoint /\ Handed(c.node, c.out)

ProcsOK == proc \in [Procs -> Process] /\ \A p \in Procs : ProcOK(proc[p])
RunsOK  == run \in [Tokens -> RunRow] /\ \A t \in Tokens : RunOK(run[t])
CkptsOK == ckpt \in [Tokens -> Checkpoint] /\ \A t \in Tokens : CkptOK(ckpt[t])
RowsOK  == fb \in [Feedback -> FeedbackRow] /\ claims \in 0..MaxClaims
RestOK  == /\ verdict \in [Tokens -> {"none", "passed", "rejected"}]
           /\ pulls \subseteq Tokens /\ issues \subseteq Tokens
           /\ moved \subseteq Tokens /\ lost \subseteq Tokens
           /\ faults \in 0..MaxFaults

TypeInv == ProcsOK /\ RunsOK /\ CkptsOK /\ RowsOK /\ RestOK

\* A process that executes something executes a run that has a feedback row: what
\* keeps a write to agent_runs from making up a row.
Fresh == {"idle", "claim", "create"}

WorksOnRun == \A p \in Procs :
    proc[p].pc \notin Fresh => run[proc[p].tok].fid \in Feedback

-----------------------------------------------------------------------------
(* The tables of RepairGraph *)

LEMMA MovesTyped ==
    ASSUME NEW n \in FinishNodes \cup {"prepare_source"}, NEW out \in Conclusions, Handed(n, out),
           NEW m \in Moves(n, out)
    PROVE  m[2] \in FeedbackStatus
BY DEF Moves, FinishNodes, Handed, Routes, FeedbackStatus, StartGateMoves,
       RouteFeedbackMoves, FinishIssuePublicationMoves, FinishReproductionMoves,
       FinishAgentBlockedMoves, FinishRepairSuccessMoves, FinishRepairFailureMoves,
       FinishValidationMoves, FinishBudgetExhaustedMoves, FinishPublicationMoves, Reproduced

LEMMA RunMoveTyped ==
    ASSUME NEW n \in Nodes \cup {"end"}, NEW out \in Conclusions
    PROVE  RunMove(n, out)[2] \in RunStatus /\ RunMove(n, out)[1] \in RunStatus \cup {"any"}
BY DEF RunMove, RunStatus, mark_gating, complete_gate, mark_reproducing,
       complete_issue_publication, complete_reproduction, mark_validating,
       complete_repair_failure, complete_validation, complete_publication, exhaust_budget

LEMMA SuccessorTyped ==
    ASSUME NEW n \in Nodes \cup {"end"}, NEW out \in Conclusions
    PROVE  Successor(n, out) \in Nodes \cup {"end"}
BY DEF Successor, Nodes, AfterGate, AfterRepairAgent, AfterReproduction,
       AfterValidateFinal, AfterValidation

\* Only the gate and the repair agent are followed by a node that is handed a
\* status.
LEMMA SuccessorHanded ==
    ASSUME NEW n \in Nodes \cup {"end"}, NEW out \in Conclusions,
           n = "classify_gate" => out \in Routes,
           n = "repair_agent" => out \in RepairOutcomes
    PROVE  Handed(Successor(n, out), out)
BY DEF Successor, Nodes, AfterGate, AfterRepairAgent, AfterReproduction,
       AfterValidateFinal, AfterValidation, Handed, RepairOutcomes, Reproduced

LEMMA RaisedTyped ==
    ASSUME NEW n \in Nodes \cup {"end"}, NEW out \in Conclusions
    PROVE  RaisedBy(n, out) \subseteq Errors
BY DEF RaisedBy, Errors

-----------------------------------------------------------------------------
(* Updates *)

LEMMA Kept_ == 
    ASSUME TypeInv
    PROVE  /\ UNCHANGED proc => ProcsOK'
           /\ UNCHANGED run => RunsOK'
           /\ UNCHANGED ckpt => CkptsOK'
           /\ UNCHANGED <<fb, claims>> => RowsOK'
           /\ UNCHANGED <<verdict, pulls, issues, moved, lost, faults>> => RestOK'
BY DEF TypeInv, ProcsOK, RunsOK, CkptsOK, RowsOK, RestOK

LEMMA ProcUpdate ==
    ASSUME ProcsOK, NEW p \in Procs, NEW r, ProcOK(r), proc' = [proc EXCEPT ![p] = r]
    PROVE  ProcsOK'
<1>1. r \in Process
  BY DEF ProcOK
<1> QED
  BY <1>1 DEF ProcsOK

LEMMA IdleOK == ProcOK(Idle)
BY DEF ProcOK, Idle, Process, Steps, NoToken, NoFeedback, Nodes, Conclusions, Errors, Handed

LEMMA ExecutingOK ==
    ASSUME TypeInv, NEW t \in Tokens, NEW f \in Feedback
    PROVE  ProcOK(Executing(t, f))
<1>1. CkptOK(ckpt[t])
  BY DEF TypeInv, CkptsOK
<1>2. Idle \in Process
  BY IdleOK DEF ProcOK
<1>3. ckpt[t].node \in Nodes \cup {"end"} /\ ckpt[t].out \in Conclusions
  BY <1>1 DEF CkptOK, Checkpoint
<1>4. Executing(t, f) \in Process
  BY <1>2, <1>3 DEF Executing, Process, Steps
<1>5. /\ Executing(t, f).pc = "node" /\ Executing(t, f).mode = "graph"
      /\ Executing(t, f).tok = t /\ Executing(t, f).fid = f
      /\ Executing(t, f).node = ckpt[t].node /\ Executing(t, f).out = ckpt[t].out
  BY <1>2 DEF Executing, Process, Idle
<1> HIDE DEF Executing
<1> QED
  BY <1>1, <1>4, <1>5 DEF ProcOK, CkptOK

LEMMA ReopenedOK ==
    ASSUME NEW t \in Tokens, NEW f \in Feedback
    PROVE  ProcOK(Reopened(t, f))
<1>1. Idle \in Process
  BY IdleOK DEF ProcOK
<1>2. Reopened(t, f) \in Process
  BY <1>1 DEF Reopened, Process, Steps
<1>3. /\ Reopened(t, f).pc = "start" /\ Reopened(t, f).tok = t /\ Reopened(t, f).fid = f
      /\ Reopened(t, f).node = "end"
  BY <1>1 DEF Reopened, Process, Idle
<1> HIDE DEF Reopened
<1> QED
  BY <1>2, <1>3 DEF ProcOK, Handed

LEMMA RaiseOK ==
    ASSUME TypeInv, NEW p \in Procs, NEW e \in Errors, Raise(p, e),
           proc[p].pc \notin {"idle", "save"}
    PROVE  ProcsOK' /\ CkptsOK'
<1> DEFINE r == proc[p]
           failed == [r EXCEPT !.pc = "fail", !.mode = "final", !.err = e,
                               !.seen = "none", !.goal = "none", !.unsaved = FALSE]
<1>1. ProcOK(r) /\ r \in Process /\ ProcsOK
  BY DEF TypeInv, ProcsOK, ProcOK
<1>2. r.pc # "claim" => ProcOK(failed)
  <2>1. failed \in Process
    BY <1>1 DEF Process, Steps
  <2>2. /\ failed.pc = "fail" /\ failed.mode = "final"
        /\ failed.tok = r.tok /\ failed.fid = r.fid
        /\ failed.node = r.node /\ failed.out = r.out
    BY <1>1 DEF Process
  <2> HIDE DEF failed
  <2> QED
    BY <1>1, <2>1, <2>2 DEF ProcOK
<1>3. \/ r.pc # "claim" /\ proc' = [proc EXCEPT ![p] = failed]
      \/ proc' = [proc EXCEPT ![p] = Idle]
  BY DEF Raise, BeforeGraph
<1>4. ProcsOK'
  BY <1>1, <1>2, <1>3, IdleOK, ProcUpdate
<1>5. CkptOK([node |-> r.node, out |-> r.out])
  BY <1>1 DEF ProcOK, Process, CkptOK, Checkpoint
<1>6. CkptsOK'
  BY <1>5 DEF TypeInv, CkptsOK, Raise, CkptOK
<1> QED
  BY <1>4, <1>6

\* The nodes at which a process may be between two repository writes.
WritingNodes == FinishNodes \cup {"prepare_source"}

LEMMA GotoOK ==
    ASSUME TypeInv, NEW p \in Procs, NEW pc \in {"claim", "runget", "save", "post"},
           Goto(p, pc),
           proc[p].pc # "save",
           pc # "claim" => /\ proc[p].pc \notin {"idle", "claim"}
                           /\ proc[p].mode # "reopen"
                           /\ proc[p].mode = "graph" /\ pc # "post" =>
                                 proc[p].node \in WritingNodes,
           pc \in {"save", "post"} => proc[p].mode = "graph",
           pc = "post" => proc[p].node = "publish_pull_request"
    PROVE  ProcsOK'
<1> DEFINE r == proc[p]
           next == [r EXCEPT !.pc = pc, !.seen = "none", !.goal = "none"]
<1>1. ProcOK(r) /\ r \in Process /\ ProcsOK
  BY DEF TypeInv, ProcsOK, ProcOK
<1>2. proc' = [proc EXCEPT ![p] = next]
  BY <1>1 DEF Goto
<1>3. next \in Process
  BY <1>1 DEF Process, Steps
<1>4. /\ next.pc = pc /\ next.tok = r.tok /\ next.fid = r.fid /\ next.mode = r.mode
      /\ next.node = r.node /\ next.out = r.out
  BY <1>1 DEF Process
<1>5. pc = "save" => Handed(Successor(r.node, r.out), r.out)
  BY <1>1, SuccessorHanded DEF Process, WritingNodes, FinishNodes
<1> HIDE DEF next
<1>6. ProcOK(next)
  BY <1>1, <1>3, <1>4, <1>5 DEF ProcOK, WritingNodes
<1> QED
  BY <1>1, <1>2, <1>6, ProcUpdate

LEMMA ConcludeOK ==
    ASSUME TypeInv, NEW p \in Procs, NEW out \in Conclusions, Conclude(p, out),
           proc[p].pc \in {"node", "post"},
           proc[p].node = "classify_gate" => out \in Routes,
           proc[p].node = "repair_agent" => out \in RepairOutcomes
    PROVE  ProcsOK' /\ CkptsOK'
<1> DEFINE r == proc[p]
           next == [r EXCEPT !.pc = "save", !.out = out]
<1>1. ProcOK(r) /\ r \in Process /\ ProcsOK
  BY DEF TypeInv, ProcsOK, ProcOK
<1>2. proc' = [proc EXCEPT ![p] = next]
  BY <1>1 DEF Conclude
<1>3. next \in Process
  BY <1>1 DEF Process, Steps
<1>4. /\ next.pc = "save" /\ next.tok = r.tok /\ next.fid = r.fid /\ next.mode = r.mode
      /\ next.node = r.node /\ next.out = out
  BY <1>1 DEF Process
<1>5. Handed(Successor(r.node, out), out)
  BY <1>1, SuccessorHanded DEF Process
<1> HIDE DEF next
<1>6. ProcOK(next)
  BY <1>1, <1>3, <1>4, <1>5 DEF ProcOK
<1>7. CkptsOK'
  BY Kept_ DEF Conclude
<1> QED
  BY <1>1, <1>2, <1>6, <1>7, ProcUpdate

\* A process that goes on to a read or a write with a goal of the right kind.
LEMMA PursueOK ==
    ASSUME TypeInv, NEW p \in Procs, NEW next \in Process,
           proc' = [proc EXCEPT ![p] = next],
           proc[p].pc \notin {"idle", "claim", "save"},
           next.tok = proc[p].tok, next.fid = proc[p].fid,
           next.node = proc[p].node, next.out = proc[p].out, next.mode = proc[p].mode,
           \/ next.pc \in {"get", "cas"} /\ next.goal \in FeedbackStatus
           \/ next.pc = "patch" /\ next.goal \in RunStatus
           \/ next.pc = "runget",
           next.mode = "reopen" /\ next.pc # "patch" => next.goal \in RetryGoals,
           next.mode = "graph" => next.node \in WritingNodes
    PROVE  ProcsOK'
<1>1. ProcOK(proc[p]) /\ ProcsOK
  BY DEF TypeInv, ProcsOK
<1>2. ProcOK(next)
  BY <1>1 DEF ProcOK, WritingNodes
<1> QED
  BY <1>1, <1>2, ProcUpdate

-----------------------------------------------------------------------------
(* The actions, one by one *)

LEMMA EntryOK ==
    ASSUME TypeInv, NEW f \in Feedback, Submit(f) \/ ExpireLease(f)
    PROVE  TypeInv'
<1>0. fb \in [Feedback -> FeedbackRow] /\ fb[f] \in FeedbackRow
  BY DEF TypeInv, RowsOK
<1>a. /\ [fb[f] EXCEPT !.status = "pending"] \in FeedbackRow
      /\ [fb[f] EXCEPT !.lease = FALSE] \in FeedbackRow
  BY <1>0 DEF FeedbackRow, FeedbackStatus
<1>1. fb' \in [Feedback -> FeedbackRow]
  BY <1>0, <1>a DEF Submit, ExpireLease
<1>2. RowsOK'
  BY <1>1 DEF TypeInv, RowsOK, Submit, ExpireLease
<1> QED
  BY <1>2, Kept_ DEF TypeInv, Submit, ExpireLease

LEMMA ResumingOK ==
    ASSUME TypeInv, NEW p \in Procs, NEW t \in Tokens, PollResume(p, t) \/ ResumeById(p, t)
    PROVE  TypeInv'
<1>1. run[t].fid \in Feedback
  BY DEF TypeInv, RunsOK, RunOK, PollResume, ResumeById, Active, ActiveRun, Created
<1>2. Idle \in Process
  BY IdleOK DEF ProcOK
<1>3. Resuming(t) \in Process
  BY <1>1, <1>2 DEF Resuming, Process, Steps
<1>4. /\ Resuming(t).pc = "resume" /\ Resuming(t).tok = t
      /\ Resuming(t).fid = run[t].fid /\ Resuming(t).node = "end"
  BY <1>2 DEF Resuming, Process, Idle
<1> HIDE DEF Resuming
<1>5. ProcOK(Resuming(t))
  BY <1>1, <1>3, <1>4 DEF ProcOK, Handed
<1>6. ProcsOK'
  BY <1>5, ProcUpdate DEF PollResume, ResumeById, TypeInv
<1> QED
  BY <1>6, Kept_ DEF TypeInv, PollResume, ResumeById

LEMMA PollOK ==
    ASSUME TypeInv, NEW p \in Procs, Poll(p)
    PROVE  TypeInv'
<1>1. ASSUME PollEmpty(p)
      PROVE  TypeInv'
  <2>1. ProcsOK'
    BY <1>1, GotoOK DEF PollEmpty
  <2> QED
    BY <1>1, <2>1, Kept_ DEF TypeInv, PollEmpty
<1> QED
  BY <1>1, ResumingOK DEF Poll

LEMMA GivenUpTyped ==
    ASSUME TypeInv, NEW gone \in SUBSET Feedback
    PROVE  GivenUp(gone) \in [Feedback -> FeedbackRow]
<1>1. ASSUME NEW f \in Feedback
      PROVE  /\ fb[f] \in FeedbackRow
             /\ [fb[f] EXCEPT !.status = "needs_human", !.token = NoToken,
                              !.lease = FALSE, !.err = "other"] \in FeedbackRow
  <2>1. fb[f] \in FeedbackRow
    BY DEF TypeInv, RowsOK
  <2> QED
    BY <2>1 DEF FeedbackRow, FeedbackStatus, NoToken, Errors
<1> QED
  BY <1>1 DEF GivenUp

LEMMA GiveUpOK ==
    ASSUME TypeInv, NEW p \in Procs, NEW gone \in SUBSET Feedback, GiveUp(p, gone)
    PROVE  TypeInv'
<1>1. RowsOK'
  BY GivenUpTyped DEF GiveUp, RowsOK, TypeInv
<1>2. ProcsOK'
  BY IdleOK, ProcUpdate DEF GiveUp, TypeInv
<1>3. UNCHANGED <<run, ckpt, verdict, pulls, issues, moved, lost, faults>>
  BY DEF GiveUp
<1> QED
  BY <1>1, <1>2, <1>3, Kept_ DEF TypeInv

LEMMA ClaimOK ==
    ASSUME TypeInv, NEW p \in Procs, NEW f \in Feedback, NEW gone \in SUBSET Feedback,
           Claim(p, f, gone), fb[f].attempts < MaxAttempts
    PROVE  TypeInv'
<1> USE RunAssumption, ClaimsAssumption DEF RunAssumption
<1> DEFINE row  == [fb[f] EXCEPT !.status = "claimed", !.token = claims + 1, !.lease = TRUE,
                                 !.attempts = @ + 1, !.err = "none"]
           next == [Idle EXCEPT !.pc = "create", !.tok = claims + 1, !.fid = f]
<1>1. /\ claims' = claims + 1 /\ claims < MaxClaims /\ claims \in 0..MaxClaims
      /\ fb[f] \in FeedbackRow
  BY DEF Claim, TypeInv, RowsOK
<1>2. claims + 1 \in Tokens
  BY <1>1 DEF Tokens
<1>3. row \in FeedbackRow
  <2>1. fb[f].attempts + 1 \in 0..MaxAttempts
    BY <1>1 DEF FeedbackRow
  <2> QED
    BY <1>1, <1>2, <2>1 DEF FeedbackRow, FeedbackStatus, Errors
<1>4. RowsOK'
  <2>1. fb' = [GivenUp(gone) EXCEPT ![f] = row]
    BY DEF Claim, Claimed
  <2>2. fb' \in [Feedback -> FeedbackRow]
    BY <1>3, <2>1, GivenUpTyped
  <2> QED
    BY <1>1, <2>2 DEF RowsOK
<1>5. ProcOK(next)
  <2>1. Idle \in Process
    BY IdleOK DEF ProcOK
  <2>2. next \in Process
    BY <1>2, <2>1 DEF Process, Steps
  <2>3. /\ next.pc = "create" /\ next.tok = claims + 1 /\ next.fid = f
        /\ next.node = "end" /\ next.out = "none"
    BY <2>1 DEF Process, Idle
  <2> HIDE DEF next
  <2> QED
    BY <1>2, <2>2, <2>3 DEF ProcOK, Handed
<1>6. ProcsOK'
  BY <1>5, ProcUpdate DEF Claim, TypeInv
<1>7. UNCHANGED <<run, ckpt, verdict, pulls, issues, moved, lost, faults>>
  BY DEF Claim
<1> QED
  BY <1>4, <1>6, <1>7, Kept_ DEF TypeInv

LEMMA ClaimNextOK ==
    ASSUME TypeInv, NEW p \in Procs, ClaimNext(p)
    PROVE  TypeInv'
<1> DEFINE gone == {f \in Feedback : Exhausted(f)}
<1>1. CASE GiveUp(p, gone)
  BY <1>1, GiveUpOK
<1>2. ASSUME NEW f \in Feedback, Claimable(f), ~Exhausted(f), Claim(p, f, gone)
      PROVE  TypeInv'
  <2>1. fb[f].attempts < MaxAttempts
    BY <1>2, RunAssumption, ClaimsAssumption DEF Exhausted, TypeInv, RowsOK, FeedbackRow, RunAssumption
  <2> QED
    BY <1>2, <2>1, ClaimOK
<1> QED
  BY <1>1, <1>2 DEF ClaimNext

LEMMA ClaimByIdOK ==
    ASSUME TypeInv, NEW p \in Procs, NEW f \in Feedback, ClaimById(p, f)
    PROVE  TypeInv'
<1>1. CASE GiveUp(p, {f})
  BY <1>1, GiveUpOK
<1>2. CASE Claimable(f) /\ ~Exhausted(f) /\ Claim(p, f, {})
  <2>1. fb[f].attempts < MaxAttempts
    BY <1>2, RunAssumption, ClaimsAssumption DEF Exhausted, TypeInv, RowsOK, FeedbackRow, RunAssumption
  <2> QED
    BY <1>2, <2>1, ClaimOK
<1> QED
  BY <1>1, <1>2 DEF ClaimById

LEMMA RunCreatedOK ==
    ASSUME TypeInv, NEW t \in Tokens, NEW f \in Feedback, run' = RunCreated(t, f)
    PROVE  RunsOK'
<1> DEFINE made == {u \in Tokens : Created(u)}
           row  == [status |-> "created", fid |-> f, err |-> "none", valid |-> FALSE,
                    seq |-> Cardinality(made)]
<1>1. Cardinality(made) \in Nat
  <2>1. IsFiniteSet(Tokens)
    BY RunAssumption, ClaimsAssumption, FS_Interval DEF RunAssumption, Tokens
  <2>2. IsFiniteSet(made)
    BY <2>1, FS_Subset
  <2> QED
    BY <2>2, FS_CardinalityType
<1>2. run' = [run EXCEPT ![t] = row]
  BY DEF RunCreated
<1> HIDE DEF made
<1>3. RunOK(row)
  BY <1>1 DEF RunOK, RunRow, RunStatus, Errors
<1> HIDE DEF row
<1> QED
  BY <1>2, <1>3 DEF TypeInv, RunsOK, RunOK

\* A process that has started something has a run and a feedback row to do it on.
LEMMA Started ==
    ASSUME TypeInv, NEW p \in Procs
    PROVE  /\ proc[p] \in Process /\ ProcOK(proc[p])
           /\ proc[p].pc \notin {"idle", "claim"} =>
                 /\ proc[p].tok \in Tokens /\ proc[p].fid \in Feedback
                 /\ fb[proc[p].fid] \in FeedbackRow
                 /\ run[proc[p].tok] \in RunRow
BY DEF TypeInv, ProcsOK, ProcOK, RowsOK, RunsOK

LEMMA CreateRunOK ==
    ASSUME TypeInv, NEW p \in Procs, CreateRun(p)
    PROVE  TypeInv'
<1>1. proc[p].tok \in Tokens /\ proc[p].fid \in Feedback
  BY Started DEF CreateRun
<1>2. RunsOK'
  BY <1>1, RunCreatedOK DEF CreateRun
<1>3. ProcsOK'
  BY <1>1, ExecutingOK, ProcUpdate DEF CreateRun, TypeInv
<1>4. UNCHANGED <<fb, ckpt, claims, verdict, pulls, issues, moved, lost, faults>>
  BY DEF CreateRun
<1> QED
  BY <1>2, <1>3, <1>4, Kept_ DEF TypeInv

\* The steps of resume before the graph is executed.
LEMMA ResumeOK ==
    ASSUME TypeInv, NEW p \in Procs, ReadRunToResume(p) \/ ReadThread(p) \/ StartGraph(p)
    PROVE  TypeInv'
<1>1. /\ proc[p] \in Process /\ ProcOK(proc[p]) /\ proc[p].tok \in Tokens
      /\ proc[p].fid \in Feedback /\ run[proc[p].tok] \in RunRow
      /\ proc \in [Procs -> Process] /\ proc[p].pc \in {"resume", "load", "start"}
  BY Started DEF ReadRunToResume, ReadThread, StartGraph, TypeInv, ProcsOK
<1>2. ASSUME NEW next \in Process, proc' = [proc EXCEPT ![p] = next],
             next.tok = proc[p].tok, next.fid = proc[p].fid,
             next.node = proc[p].node, next.out = proc[p].out,
             \/ next.pc \in {"load", "start"}
             \/ next.pc = "get" /\ next.mode = "reopen" /\ next.goal \in RetryGoals
      PROVE  ProcsOK'
  <2>1. RetryGoals \subseteq FeedbackStatus
    BY DEF RetryGoals, FeedbackStatus
  <2>2. ProcOK(next)
    BY <1>1, <1>2, <2>1 DEF ProcOK
  <2> QED
    BY <1>2, <2>2, ProcUpdate DEF TypeInv
<1>3. CASE ReadRunToResume(p)
  <2> DEFINE row  == run[proc[p].tok]
             next == [proc[p] EXCEPT !.pc = "load", !.seen = row.status, !.err = row.err]
  <2>1. row.status \in RunStatus \cup {"none"} /\ row.err \in Errors
    BY <1>1 DEF RunRow
  <2>2. proc' = [proc EXCEPT ![p] = next]
    BY <1>1, <1>3 DEF ReadRunToResume
  <2> HIDE DEF row
  <2>3. next \in Process
    BY <1>1, <2>1 DEF Process, Steps
  <2>4. /\ next.pc = "load" /\ next.tok = proc[p].tok /\ next.fid = proc[p].fid
        /\ next.node = proc[p].node /\ next.out = proc[p].out
    BY <1>1 DEF Process
  <2> HIDE DEF next
  <2>5. ProcsOK'
    BY <1>2, <2>2, <2>3, <2>4
  <2> QED
    BY <1>3, <2>5, Kept_ DEF ReadRunToResume, TypeInv
<1>4. CASE ReadThread(p)
  <2> DEFINE known == [proc[p] EXCEPT !.seen = "none", !.err = "none"]
             start == [known EXCEPT !.pc = "start"]
             reopen(goal) == [known EXCEPT !.pc = "get", !.mode = "reopen", !.goal = goal]
  <2>1. ReopenGoals(p) \subseteq RetryGoals
    BY DEF ReopenGoals, RetryGoals
  <2>2. /\ known \in Process /\ known.tok = proc[p].tok /\ known.fid = proc[p].fid
        /\ known.node = proc[p].node /\ known.out = proc[p].out
    BY <1>1 DEF Process, Errors
  <2>3. \/ \E goal \in ReopenGoals(p) : proc' = [proc EXCEPT ![p] = reopen(goal)]
        \/ proc' = [proc EXCEPT ![p] = start]
        \/ proc' = [proc EXCEPT ![p] = Idle]
    BY <1>4 DEF ReadThread
  <2> HIDE DEF known
  <2>4. CASE proc' = [proc EXCEPT ![p] = Idle]
    <3>1. ProcsOK'
      BY <2>4, IdleOK, ProcUpdate DEF TypeInv
    <3> QED
      BY <1>4, <3>1, Kept_ DEF ReadThread, TypeInv
  <2>5. CASE proc' = [proc EXCEPT ![p] = start]
    <3>1. /\ start \in Process /\ start.pc = "start" /\ start.tok = proc[p].tok
          /\ start.fid = proc[p].fid /\ start.node = proc[p].node /\ start.out = proc[p].out
      BY <2>2 DEF Process, Steps
    <3> HIDE DEF start
    <3>2. ProcsOK'
      BY <1>2, <2>5, <3>1
    <3> QED
      BY <1>4, <3>2, Kept_ DEF ReadThread, TypeInv
  <2>6. ASSUME NEW goal \in ReopenGoals(p), proc' = [proc EXCEPT ![p] = reopen(goal)]
        PROVE  TypeInv'
    <3>0. goal \in RetryGoals /\ goal \in FeedbackStatus
      BY <2>1 DEF RetryGoals, FeedbackStatus
    <3>1. /\ reopen(goal) \in Process /\ reopen(goal).pc = "get"
          /\ reopen(goal).mode = "reopen" /\ reopen(goal).goal = goal
          /\ reopen(goal).tok = proc[p].tok /\ reopen(goal).fid = proc[p].fid
          /\ reopen(goal).node = proc[p].node /\ reopen(goal).out = proc[p].out
      BY <2>2, <3>0 DEF Process, Steps
    <3> HIDE DEF reopen
    <3>2. ProcsOK'
      BY <1>2, <2>6, <3>0, <3>1
    <3> QED
      BY <1>4, <3>2, Kept_ DEF ReadThread, TypeInv
  <2> QED
    BY <2>3, <2>4, <2>5, <2>6
<1>5. CASE StartGraph(p)
  <2>1. ProcsOK'
    BY <1>1, <1>5, ExecutingOK, ProcUpdate DEF StartGraph, TypeInv
  <2> QED
    BY <1>5, <2>1, Kept_ DEF StartGraph, TypeInv
<1> QED
  BY <1>3, <1>4, <1>5

\* The nodes that do their work and conclude.
LEMMA ConcludingNodesOK ==
    ASSUME TypeInv, NEW p \in Procs,
           \/ ClassifyGate(p) \/ RepairAgent(p) \/ ValidateFinal(p)
           \/ PublishIssue(p) \/ LookForPull(p) \/ PostPull(p)
    PROVE  TypeInv'
<1> USE RunAssumption, ClaimsAssumption DEF RunAssumption
<1>1. /\ proc[p].pc \in {"node", "post"} /\ proc[p].tok \in Tokens
      /\ proc[p].out \in Conclusions /\ ProcOK(proc[p])
      /\ proc[p].pc = "post" => proc[p].node = "publish_pull_request"
  BY Started DEF ClassifyGate, RepairAgent, ValidateFinal, PublishIssue,
                 LookForPull, PostPull, At, Process, ProcOK
<1>2. CASE ClassifyGate(p)
  <2>1. \E out \in Routes : Conclude(p, out)
    BY <1>2 DEF ClassifyGate, Routes
  <2>2. ProcsOK' /\ CkptsOK'
    BY <1>1, <1>2, <2>1, ConcludeOK DEF ClassifyGate, At, Conclusions
  <2> QED
    BY <1>2, <2>2, Kept_ DEF ClassifyGate, TypeInv
<1>3. CASE RepairAgent(p)
  <2>1. \E out \in RepairOutcomes : Conclude(p, out)
    BY <1>3 DEF RepairAgent
  <2>2. ProcsOK' /\ CkptsOK'
    BY <1>1, <1>3, <2>1, ConcludeOK DEF RepairAgent, At, Conclusions
  <2> QED
    BY <1>3, <2>2, Kept_ DEF RepairAgent, TypeInv
<1>4. CASE ValidateFinal(p)
  <2>1. \E out \in Validations : Conclude(p, out)
    BY <1>4 DEF ValidateFinal, Validations
  <2>2. ProcsOK' /\ CkptsOK'
    BY <1>1, <1>4, <2>1, ConcludeOK DEF ValidateFinal, At, Conclusions
  <2>3. verdict' \in [Tokens -> {"none", "passed", "rejected"}]
    BY <1>4 DEF ValidateFinal, TypeInv, RestOK
  <2>4. UNCHANGED <<fb, run, claims, pulls, issues, moved, lost, faults>>
    BY <1>4 DEF ValidateFinal
  <2>5. RestOK'
    BY <2>3, <2>4 DEF TypeInv, RestOK
  <2> QED
    BY <2>2, <2>4, <2>5, Kept_ DEF TypeInv
<1>5. CASE PublishIssue(p)
  <2>1. ProcsOK' /\ CkptsOK'
    BY <1>1, <1>5, ConcludeOK DEF PublishIssue, At
  <2>2. RestOK'
    BY <1>1, <1>5 DEF PublishIssue, TypeInv, RestOK
  <2> QED
    BY <1>5, <2>1, <2>2, Kept_ DEF PublishIssue, TypeInv
<1>6. CASE LookForPull(p)
  <2>1. \/ \E out \in Dispositions : Conclude(p, out)
        \/ Goto(p, "post") /\ UNCHANGED ckpt
    BY <1>6 DEF LookForPull, Dispositions
  <2>2. proc[p].pc = "node" /\ proc[p].node = "publish_pull_request"
    BY <1>6 DEF LookForPull, At
  <2>3. proc[p].mode = "graph"
    BY <1>1, <2>2 DEF ProcOK
  <2>4. ProcsOK' /\ CkptsOK'
    <3>1. ASSUME NEW out \in Dispositions, Conclude(p, out)
          PROVE  ProcsOK' /\ CkptsOK'
      <4>1. out \in Conclusions
        BY DEF Conclusions
      <4> QED
        BY <2>2, <3>1, <4>1, ConcludeOK
    <3>2. ASSUME Goto(p, "post"), UNCHANGED ckpt
          PROVE  ProcsOK' /\ CkptsOK'
      BY <2>2, <2>3, <3>2, GotoOK, Kept_
    <3> QED
      BY <2>1, <3>1, <3>2
  <2>5. moved' \subseteq Tokens
    BY <1>1, <1>6 DEF LookForPull, TypeInv, RestOK
  <2>6. UNCHANGED <<fb, run, claims, verdict, pulls, issues, lost, faults>>
    BY <1>6 DEF LookForPull
  <2>7. RestOK'
    BY <2>5, <2>6 DEF TypeInv, RestOK
  <2> QED
    BY <2>4, <2>6, <2>7, Kept_ DEF TypeInv
<1>7. CASE PostPull(p)
  <2>1. ProcsOK' /\ CkptsOK'
    BY <1>1, <1>7, ConcludeOK DEF PostPull, Conclusions, Dispositions
  <2>2. pulls' \subseteq Tokens
    BY <1>1, <1>7 DEF PostPull, Posted, TypeInv, RestOK
  <2>3. UNCHANGED <<fb, run, claims, verdict, issues, moved, lost, faults>>
    BY <1>7 DEF PostPull
  <2>4. RestOK'
    BY <2>2, <2>3 DEF TypeInv, RestOK
  <2> QED
    BY <2>1, <2>3, <2>4, Kept_ DEF TypeInv
<1> QED
  BY <1>2, <1>3, <1>4, <1>5, <1>6, <1>7

LEMMA OtherNodesOK ==
    ASSUME TypeInv, NEW p \in Procs,
           \/ PrepareSource(p) \/ NothingPending(p)
           \/ PostFails(p) \/ NodeFails(p) \/ ArtifactMissing(p)
    PROVE  TypeInv'
<1>1. /\ proc[p] \in Process /\ proc[p].pc \in {"node", "post"} /\ proc[p].tok \in Tokens
  BY Started DEF PrepareSource, NothingPending, PostFails, NodeFails, ArtifactMissing, At
<1>2. CASE PrepareSource(p)
  <2>0. proc[p].mode = "graph"
    BY <1>1, Started DEF ProcOK
  <2>1. ProcsOK'
    BY <1>1, <1>2, <2>0, GotoOK DEF PrepareSource, At, WritingNodes
  <2> QED
    BY <1>2, <2>1, Kept_ DEF PrepareSource, TypeInv
<1>3. CASE NothingPending(p)
  <2>1. ProcsOK'
    BY <1>3, IdleOK, ProcUpdate DEF NothingPending, TypeInv
  <2> QED
    BY <1>3, <2>1, Kept_ DEF NothingPending, TypeInv
<1>4. CASE NodeFails(p)
  <2>1. RaisedBy(proc[p].node, proc[p].out) \subseteq Errors
    BY <1>1, RaisedTyped DEF Process
  <2>2. ProcsOK' /\ CkptsOK'
    BY <1>1, <1>4, <2>1, RaiseOK DEF NodeFails
  <2>3. UNCHANGED <<fb, run, claims, verdict, pulls, moved, lost, faults>>
    BY <1>4 DEF NodeFails
  <2>4. issues' \subseteq Tokens
    BY <1>1, <1>4 DEF NodeFails, TypeInv, RestOK
  <2>5. RestOK'
    BY <2>3, <2>4 DEF TypeInv, RestOK
  <2> QED
    BY <2>2, <2>3, <2>5, Kept_ DEF TypeInv
<1>5. CASE ArtifactMissing(p)
  <2>1. ProcsOK' /\ CkptsOK'
    BY <1>1, <1>5, RaiseOK DEF ArtifactMissing, Errors
  <2> QED
    BY <1>5, <2>1, Kept_ DEF ArtifactMissing, TypeInv
<1>6. CASE PostFails(p)
  <2>1. ProcsOK' /\ CkptsOK'
    BY <1>1, <1>6, RaiseOK DEF PostFails, Errors
  <2>2. pulls' \subseteq Tokens
    BY <1>1, <1>6 DEF PostFails, Posted, TypeInv, RestOK
  <2>3. UNCHANGED <<fb, run, claims, verdict, issues, moved, lost, faults>>
    BY <1>6 DEF PostFails
  <2>4. RestOK'
    BY <2>2, <2>3 DEF TypeInv, RestOK
  <2> QED
    BY <2>1, <2>3, <2>4, Kept_ DEF TypeInv
<1> QED
  BY <1>2, <1>3, <1>4, <1>5, <1>6

\* The three ways to go on to the row with a goal, the graph's and the finalizer's.
LEMMA GetOK ==
    ASSUME TypeInv, NEW p \in Procs, NEW goal \in FeedbackStatus,
           proc' = [proc EXCEPT ![p].pc = "get", ![p].goal = goal],
           proc[p].pc \notin {"idle", "claim", "save"}, proc[p].mode # "reopen",
           proc[p].mode = "graph" => proc[p].node \in WritingNodes
    PROVE  ProcsOK'
<1> DEFINE next == [proc[p] EXCEPT !.pc = "get", !.goal = goal]
<1>1. proc[p] \in Process /\ proc \in [Procs -> Process]
  BY Started DEF TypeInv, ProcsOK
<1>2. next \in Process
  BY <1>1 DEF Process, Steps
<1>3. /\ next.pc = "get" /\ next.goal = goal /\ next.tok = proc[p].tok
      /\ next.fid = proc[p].fid /\ next.node = proc[p].node /\ next.out = proc[p].out
      /\ next.mode = proc[p].mode
  BY <1>1 DEF Process
<1>4. proc' = [proc EXCEPT ![p] = next]
  BY <1>1
<1> HIDE DEF next
<1> QED
  BY <1>2, <1>3, <1>4, PursueOK

LEMMA ReadFeedbackOK ==
    ASSUME TypeInv, NEW p \in Procs, ReadFeedback(p)
    PROVE  TypeInv'
<1> DEFINE todo == {m \in Moves(proc[p].node, proc[p].out) :
                       Applicable(m, fb[proc[p].fid])}
<1>1. /\ proc[p].pc = "node" /\ proc[p].mode = "graph" /\ proc[p].node \in FinishNodes
      /\ proc[p].out \in Conclusions /\ Handed(proc[p].node, proc[p].out)
  BY Started DEF ReadFeedback, ProcOK, Process
<1>2. \A m \in todo : m[2] \in FeedbackStatus
  BY <1>1, MovesTyped
<1>3. ProcsOK' /\ CkptsOK'
  <2>1. CASE Raise(p, "other")
    BY <1>1, <2>1, RaiseOK DEF Errors
  <2>2. ASSUME NEW m \in todo, UNCHANGED ckpt,
               proc' = [proc EXCEPT ![p].pc = "get", ![p].goal = m[2]]
        PROVE  ProcsOK' /\ CkptsOK'
    <3>1. m[2] \in FeedbackStatus
      BY <1>2
    <3> HIDE DEF todo
    <3> QED
      BY <1>1, <2>2, <3>1, GetOK, Kept_ DEF WritingNodes
  <2>3. ASSUME UNCHANGED ckpt, Goto(p, "runget")
        PROVE  ProcsOK' /\ CkptsOK'
    BY <1>1, <2>3, GotoOK, Kept_ DEF WritingNodes
  <2> QED
    BY <2>1, <2>2, <2>3 DEF ReadFeedback
<1>4. UNCHANGED <<fb, run, claims, verdict, pulls, issues, moved, lost, faults>>
  BY DEF ReadFeedback
<1> QED
  BY <1>3, <1>4, Kept_ DEF TypeInv

LEMMA FinalizeFailureOK ==
    ASSUME TypeInv, NEW p \in Procs, FinalizeFailure(p)
    PROVE  TypeInv'
<1>1. proc[p].pc = "fail" /\ proc[p].mode = "final"
  BY Started DEF FinalizeFailure, ProcOK
<1>2. FailureVerdict(proc[p].err) \in FeedbackStatus
  BY DEF FailureVerdict, FeedbackStatus
<1>3. ProcsOK'
  BY <1>1, <1>2, GetOK, GotoOK DEF FinalizeFailure
<1>4. UNCHANGED <<fb, run, ckpt, claims, verdict, pulls, issues, moved, lost, faults>>
  BY DEF FinalizeFailure
<1> QED
  BY <1>3, <1>4, Kept_ DEF TypeInv

LEMMA CheckTransitionOK ==
    ASSUME TypeInv, NEW p \in Procs, CheckTransition(p)
    PROVE  TypeInv'
<1> DEFINE seen == fb[proc[p].fid].status
           next == [proc[p] EXCEPT !.pc = "cas", !.seen = seen]
<1>1. /\ proc[p].pc = "get" /\ proc[p].mode # "reopen" /\ proc[p] \in Process
      /\ proc[p].goal \in FeedbackStatus /\ ProcOK(proc[p])
      /\ fb[proc[p].fid] \in FeedbackRow
  BY Started DEF CheckTransition, ProcOK
<1>2. ProcsOK' /\ CkptsOK'
  <2>1. CASE Raise(p, "other")
    BY <1>1, <2>1, RaiseOK DEF Errors
  <2>2. ASSUME UNCHANGED ckpt, proc' = [proc EXCEPT ![p].pc = "cas", ![p].seen = seen]
        PROVE  ProcsOK' /\ CkptsOK'
    <3>1. seen \in FeedbackStatus \cup {"absent"}
      BY <1>1 DEF FeedbackRow
    <3>2. next \in Process
      BY <1>1, <3>1 DEF Process, Steps
    <3>3. /\ next.pc = "cas" /\ next.goal = proc[p].goal /\ next.tok = proc[p].tok
          /\ next.fid = proc[p].fid /\ next.node = proc[p].node
          /\ next.out = proc[p].out /\ next.mode = proc[p].mode
      BY <1>1 DEF Process
    <3>4. proc' = [proc EXCEPT ![p] = next]
      BY <2>2 DEF TypeInv, ProcsOK
    <3>5. proc[p].mode = "graph" => proc[p].node \in WritingNodes
      BY <1>1 DEF ProcOK, WritingNodes
    <3> HIDE DEF next
    <3> QED
      BY <1>1, <2>2, <3>2, <3>3, <3>4, <3>5, PursueOK, Kept_
  <2> QED
    BY <2>1, <2>2 DEF CheckTransition
<1>3. UNCHANGED <<fb, run, claims, verdict, pulls, issues, moved, lost, faults>>
  BY DEF CheckTransition
<1> QED
  BY <1>2, <1>3, Kept_ DEF TypeInv

LEMMA CheckReopenOK ==
    ASSUME TypeInv, NEW p \in Procs, CheckReopen(p)
    PROVE  TypeInv'
<1> DEFINE row  == fb[proc[p].fid]
           goal == IF row.err = "issue_publication" THEN "publishing_issue"
                   ELSE proc[p].goal
           halfway == [proc[p] EXCEPT !.pc = "runget", !.goal = row.status]
           next == [proc[p] EXCEPT !.pc = "cas", !.seen = "failed", !.err = row.err,
                                   !.goal = goal]
<1>1. /\ proc[p].pc = "get" /\ proc[p].mode = "reopen" /\ proc[p] \in Process
      /\ proc[p].goal \in RetryGoals /\ row \in FeedbackRow
      /\ proc \in [Procs -> Process]
  BY Started DEF CheckReopen, ProcOK, TypeInv, ProcsOK
<1>g. RetryGoals \subseteq FeedbackStatus
  BY DEF RetryGoals, FeedbackStatus
<1>2. ProcsOK' /\ CkptsOK'
  <2>1. CASE Raise(p, "other")
    BY <1>1, <2>1, RaiseOK DEF Errors
  <2>2. ASSUME AlreadyReopened(p, row), UNCHANGED ckpt,
               proc' = [proc EXCEPT ![p].pc = "runget", ![p].goal = row.status]
        PROVE  ProcsOK' /\ CkptsOK'
    <3>1. row.status \in RetryGoals
      BY <1>1, <2>2 DEF AlreadyReopened, RetryGoals
    <3>2. halfway \in Process
      BY <1>1, <1>g, <3>1 DEF Process, Steps
    <3>3. /\ halfway.pc = "runget" /\ halfway.goal \in RetryGoals
          /\ halfway.tok = proc[p].tok /\ halfway.fid = proc[p].fid
          /\ halfway.node = proc[p].node /\ halfway.out = proc[p].out
          /\ halfway.mode = proc[p].mode
      BY <1>1, <3>1 DEF Process
    <3>4. proc' = [proc EXCEPT ![p] = halfway]
      BY <1>1, <2>2
    <3> HIDE DEF halfway, row
    <3>5. ProcsOK'
      BY <1>1, <3>2, <3>3, <3>4, PursueOK
    <3> QED
      BY <2>2, <3>5, Kept_
  <2>3. ASSUME UNCHANGED ckpt,
               proc' = [proc EXCEPT ![p].pc = "cas", ![p].seen = "failed",
                                    ![p].err = row.err, ![p].goal = goal]
        PROVE  ProcsOK' /\ CkptsOK'
    <3>1. goal \in RetryGoals
      BY <1>1 DEF RetryGoals
    <3>2. row.err \in Errors /\ "failed" \in FeedbackStatus
      BY <1>1 DEF FeedbackRow, FeedbackStatus
    <3> HIDE DEF goal, row
    <3>3. next \in Process
      BY <1>1, <1>g, <3>1, <3>2 DEF Process, Steps
    <3>4. /\ next.pc = "cas" /\ next.goal = goal /\ next.tok = proc[p].tok
          /\ next.fid = proc[p].fid /\ next.node = proc[p].node
          /\ next.out = proc[p].out /\ next.mode = proc[p].mode
      BY <1>1 DEF Process
    <3>5. proc' = [proc EXCEPT ![p] = next]
      BY <1>1, <2>3
    <3> HIDE DEF next
    <3>6. ProcsOK'
      BY <1>1, <1>g, <3>1, <3>3, <3>4, <3>5, PursueOK
    <3> QED
      BY <2>3, <3>6, Kept_
  <2>4. \/ Raise(p, "other")
        \/ /\ AlreadyReopened(p, row) /\ UNCHANGED ckpt
           /\ proc' = [proc EXCEPT ![p].pc = "runget", ![p].goal = row.status]
        \/ /\ UNCHANGED ckpt
           /\ proc' = [proc EXCEPT ![p].pc = "cas", ![p].seen = "failed",
                                   ![p].err = row.err, ![p].goal = goal]
    BY <1>1 DEF CheckReopen
  <2> QED
    BY <2>1, <2>2, <2>3, <2>4
<1>3. UNCHANGED <<fb, run, claims, verdict, pulls, issues, moved, lost, faults>>
  BY DEF CheckReopen
<1> QED
  BY <1>2, <1>3, Kept_ DEF TypeInv

LEMMA KeptTyped == ASSUME NEW e \in Errors PROVE Kept(e) \in Errors
BY DEF Kept, Errors

LEMMA WrittenOK ==
    ASSUME TypeInv, NEW p \in Procs, proc[p].pc = "cas", fb' = Written(p),
           UNCHANGED claims
    PROVE  RowsOK'
<1> DEFINE f == proc[p].fid
           requeued == [fb[f] EXCEPT !.status = "pending", !.token = NoToken,
                                     !.lease = FALSE, !.requeues = 1, !.err = "none"]
           err == IF proc[p].mode = "final" THEN Kept(proc[p].err)
                  ELSE IF proc[p].node = "finish_budget_exhausted" THEN "budget"
                  ELSE "none"
           moved_on == [fb[f] EXCEPT !.status = proc[p].goal, !.lease = FALSE, !.err = err]
<1>1. /\ proc[p].goal \in FeedbackStatus /\ proc[p].err \in Errors /\ f \in Feedback
      /\ fb[f] \in FeedbackRow /\ fb \in [Feedback -> FeedbackRow]
  BY Started DEF ProcOK, Process, TypeInv, RowsOK
<1>2. err \in Errors
  BY <1>1, KeptTyped DEF Errors
<1>3. fb' = [fb EXCEPT ![f] = IF proc[p].seen = "stale_base" /\ proc[p].goal = "pending"
                              THEN requeued ELSE moved_on]
  BY <1>1 DEF Written
<1> HIDE DEF f, err
<1>4. requeued \in FeedbackRow
  <2>1. "pending" \in FeedbackStatus /\ 1 \in 0..1 /\ "none" \in Errors
    BY DEF FeedbackStatus, Errors
  <2> QED
    BY <1>1, <2>1 DEF FeedbackRow
<1>5. moved_on \in FeedbackRow
  BY <1>1, <1>2 DEF FeedbackRow
<1> HIDE DEF requeued, moved_on
<1>6. fb' \in [Feedback -> FeedbackRow]
  BY <1>1, <1>3, <1>4, <1>5
<1> QED
  BY <1>6 DEF TypeInv, RowsOK

LEMMA WriteFeedbackOK ==
    ASSUME TypeInv, NEW p \in Procs, WriteFeedback(p)
    PROVE  TypeInv'
<1>1. /\ proc[p].pc = "cas" /\ proc[p] \in Process /\ ProcOK(proc[p])
      /\ proc \in [Procs -> Process]
  BY Started DEF WriteFeedback, TypeInv, ProcsOK
<1>2. /\ proc[p].mode = "graph" => proc[p].node \in WritingNodes
      /\ proc[p].mode = "reopen" => proc[p].goal \in RetryGoals
      /\ proc[p].goal \in FeedbackStatus
      /\ Handed(proc[p].node, proc[p].out) /\ proc[p].out \in Conclusions
  BY <1>1 DEF ProcOK, WritingNodes, Process
<1>u. UNCHANGED <<run, claims, verdict, pulls, issues, moved, lost, faults>>
  BY DEF WriteFeedback
<1>3. RowsOK'
  BY <1>1, <1>u, WrittenOK, Kept_ DEF WriteFeedback
<1>4. ProcsOK' /\ CkptsOK'
  <2>1. CASE Raise(p, "other")
    BY <1>1, <2>1, RaiseOK DEF Errors
  <2>2. ASSUME NEW m \in Chained(p), UNCHANGED ckpt,
               proc' = [proc EXCEPT ![p].pc = "get", ![p].goal = m[2], ![p].seen = "none"]
        PROVE  ProcsOK' /\ CkptsOK'
    <3> DEFINE next == [proc[p] EXCEPT !.pc = "get", !.goal = m[2], !.seen = "none"]
    <3>1. proc[p].mode = "graph" /\ m \in Moves(proc[p].node, proc[p].out)
      BY <2>2 DEF Chained
    <3>2. m[2] \in FeedbackStatus
      BY <1>2, <3>1, MovesTyped DEF WritingNodes
    <3>3. next \in Process
      BY <1>1, <3>2 DEF Process, Steps
    <3>4. /\ next.pc = "get" /\ next.goal = m[2] /\ next.tok = proc[p].tok
          /\ next.fid = proc[p].fid /\ next.node = proc[p].node
          /\ next.out = proc[p].out /\ next.mode = proc[p].mode
      BY <1>1 DEF Process
    <3>5. proc' = [proc EXCEPT ![p] = next]
      BY <1>1, <2>2
    <3> HIDE DEF next
    <3>6. ProcsOK'
      BY <1>1, <1>2, <3>1, <3>2, <3>3, <3>4, <3>5, PursueOK
    <3> QED
      BY <2>2, <3>6, Kept_
  <2>3. ASSUME UNCHANGED ckpt,
               proc' = [proc EXCEPT ![p].pc = "runget", ![p].seen = "none",
                                    ![p].goal = IF proc[p].mode = "reopen" THEN @ ELSE "none"]
        PROVE  ProcsOK' /\ CkptsOK'
    <3> DEFINE goal == IF proc[p].mode = "reopen" THEN proc[p].goal ELSE "none"
               next == [proc[p] EXCEPT !.pc = "runget", !.seen = "none", !.goal = goal]
    <3>1. goal \in FeedbackStatus \cup {"none"}
      BY <1>2
    <3>2. next \in Process
      BY <1>1, <3>1 DEF Process, Steps
    <3>3. /\ next.pc = "runget" /\ next.goal = goal /\ next.tok = proc[p].tok
          /\ next.fid = proc[p].fid /\ next.node = proc[p].node
          /\ next.out = proc[p].out /\ next.mode = proc[p].mode
      BY <1>1 DEF Process
    <3>4. proc' = [proc EXCEPT ![p] = next]
      BY <1>1, <2>3
    <3>5. next.mode = "reopen" => next.goal \in RetryGoals
      BY <1>2, <3>3
    <3> HIDE DEF next
    <3>6. ProcsOK'
      BY <1>1, <1>2, <3>2, <3>3, <3>4, <3>5, PursueOK
    <3> QED
      BY <2>3, <3>6, Kept_
  <2> QED
    BY <2>1, <2>2, <2>3 DEF WriteFeedback
<1> QED
  BY <1>3, <1>4, <1>u, Kept_ DEF TypeInv

\* The same for the run row.
LEMMA ContinueAtOK ==
    ASSUME TypeInv, NEW p \in Procs, NEW seen \in RunStatus \cup {"none"},
           NEW goal \in RunStatus, ContinueAt(p, seen, goal),
           proc[p].pc = "runget"
    PROVE  ProcsOK'
<1> DEFINE next == [proc[p] EXCEPT !.pc = "patch", !.seen = seen, !.goal = goal]
<1>1. proc[p] \in Process /\ proc \in [Procs -> Process] /\ ProcOK(proc[p])
  BY Started DEF TypeInv, ProcsOK
<1>2. next \in Process
  BY <1>1 DEF Process, Steps
<1>3. /\ next.pc = "patch" /\ next.goal = goal /\ next.tok = proc[p].tok
      /\ next.fid = proc[p].fid /\ next.node = proc[p].node /\ next.out = proc[p].out
      /\ next.mode = proc[p].mode
  BY <1>1 DEF Process
<1>4. proc' = [proc EXCEPT ![p] = next]
  BY <1>1 DEF ContinueAt
<1>5. proc[p].mode = "graph" => proc[p].node \in WritingNodes
  BY <1>1 DEF ProcOK, WritingNodes
<1> HIDE DEF next
<1> QED
  BY <1>2, <1>3, <1>4, <1>5, PursueOK

LEMMA ReadRunOK ==
    ASSUME TypeInv, NEW p \in Procs,
           ReadRunInGraph(p) \/ ReadRunToFail(p) \/ ReadRunToReopen(p)
    PROVE  TypeInv'
<1> DEFINE now == run[proc[p].tok].status
<1>1. /\ proc[p].pc = "runget" /\ proc[p] \in Process /\ ProcOK(proc[p])
      /\ proc[p].tok \in Tokens /\ proc[p].fid \in Feedback
      /\ now \in RunStatus \cup {"none"}
  BY Started DEF ReadRunInGraph, ReadRunToFail, ReadRunToReopen, RunRow
<1>2. CASE ReadRunInGraph(p)
  <2> DEFINE mv == RunMove(proc[p].node, proc[p].out)
  <2>1. mv[2] \in RunStatus /\ mv[1] \in RunStatus \cup {"any"}
    BY <1>1, RunMoveTyped DEF Process
  <2>2. proc[p].mode = "graph" /\ proc[p].node \in WritingNodes
    BY <1>1, <1>2 DEF ReadRunInGraph, ProcOK, WritingNodes
  <2>3. \/ Goto(p, "save")
        \/ ContinueAt(p, IF mv[1] = "any" THEN now ELSE mv[1], mv[2])
    BY <1>2 DEF ReadRunInGraph
  <2>4. (IF mv[1] = "any" THEN now ELSE mv[1]) \in RunStatus \cup {"none"}
    BY <1>1, <2>1
  <2> HIDE DEF mv, now
  <2>5. ProcsOK'
    BY <1>1, <2>1, <2>2, <2>3, <2>4, GotoOK, ContinueAtOK
  <2> QED
    BY <1>2, <2>5, Kept_ DEF ReadRunInGraph, TypeInv
<1>3. CASE ReadRunToFail(p)
  <2>1. FailedRun(proc[p].err) \in RunStatus
    BY DEF FailedRun, RunStatus
  <2>2. \/ proc' = [proc EXCEPT ![p] = Idle]
        \/ ContinueAt(p, now, FailedRun(proc[p].err))
    BY <1>3 DEF ReadRunToFail
  <2> HIDE DEF now
  <2>3. ProcsOK'
    BY <1>1, <2>1, <2>2, IdleOK, ProcUpdate, ContinueAtOK DEF TypeInv
  <2> QED
    BY <1>3, <2>3, Kept_ DEF ReadRunToFail, TypeInv
<1>4. CASE ReadRunToReopen(p)
  <2>1. proc[p].goal \in RetryGoals
    BY <1>1, <1>4 DEF ReadRunToReopen, ProcOK
  <2>2. \/ proc' = [proc EXCEPT ![p] = Reopened(proc[p].tok, proc[p].fid)]
        \/ proc' = [proc EXCEPT ![p] = Idle]
        \/ \E goal \in RetryGoals : ContinueAt(p, now, goal)
    BY <1>4, <2>1 DEF ReadRunToReopen, RetryGoals
  <2>3. RetryGoals \subseteq RunStatus
    BY DEF RetryGoals, RunStatus
  <2> HIDE DEF now
  <2>4. ProcsOK'
    BY <1>1, <2>2, <2>3, IdleOK, ReopenedOK, ProcUpdate, ContinueAtOK DEF TypeInv
  <2> QED
    BY <1>4, <2>4, Kept_ DEF ReadRunToReopen, TypeInv
<1> QED
  BY <1>2, <1>3, <1>4

LEMMA PatchedOK ==
    ASSUME TypeInv, WorksOnRun, NEW p \in Procs, proc[p].pc = "patch", run' = Patched(p)
    PROVE  RunsOK'
<1> DEFINE t == proc[p].tok
           err == IF proc[p].mode = "final" THEN Kept(proc[p].err)
                  ELSE IF proc[p].mode = "reopen" THEN "none"
                  ELSE IF proc[p].node = "finish_budget_exhausted" THEN "budget"
                  ELSE run[t].err
           valid == run[t].valid \/ (proc[p].mode = "graph" /\ proc[p].goal = "publishing")
<1>1. /\ proc[p].goal \in RunStatus /\ proc[p].err \in Errors /\ t \in Tokens
      /\ run[t] \in RunRow /\ run \in [Tokens -> RunRow] /\ run[t].fid \in Feedback
  BY Started DEF ProcOK, Process, TypeInv, RunsOK, WorksOnRun, Fresh
<1>2. err \in Errors /\ valid \in BOOLEAN
  BY <1>1, KeptTyped DEF Errors, RunRow
<1>3. PatchedRow(p) = [run[t] EXCEPT !.status = proc[p].goal, !.err = err, !.valid = valid]
  BY DEF PatchedRow
<1> HIDE DEF t, err, valid
<1>4. PatchedRow(p) \in RunRow
  BY <1>1, <1>2, <1>3 DEF RunRow
<1>5. PatchedRow(p).fid \in Feedback
  BY <1>1, <1>3 DEF RunRow
<1>6. RunOK(PatchedRow(p))
  BY <1>4, <1>5 DEF RunOK
<1> QED
  BY <1>1, <1>4, <1>6 DEF TypeInv, RunsOK, Patched, t

LEMMA PatchRunOK ==
    ASSUME TypeInv, WorksOnRun, NEW p \in Procs, PatchRun(p)
    PROVE  TypeInv'
<1>1. /\ proc[p].pc = "patch" /\ proc[p] \in Process /\ ProcOK(proc[p])
      /\ proc[p].tok \in Tokens /\ proc[p].fid \in Feedback
  BY Started DEF PatchRun
<1>2. RunsOK'
  BY <1>1, PatchedOK, Kept_ DEF PatchRun
<1>3. ProcsOK' /\ CkptsOK'
  <2>1. CASE Raise(p, "other")
    BY <1>1, <2>1, RaiseOK DEF Errors
  <2>2. CASE proc[p].mode = "graph" /\ Goto(p, "save") /\ UNCHANGED ckpt
    BY <1>1, <2>2, GotoOK, Kept_ DEF ProcOK, WritingNodes
  <2>3. CASE proc' = [proc EXCEPT ![p] = Idle] /\ UNCHANGED ckpt
    BY <2>3, IdleOK, ProcUpdate, Kept_ DEF TypeInv
  <2>4. CASE proc' = [proc EXCEPT ![p] = Reopened(proc[p].tok, proc[p].fid)]
             /\ UNCHANGED ckpt
    BY <1>1, <2>4, ReopenedOK, ProcUpdate, Kept_ DEF TypeInv
  <2>5. proc[p].mode \in {"graph", "final", "reopen"}
    BY <1>1 DEF Process
  <2> QED
    BY <2>1, <2>2, <2>3, <2>4, <2>5 DEF PatchRun
<1>4. UNCHANGED <<fb, claims, verdict, pulls, issues, moved, lost, faults>>
  BY DEF PatchRun
<1> QED
  BY <1>2, <1>3, <1>4, Kept_ DEF TypeInv

\* The process goes on with the node that follows.
LEMMA FollowOK ==
    ASSUME TypeInv, NEW p \in Procs, proc[p].pc = "save", NEW next \in Process,
           next = [proc[p] EXCEPT !.pc = "node", !.node = Following(p),
                                  !.unsaved = next.unsaved]
    PROVE  ProcOK(next)
<1>1. proc[p] \in Process /\ ProcOK(proc[p])
  BY Started
<1>2. /\ next.pc = "node" /\ next.tok = proc[p].tok /\ next.fid = proc[p].fid
      /\ next.node = Following(p) /\ next.out = proc[p].out /\ next.mode = proc[p].mode
  BY <1>1 DEF Process
<1> QED
  BY <1>1, <1>2 DEF ProcOK, Following

LEMMA NextNodeOK ==
    ASSUME TypeInv, NEW p \in Procs, NextNode(p)
    PROVE  TypeInv'
<1> DEFINE next == [proc[p] EXCEPT !.pc = "node", !.node = Following(p), !.unsaved = TRUE]
<1>1. proc[p].pc = "save" /\ proc[p] \in Process /\ ProcOK(proc[p])
  BY Started DEF NextNode
<1>2. Following(p) \in Nodes \cup {"end"}
  BY <1>1, SuccessorTyped DEF Following, Process
<1>3. CkptOK([node |-> "end", out |-> proc[p].out])
  BY <1>1 DEF CkptOK, Checkpoint, Process, Handed
<1>4. CkptsOK'
  BY <1>3 DEF TypeInv, CkptsOK, CkptOK, NextNode
<1>5. next \in Process /\ next.unsaved = TRUE
  BY <1>1, <1>2 DEF Process, Steps
<1>6. ProcOK(next)
  BY <1>1, <1>5, FollowOK
<1>7. \/ proc' = [proc EXCEPT ![p] = Idle]
      \/ proc' = [proc EXCEPT ![p] = next]
  BY DEF NextNode, TypeInv, ProcsOK
<1>8. ProcsOK'
  BY <1>6, <1>7, IdleOK, ProcUpdate DEF TypeInv
<1>9. UNCHANGED <<fb, run, claims, verdict, pulls, issues, moved, lost, faults>>
  BY DEF NextNode
<1> QED
  BY <1>4, <1>8, <1>9, Kept_ DEF TypeInv

LEMMA PutCheckpointOK ==
    ASSUME TypeInv, NEW p \in Procs, PutCheckpoint(p)
    PROVE  TypeInv'
<1> DEFINE next == [proc[p] EXCEPT !.unsaved = FALSE]
<1>1. /\ proc[p].pc # "save" /\ proc[p] \in Process /\ ProcOK(proc[p])
      /\ proc \in [Procs -> Process]
  BY Started DEF PutCheckpoint, TypeInv, ProcsOK
<1>2. CkptOK([node |-> proc[p].node, out |-> proc[p].out])
  BY <1>1 DEF ProcOK, Process, CkptOK, Checkpoint
<1>3. CkptsOK'
  BY <1>2 DEF TypeInv, CkptsOK, CkptOK, PutCheckpoint
<1>4. /\ next \in Process /\ next.pc = proc[p].pc /\ next.tok = proc[p].tok
      /\ next.fid = proc[p].fid /\ next.node = proc[p].node /\ next.out = proc[p].out
      /\ next.mode = proc[p].mode /\ next.goal = proc[p].goal
  BY <1>1 DEF Process
<1>5. proc' = [proc EXCEPT ![p] = next]
  BY <1>1 DEF PutCheckpoint
<1> HIDE DEF next
<1>6. ProcOK(next)
  BY <1>1, <1>4 DEF ProcOK
<1>7. ProcsOK'
  BY <1>5, <1>6, ProcUpdate DEF TypeInv
<1>8. UNCHANGED <<fb, run, claims, verdict, pulls, issues, moved, lost, faults>>
  BY DEF PutCheckpoint
<1> QED
  BY <1>3, <1>7, <1>8, Kept_ DEF TypeInv

-----------------------------------------------------------------------------
(* The faults *)

LEMMA FaultOK ==
    ASSUME TypeInv, NEW k, Fault(k), UNCHANGED <<verdict, pulls, issues, moved, lost>>
    PROVE  RestOK'
BY RunAssumption, ClaimsAssumption DEF Fault, TypeInv, RestOK, RunAssumption

LEMMA FaultyOK ==
    ASSUME TypeInv, WorksOnRun, NEW p \in Procs, Faulty(p)
    PROVE  TypeInv'
<1>1. RestOK'
  BY FaultOK DEF Faulty, Crash, RepoError, LostReply
<1>2. proc[p] \in Process /\ ProcOK(proc[p])
  BY Started
<1>4. CASE Crash(p)
  <2>1. ProcsOK'
    BY <1>4, IdleOK, ProcUpdate DEF Crash, TypeInv
  <2> QED
    BY <1>1, <1>4, <2>1, Kept_ DEF Crash, TypeInv
<1>5. CASE RepoError(p)
  <2>1. ProcsOK' /\ CkptsOK'
    BY <1>5, RaiseOK DEF RepoError, Errors, BeforeGraph
  <2> QED
    BY <1>1, <1>5, <2>1, Kept_ DEF RepoError, TypeInv
<1>6. CASE LostReply(p)
  <2>1. ProcsOK' /\ CkptsOK'
    BY <1>6, RaiseOK DEF LostReply, Errors
  <2>2. RowsOK' /\ RunsOK'
    <3>1. UNCHANGED claims
      BY <1>6 DEF LostReply
    <3>2. CASE proc[p].pc = "cas" /\ fb' = Written(p) /\ UNCHANGED run
      BY <3>1, <3>2, WrittenOK, Kept_
    <3>3. CASE proc[p].pc = "patch" /\ run' = Patched(p) /\ UNCHANGED fb
      BY <3>1, <3>3, PatchedOK, Kept_
    <3>4. CASE proc[p].pc = "create" /\ run' = RunCreated(proc[p].tok, proc[p].fid)
               /\ UNCHANGED fb
      BY <3>1, <3>4, RunCreatedOK, Started, Kept_
    <3> QED
      BY <1>6, <3>2, <3>3, <3>4 DEF LostReply
  <2> QED
    BY <1>1, <2>1, <2>2 DEF TypeInv
<1> QED
  BY <1>4, <1>5, <1>6 DEF Faulty

LEMMA LoseArtifactsOK ==
    ASSUME TypeInv, NEW t \in Tokens, LoseArtifacts(t)
    PROVE  TypeInv'
<1>1. RestOK'
  BY RunAssumption, ClaimsAssumption DEF LoseArtifacts, Fault, TypeInv, RestOK, RunAssumption
<1> QED
  BY <1>1, Kept_ DEF LoseArtifacts, TypeInv

-----------------------------------------------------------------------------
(* The run a process works on *)

\* A step of p keeps WorksOnRun if p stays with its run, or lets go of it.
LEMMA StaysWithRun ==
    ASSUME TypeInv, WorksOnRun, NEW p \in Procs, proc[p].pc \notin Fresh, UNCHANGED run,
           NEW next, proc' = [proc EXCEPT ![p] = next],
           next.tok = proc[p].tok \/ next.pc \in Fresh
    PROVE  WorksOnRun'
BY DEF TypeInv, ProcsOK, WorksOnRun

LEMMA IdleIsFresh == Idle.pc \in Fresh
BY DEF Idle, Fresh

LEMMA ExecutingTok == ASSUME NEW t, NEW f PROVE Executing(t, f).tok = t
BY DEF Executing, Idle

LEMMA ReopenedTok == ASSUME NEW t, NEW f PROVE Reopened(t, f).tok = t
BY DEF Reopened, Idle

\* Raise lets go of the run or keeps it, whatever else happens in the step.
LEMMA RaiseStays ==
    ASSUME TypeInv, NEW p \in Procs, NEW e, Raise(p, e)
    PROVE  /\ \A q \in Procs \ {p} : proc'[q] = proc[q]
           /\ \/ proc'[p].pc \in Fresh
              \/ proc'[p].tok = proc[p].tok /\ proc[p].pc \notin {"claim", "create"}
<1>1. proc[p] \in Process /\ proc \in [Procs -> Process]
  BY DEF TypeInv, ProcsOK
<1> DEFINE failed == [proc[p] EXCEPT !.pc = "fail", !.mode = "final", !.err = e,
                                     !.seen = "none", !.goal = "none", !.unsaved = FALSE]
<1>2. \/ proc[p].pc \notin {"claim", "create"} /\ proc' = [proc EXCEPT ![p] = failed]
      \/ proc' = [proc EXCEPT ![p] = Idle]
  BY DEF Raise, BeforeGraph
<1>3. failed.tok = proc[p].tok
  BY <1>1 DEF Process
<1> HIDE DEF failed
<1> QED
  BY <1>1, <1>2, <1>3, IdleIsFresh

LEMMA NodeStays ==
    ASSUME TypeInv, WorksOnRun, NEW p \in Procs,
           \/ ClassifyGate(p) \/ PrepareSource(p) \/ RepairAgent(p) \/ ValidateFinal(p)
           \/ PublishIssue(p) \/ LookForPull(p) \/ PostPull(p) \/ NothingPending(p)
           \/ PostFails(p) \/ NodeFails(p) \/ ArtifactMissing(p)
    PROVE  WorksOnRun'
<1>1. proc[p].pc \in {"node", "post"} /\ UNCHANGED run
  BY DEF ClassifyGate, PrepareSource, RepairAgent, ValidateFinal, PublishIssue,
         LookForPull, PostPull, NothingPending, PostFails, NodeFails, ArtifactMissing, At
<1>2. proc[p] \in Process /\ proc \in [Procs -> Process] /\ proc[p].pc \notin Fresh
  BY <1>1 DEF TypeInv, ProcsOK, Fresh
<1>3. CASE \E e : Raise(p, e)
  BY <1>1, <1>2, <1>3, RaiseStays DEF WorksOnRun
<1>4. CASE \E out : Conclude(p, out)
  BY <1>1, <1>2, <1>4 DEF WorksOnRun, Conclude, Process
<1>5. CASE Goto(p, "runget") \/ Goto(p, "post")
  BY <1>1, <1>2, <1>5 DEF WorksOnRun, Goto, Process
<1>6. CASE NothingPending(p)
  BY <1>1, <1>2, <1>6, IdleIsFresh, StaysWithRun DEF NothingPending
<1> QED
  BY <1>3, <1>4, <1>5, <1>6
     DEF ClassifyGate, PrepareSource, RepairAgent, ValidateFinal, PublishIssue,
         LookForPull, PostPull, PostFails, NodeFails, ArtifactMissing

LEMMA ResumeStays ==
    ASSUME TypeInv, WorksOnRun, NEW p \in Procs,
           \/ ReadRunToResume(p) \/ ReadThread(p) \/ StartGraph(p) \/ PutCheckpoint(p)
           \/ NextNode(p)
    PROVE  WorksOnRun'
<1>1. proc[p] \in Process /\ proc \in [Procs -> Process] /\ UNCHANGED run
  BY DEF TypeInv, ProcsOK, ReadRunToResume, ReadThread, StartGraph, PutCheckpoint, NextNode
<1>2. CASE ReadRunToResume(p)
  BY <1>1, <1>2 DEF ReadRunToResume, WorksOnRun, Fresh, Process
<1>3. CASE ReadThread(p)
  <2> DEFINE known == [proc[p] EXCEPT !.seen = "none", !.err = "none"]
  <2>1. known.tok = proc[p].tok /\ known \in Process /\ proc[p].pc \notin Fresh
    BY <1>1, <1>3 DEF Process, Errors, ReadThread, Fresh
  <2> HIDE DEF known
  <2>2. /\ [known EXCEPT !.pc = "start"].tok = proc[p].tok
        /\ \A goal : [known EXCEPT !.pc = "get", !.mode = "reopen", !.goal = goal].tok
                       = proc[p].tok
    BY <2>1 DEF Process
  <2>3. \/ \E goal \in ReopenGoals(p) :
             proc' = [proc EXCEPT ![p] = [known EXCEPT !.pc = "get", !.mode = "reopen",
                                                       !.goal = goal]]
        \/ proc' = [proc EXCEPT ![p] = [known EXCEPT !.pc = "start"]]
        \/ proc' = [proc EXCEPT ![p] = Idle]
    BY <1>3 DEF ReadThread, known
  <2> QED
    BY <1>1, <2>1, <2>2, <2>3, IdleIsFresh, StaysWithRun
<1>4. CASE StartGraph(p)
  BY <1>1, <1>4, ExecutingTok, StaysWithRun DEF StartGraph, Fresh
<1>5. CASE PutCheckpoint(p)
  BY <1>1, <1>5 DEF PutCheckpoint, WorksOnRun, Process
<1>6. CASE NextNode(p)
  BY <1>1, <1>6, IdleIsFresh DEF NextNode, WorksOnRun, Fresh, Process
<1> QED
  BY <1>2, <1>3, <1>4, <1>5, <1>6

LEMMA WriteStays ==
    ASSUME TypeInv, WorksOnRun, NEW p \in Procs,
           \/ ReadFeedback(p) \/ FinalizeFailure(p) \/ CheckTransition(p)
           \/ CheckReopen(p) \/ WriteFeedback(p)
           \/ ReadRunInGraph(p) \/ ReadRunToFail(p) \/ ReadRunToReopen(p)
    PROVE  WorksOnRun'
<1>1. proc[p].pc \in {"node", "fail", "get", "cas", "runget"} /\ UNCHANGED run
  BY DEF ReadFeedback, FinalizeFailure, CheckTransition, CheckReopen, WriteFeedback,
         ReadRunInGraph, ReadRunToFail, ReadRunToReopen
<1>2. proc[p] \in Process /\ proc \in [Procs -> Process] /\ proc[p].pc \notin Fresh
  BY <1>1 DEF TypeInv, ProcsOK, Fresh
<1>3. CASE \E e : Raise(p, e)
  BY <1>1, <1>2, <1>3, RaiseStays DEF WorksOnRun
<1>4. CASE \E pc : Goto(p, pc)
  BY <1>1, <1>2, <1>4 DEF WorksOnRun, Goto, Process
<1>5. CASE \E goal : proc' = [proc EXCEPT ![p].pc = "get", ![p].goal = goal]
  BY <1>1, <1>2, <1>5 DEF WorksOnRun, Process
<1>6. CASE \E seen : proc' = [proc EXCEPT ![p].pc = "cas", ![p].seen = seen]
  BY <1>1, <1>2, <1>6 DEF WorksOnRun, Process
<1>7. CASE CheckReopen(p)
  BY <1>1, <1>2, <1>3, <1>7 DEF WorksOnRun, Process, CheckReopen
<1>8. CASE WriteFeedback(p)
  <2>1. CASE \E pc, goal : proc' = [proc EXCEPT ![p].pc = pc, ![p].goal = goal,
                                               ![p].seen = "none"]
    BY <1>1, <1>2, <2>1 DEF WorksOnRun, Process
  <2>2. CASE \E pc, goal : proc' = [proc EXCEPT ![p].pc = pc, ![p].seen = "none",
                                               ![p].goal = goal]
    BY <1>1, <1>2, <2>2 DEF WorksOnRun, Process
  <2>3. CASE proc' = [proc EXCEPT ![p].pc = "runget", ![p].seen = "none",
                                  ![p].goal = IF proc[p].mode = "reopen" THEN @ ELSE "none"]
    <3> DEFINE goal == IF proc[p].mode = "reopen" THEN proc[p].goal ELSE "none"
    <3>1. proc' = [proc EXCEPT ![p].pc = "runget", ![p].seen = "none", ![p].goal = goal]
      BY <1>2, <2>3
    <3> QED
      BY <2>2, <3>1
  <2> QED
    BY <1>3, <1>8, <2>1, <2>3 DEF WriteFeedback
<1>9. CASE proc' = [proc EXCEPT ![p] = Idle]
  BY <1>1, <1>2, <1>9, IdleIsFresh, StaysWithRun
<1>10. CASE \E seen, goal : ContinueAt(p, seen, goal)
  BY <1>1, <1>2, <1>10 DEF WorksOnRun, Process, ContinueAt
<1>11. CASE proc' = [proc EXCEPT ![p] = Reopened(proc[p].tok, proc[p].fid)]
  BY <1>1, <1>2, <1>11, ReopenedTok, StaysWithRun
<1> QED
  BY <1>3, <1>4, <1>5, <1>6, <1>7, <1>8, <1>9, <1>10, <1>11
     DEF ReadFeedback, FinalizeFailure, CheckTransition, ReadRunInGraph,
         ReadRunToFail, ReadRunToReopen

\* Rows of agent_runs do not lose their feedback.
LEMMA PatchedStays ==
    ASSUME TypeInv, NEW p \in Procs, run' = Patched(p)
    PROVE  \A t \in Tokens : run'[t].fid = run[t].fid
<1>1. run \in [Tokens -> RunRow] /\ \A t \in Tokens : run[t] \in RunRow
  BY DEF TypeInv, RunsOK
<1>2. ASSUME proc[p].tok \in Tokens
      PROVE  PatchedRow(p).fid = run[proc[p].tok].fid
  BY <1>1, <1>2 DEF PatchedRow, RunRow
<1> QED
  BY <1>1, <1>2 DEF Patched

LEMMA PatchStays ==
    ASSUME TypeInv, WorksOnRun, NEW p \in Procs, PatchRun(p)
    PROVE  WorksOnRun'
<1>1. proc[p].pc = "patch" /\ proc[p].pc \notin Fresh
  BY DEF PatchRun, Fresh
<1>2. proc[p] \in Process /\ proc \in [Procs -> Process]
  BY DEF TypeInv, ProcsOK
<1>3. \A q \in Procs : proc[q].pc \notin Fresh => proc[q].tok \in Tokens
  BY Started DEF Fresh
<1>4. \A t \in Tokens : run'[t].fid = run[t].fid
  BY PatchedStays DEF PatchRun
<1>5. /\ \A q \in Procs \ {p} : proc'[q] = proc[q]
      /\ proc'[p].pc \in Fresh \/ proc'[p].tok = proc[p].tok
  <2>1. CASE Raise(p, "other")
    BY <2>1, RaiseStays
  <2>2. CASE Goto(p, "save")
    BY <1>2, <2>2 DEF Goto, Process
  <2>3. CASE proc' = [proc EXCEPT ![p] = Idle]
    BY <1>2, <2>3, IdleIsFresh
  <2>4. CASE proc' = [proc EXCEPT ![p] = Reopened(proc[p].tok, proc[p].fid)]
    BY <1>2, <2>4, ReopenedTok
  <2>5. proc[p].mode \in {"graph", "final", "reopen"}
    BY <1>2 DEF Process
  <2> QED
    BY <2>1, <2>2, <2>3, <2>4, <2>5 DEF PatchRun
<1> QED
  BY <1>1, <1>3, <1>4, <1>5 DEF WorksOnRun

LEMMA FaultyStays ==
    ASSUME TypeInv, WorksOnRun, NEW p \in Procs, Faulty(p)
    PROVE  WorksOnRun'
<1>1. proc[p] \in Process /\ proc \in [Procs -> Process]
  BY DEF TypeInv, ProcsOK
<1>2. \A q \in Procs : proc[q].pc \notin Fresh => proc[q].tok \in Tokens
  BY Started DEF Fresh
<1>4. CASE Crash(p)
  BY <1>1, <1>4, IdleIsFresh DEF Crash, WorksOnRun
<1>5. CASE RepoError(p)
  <2>1. UNCHANGED run /\ proc[p].pc # "idle" /\ Raise(p, "other")
    BY <1>5 DEF RepoError, BeforeGraph
  <2> QED
    BY <1>1, <2>1, RaiseStays DEF WorksOnRun, Fresh
<1>6. CASE LostReply(p)
  <2>1. Raise(p, "other") /\ proc[p].pc # "idle"
    BY <1>6 DEF LostReply
  <2>2. \A t \in Tokens : run[t].fid \in Feedback => run'[t].fid \in Feedback
    <3>1. CASE UNCHANGED run
      BY <3>1
    <3>2. CASE run' = Patched(p)
      BY <3>2, PatchedStays
    <3>3. CASE proc[p].pc = "create" /\ run' = RunCreated(proc[p].tok, proc[p].fid)
      BY <3>3, Started DEF RunCreated, TypeInv, RunsOK
    <3> QED
      BY <1>6, <3>1, <3>2, <3>3 DEF LostReply
  <2> QED
    BY <1>1, <1>2, <2>1, <2>2, RaiseStays DEF WorksOnRun, Fresh
<1> QED
  BY <1>4, <1>5, <1>6 DEF Faulty

LEMMA EntryStays ==
    ASSUME TypeInv, WorksOnRun, NEW p \in Procs,
           \/ Poll(p) \/ ClaimNext(p) \/ CreateRun(p) \/ Command(p)
    PROVE  WorksOnRun'
<1>1. proc[p] \in Process /\ proc \in [Procs -> Process] /\ run \in [Tokens -> RunRow]
  BY DEF TypeInv, ProcsOK, RunsOK
<1>2. \A q \in Procs : proc[q].pc \notin Fresh => proc[q].tok \in Tokens
  BY Started DEF Fresh
<1>3. ASSUME NEW t \in Tokens, PollResume(p, t) \/ ResumeById(p, t)
      PROVE  WorksOnRun'
  <2>1. run[t].fid \in Feedback /\ UNCHANGED run
    BY <1>3 DEF TypeInv, RunsOK, RunOK, PollResume, ResumeById, Active, ActiveRun, Created
  <2>2. Resuming(t).tok = t
    BY DEF Resuming, Idle
  <2>3. proc' = [proc EXCEPT ![p] = Resuming(t)]
    BY <1>3 DEF PollResume, ResumeById
  <2> QED
    BY <1>1, <2>1, <2>2, <2>3 DEF WorksOnRun
<1>4. CASE PollEmpty(p)
  BY <1>1, <1>4 DEF PollEmpty, Goto, WorksOnRun, Fresh, Process
<1>5. ASSUME NEW gone, GiveUp(p, gone)
      PROVE  WorksOnRun'
  BY <1>1, <1>5, IdleIsFresh DEF GiveUp, WorksOnRun
<1>6. ASSUME NEW f, NEW gone, Claim(p, f, gone)
      PROVE  WorksOnRun'
  BY <1>1, <1>6 DEF Claim, WorksOnRun, Fresh, Idle
<1>7. CASE CreateRun(p)
  <2>1. proc[p].tok \in Tokens /\ proc[p].fid \in Feedback
    BY <1>7, Started DEF CreateRun
  <2>2. \A t \in Tokens : run[t].fid \in Feedback \/ t = proc[p].tok => run'[t].fid \in Feedback
    BY <1>1, <1>7, <2>1 DEF CreateRun, RunCreated
  <2>3. proc' = [proc EXCEPT ![p] = Executing(proc[p].tok, proc[p].fid)]
    BY <1>7 DEF CreateRun
  <2> QED
    BY <1>1, <1>2, <2>1, <2>2, <2>3, ExecutingTok DEF WorksOnRun
<1> QED
  BY <1>3, <1>4, <1>5, <1>6, <1>7 DEF Poll, ClaimNext, Command, ClaimById

-----------------------------------------------------------------------------
(* The invariant *)

LEMMA TypeInit == Init => TypeInv /\ WorksOnRun
<1> SUFFICES ASSUME Init PROVE TypeInv /\ WorksOnRun
  OBVIOUS
<1> USE RunAssumption, ClaimsAssumption DEF RunAssumption
<1>1. ProcsOK /\ WorksOnRun
  BY IdleOK, IdleIsFresh DEF Init, ProcsOK, ProcOK, WorksOnRun
<1>2. RunsOK
  BY DEF Init, RunsOK, RunOK, RunRow, Errors
<1>3. CkptsOK
  BY DEF Init, CkptsOK, CkptOK, Checkpoint, Nodes, Conclusions, Handed
<1>4. RowsOK
  BY DEF Init, RowsOK, FeedbackRow, Errors, NoToken
<1>5. RestOK
  BY DEF Init, RestOK
<1> QED
  BY <1>1, <1>2, <1>3, <1>4, <1>5 DEF TypeInv

LEMMA TypeStep == TypeInv /\ WorksOnRun /\ [Next]_vars => TypeInv' /\ WorksOnRun'
<1> SUFFICES ASSUME TypeInv, WorksOnRun, [Next]_vars
             PROVE  TypeInv' /\ WorksOnRun'
  OBVIOUS
<1>p. Schedulers \subseteq Procs /\ Maintainers \subseteq Procs
  BY DEF Procs
<1>1. ASSUME NEW f \in Feedback, Submit(f) \/ ExpireLease(f)
      PROVE  TypeInv' /\ WorksOnRun'
  BY <1>1, EntryOK DEF Submit, ExpireLease, WorksOnRun
<1>2. ASSUME NEW p \in Procs, Poll(p)
      PROVE  TypeInv' /\ WorksOnRun'
  BY <1>2, PollOK, EntryStays
<1>3. ASSUME NEW p \in Procs, Command(p)
      PROVE  TypeInv' /\ WorksOnRun'
  BY <1>3, ClaimByIdOK, ResumingOK, EntryStays DEF Command
<1>4. ASSUME NEW p \in Procs, Work(p)
      PROVE  TypeInv' /\ WorksOnRun'
  <2>1. CASE ClaimNext(p) \/ CreateRun(p)
    BY <2>1, ClaimNextOK, CreateRunOK, EntryStays
  <2>2. CASE \/ ClassifyGate(p) \/ PrepareSource(p) \/ RepairAgent(p) \/ ValidateFinal(p)
             \/ PublishIssue(p) \/ LookForPull(p) \/ PostPull(p) \/ NothingPending(p)
             \/ PostFails(p) \/ NodeFails(p) \/ ArtifactMissing(p)
    BY <2>2, ConcludingNodesOK, OtherNodesOK, NodeStays
  <2>3. CASE \/ ReadFeedback(p) \/ FinalizeFailure(p) \/ CheckTransition(p)
             \/ CheckReopen(p) \/ WriteFeedback(p)
             \/ ReadRunInGraph(p) \/ ReadRunToFail(p) \/ ReadRunToReopen(p)
    BY <2>3, ReadFeedbackOK, FinalizeFailureOK, CheckTransitionOK, CheckReopenOK,
       WriteFeedbackOK, ReadRunOK, WriteStays
  <2>4. CASE PatchRun(p)
    BY <2>4, PatchRunOK, PatchStays
  <2>5. CASE ReadRunToResume(p) \/ ReadThread(p) \/ StartGraph(p) \/ NextNode(p)
    BY <2>5, ResumeOK, NextNodeOK, ResumeStays
  <2> QED
    BY <1>4, <2>1, <2>2, <2>3, <2>4, <2>5 DEF Work
<1>5. ASSUME NEW p \in Procs, Faulty(p)
      PROVE  TypeInv' /\ WorksOnRun'
  BY <1>5, FaultyOK, FaultyStays
<1>8. ASSUME NEW p \in Procs, PutCheckpoint(p)
      PROVE  TypeInv' /\ WorksOnRun'
  BY <1>8, PutCheckpointOK, ResumeStays
<1>6. ASSUME NEW t \in Tokens, LoseArtifacts(t)
      PROVE  TypeInv' /\ WorksOnRun'
  BY <1>6, LoseArtifactsOK DEF LoseArtifacts, WorksOnRun
<1>7. CASE UNCHANGED vars
  <2>1. TypeInv'
    BY <1>7, Kept_ DEF vars, TypeInv
  <2> QED
    BY <1>7, <2>1 DEF vars, WorksOnRun
<1> QED
  BY <1>p, <1>1, <1>2, <1>3, <1>4, <1>5, <1>6, <1>7, <1>8 DEF Next

LEMMA TypeInvTypes == TypeInv => TypeOK
BY DEF TypeInv, ProcsOK, RunsOK, CkptsOK, RowsOK, RestOK, TypeOK, Checkpoint

\* The tables, the checkpoints and the processes' memories keep their types, and a
\* process never writes a goal from the other table's vocabulary.
THEOREM TypeCorrect == Spec => []TypeOK
BY TypeInit, TypeStep, TypeInvTypes, PTL DEF Spec

\* Whatever a process executes is a run that was created for a feedback row.
THEOREM RunsHaveFeedback == Spec => []WorksOnRun
BY TypeInit, TypeStep, PTL DEF Spec

-----------------------------------------------------------------------------
(***************************************************************************)
(* Only validated patches are published, for every set of rows, processes  *)
(* and faults.  The verdict is looked at once, on the edge that leaves     *)
(* finish_validation, and acted upon at publish_pull_request, which may be *)
(* another process, days later, resuming from a checkpoint.  The invariant *)
(* carries what was found out along: in the memory of a process, in every  *)
(* checkpoint, and in the run row a maintainer's retry looks at.           *)
(***************************************************************************)

\* What is known of a run whose next node is n with the conclusion out, where row
\* is its row and v its stored verdict.
Cleared(n, out, row, v) ==
    /\ n = "finish_validation" => v \in {"passed", "rejected"} /\ v = out
    /\ n = "publish_pull_request" => v = "passed" /\ row.valid

\* What is true of a process that works on such a run.
Sound(r, row, v) ==
    /\ Cleared(r.node, r.out, row, v)
    /\ r.pc = "save" => Cleared(Successor(r.node, r.out), r.out, row, v)
    /\ r.pc = "patch" =>
          /\ r.mode = "graph" => r.goal = RunMove(r.node, r.out)[2]
          /\ r.mode = "final" => r.goal # "publishing"
          /\ r.mode = "reopen" /\ r.goal = "publishing" => row.valid

ProcsSound == \A p \in Procs : proc[p].pc \notin Fresh =>
    Sound(proc[p], run[proc[p].tok], verdict[proc[p].tok])

ThreadsCleared == \A t \in Tokens :
    Cleared(ckpt[t].node, ckpt[t].out, run[t], verdict[t])

PublishingIsValid == \A t \in Tokens : run[t].status = "publishing" => run[t].valid

\* A run that is about to be created is new: no other process is to create it, it
\* has no row, its thread is at the start and nothing was published for it.
Unused(t) == run[t].fid = NoFeedback

TokensAreNew ==
    /\ \A p \in Procs : proc[p].pc \in Fresh => ~proc[p].unsaved
    /\ \A p \in Procs : proc[p].pc = "create" => proc[p].tok <= claims /\ Unused(proc[p].tok)
    /\ \A p, q \in Procs : proc[p].pc = "create" /\ proc[q].pc = "create" /\ p # q =>
          proc[p].tok # proc[q].tok
    /\ \A t \in Tokens : t > claims => Unused(t)
    /\ \A t \in Tokens : Unused(t) => ckpt[t].node = "start_gate" /\ t \notin pulls

SafetyInv == /\ ProcsSound /\ ThreadsCleared /\ PublishingIsValid /\ TokensAreNew
             /\ PublishedOnlyValidated

\* What a step may do to a run in use: nothing found out about it is forgotten.
Grows == \A t \in Tokens : run[t].fid \in Feedback =>
    /\ run'[t].fid \in Feedback
    /\ verdict[t] \in {"passed", "rejected"} => verdict'[t] = verdict[t]
    /\ run[t].valid => run'[t].valid

\* Only p moves.
Alone(p) == \A q \in Procs \ {p} : proc'[q] = proc[q]

\* A row and a verdict that say no less.
LEMMA ClearedStays ==
    ASSUME NEW n, NEW out, NEW row, NEW v, NEW later, NEW w, Cleared(n, out, row, v),
           v \in {"passed", "rejected"} => w = v, row.valid => later.valid
    PROVE  Cleared(n, out, later, w)
BY DEF Cleared

LEMMA SoundStays ==
    ASSUME NEW r, NEW row, NEW v, NEW later, NEW w, Sound(r, row, v),
           v \in {"passed", "rejected"} => w = v, row.valid => later.valid
    PROVE  Sound(r, later, w)
BY ClearedStays DEF Sound

\* It is enough to look at the process that moves.
LEMMA ProcsSoundStep ==
    ASSUME TypeInv, WorksOnRun, ProcsSound, Grows, NEW p \in Procs, Alone(p),
           proc'[p].pc \notin Fresh =>
              Sound(proc'[p], run'[proc'[p].tok], verdict'[proc'[p].tok])
    PROVE  ProcsSound'
<1>1. ASSUME NEW q \in Procs, q # p, proc[q].pc \notin Fresh
      PROVE  Sound(proc[q], run'[proc[q].tok], verdict'[proc[q].tok])
  <2>1. proc[q].tok \in Tokens /\ run[proc[q].tok].fid \in Feedback
    BY <1>1, Started DEF WorksOnRun, Fresh
  <2>2. Sound(proc[q], run[proc[q].tok], verdict[proc[q].tok])
    BY <1>1 DEF ProcsSound
  <2> QED
    BY <2>1, <2>2, SoundStays DEF Grows
<1>2. \A q \in Procs : proc'[q].pc \notin Fresh =>
          Sound(proc'[q], run'[proc'[q].tok], verdict'[proc'[q].tok])
  BY <1>1 DEF Alone
<1> QED
  BY <1>2 DEF ProcsSound

\* A process at work knows what it knew.
LEMMA StillCleared ==
    ASSUME TypeInv, WorksOnRun, ProcsSound, Grows, NEW p \in Procs, proc[p].pc \notin Fresh
    PROVE  /\ Cleared(proc[p].node, proc[p].out, run'[proc[p].tok], verdict'[proc[p].tok])
           /\ proc[p].pc = "save" => Cleared(Following(p), proc[p].out, run'[proc[p].tok],
                                             verdict'[proc[p].tok])
<1>1. proc[p].tok \in Tokens /\ run[proc[p].tok].fid \in Feedback
  BY Started DEF WorksOnRun, Fresh
<1>2. Sound(proc[p], run[proc[p].tok], verdict[proc[p].tok])
  BY DEF ProcsSound
<1> QED
  BY <1>1, <1>2, ClearedStays DEF Grows, Sound, Following

-----------------------------------------------------------------------------
(* Nothing is forgotten *)

LEMMA PatchGrows ==
    ASSUME TypeInv, NEW p \in Procs, run' = Patched(p), UNCHANGED verdict
    PROVE  Grows
<1>1. run \in [Tokens -> RunRow] /\ \A t \in Tokens : run[t] \in RunRow
  BY DEF TypeInv, RunsOK
<1>2. ASSUME proc[p].tok \in Tokens, run[proc[p].tok].valid
      PROVE  PatchedRow(p).valid
  BY <1>1, <1>2 DEF PatchedRow, RunRow
<1>3. \A t \in Tokens : run'[t].fid = run[t].fid
  BY PatchedStays
<1>4. \A t \in Tokens : run[t].valid => run'[t].valid
  BY <1>1, <1>2 DEF Patched
<1> QED
  BY <1>3, <1>4 DEF Grows

LEMMA CreateGrows ==
    ASSUME TypeInv, TokensAreNew, NEW p \in Procs, proc[p].pc = "create",
           run' = RunCreated(proc[p].tok, proc[p].fid), UNCHANGED verdict
    PROVE  Grows
<1>1. run[proc[p].tok].fid \notin Feedback
  BY RunAssumption, ClaimsAssumption DEF TokensAreNew, Unused, NoFeedback, RunAssumption
<1>2. \A t \in Tokens \ {proc[p].tok} : run'[t] = run[t]
  BY DEF RunCreated, TypeInv, RunsOK
<1> QED
  BY <1>1, <1>2 DEF Grows

LEMMA ValidateGrows ==
    ASSUME TypeInv, NEW p \in Procs, ValidateFinal(p)
    PROVE  Grows
<1>1. \A t \in Tokens : verdict[t] \in {"passed", "rejected"} => verdict'[t] = verdict[t]
  BY DEF ValidateFinal, TypeInv, RestOK
<1> QED
  BY <1>1 DEF ValidateFinal, Grows

LEMMA StepGrows ==
    ASSUME TypeInv, TokensAreNew, [Next]_vars
    PROVE  Grows
<1>1. CASE UNCHANGED <<run, verdict>>
  BY <1>1 DEF Grows
<1>2. ASSUME NEW p \in Procs, Work(p), ~UNCHANGED <<run, verdict>>
      PROVE  Grows
  <2>1. CASE CreateRun(p)
    BY <2>1, CreateGrows DEF CreateRun
  <2>2. CASE ValidateFinal(p)
    BY <2>2, ValidateGrows
  <2>3. CASE PatchRun(p)
    BY <1>2, <2>3, PatchGrows DEF PatchRun
  <2> QED
    BY <1>2, <2>1, <2>2, <2>3
       DEF Work, ClaimNext, GiveUp, Claim, ReadRunToResume, ReadThread, StartGraph,
           ClassifyGate, PrepareSource, RepairAgent, PublishIssue, LookForPull, PostPull,
           PostFails, NothingPending, NodeFails, ArtifactMissing, ReadFeedback,
           FinalizeFailure, CheckTransition, CheckReopen, WriteFeedback, ReadRunInGraph,
           ReadRunToFail, ReadRunToReopen, NextNode
<1>3. ASSUME NEW p \in Procs, Faulty(p), ~UNCHANGED <<run, verdict>>
      PROVE  Grows
  <2>1. LostReply(p) /\ UNCHANGED verdict
    BY <1>3 DEF Faulty, Crash, RepoError, LostReply
  <2>2. \/ run' = Patched(p)
        \/ proc[p].pc = "create" /\ run' = RunCreated(proc[p].tok, proc[p].fid)
    BY <1>3, <2>1 DEF LostReply
  <2> QED
    BY <2>1, <2>2, PatchGrows, CreateGrows
<1>4. \/ UNCHANGED <<run, verdict>>
      \/ \E p \in Procs : (Work(p) \/ Faulty(p)) /\ ~UNCHANGED <<run, verdict>>
  BY DEF Next, vars, Submit, ExpireLease, Poll, PollResume, PollEmpty, Command, ClaimById,
         GiveUp, Claim, ResumeById, PutCheckpoint, LoseArtifacts
<1> QED
  BY <1>1, <1>2, <1>3, <1>4

-----------------------------------------------------------------------------
(* The checkpoints *)

\* Only a process at work writes to a thread: what it is about to do, or what
\* follows what it has done.
Checkpoints(p) == \/ UNCHANGED ckpt
                  \/ \E e : Raise(p, e)
                  \/ NextNode(p)
                  \/ PutCheckpoint(p)

LEMMA ThreadWritten ==
    ASSUME TypeInv, TokensAreNew, NEW p \in Procs, Checkpoints(p), NEW t \in Tokens,
           ckpt'[t] # ckpt[t]
    PROVE  /\ proc[p].pc \notin Fresh /\ proc[p].tok = t
           /\ \/ ckpt'[t] = [node |-> proc[p].node, out |-> proc[p].out]
              \/ /\ proc[p].pc = "save"
                 /\ ckpt'[t] = [node |-> Following(p), out |-> proc[p].out]
<1>1. ckpt \in [Tokens -> Checkpoint] /\ ckpt' # ckpt
  BY DEF TypeInv, CkptsOK
<1>2. CASE \E e : Raise(p, e)
  <2>1. proc[p].unsaved
        /\ ckpt' = [ckpt EXCEPT ![proc[p].tok] = [node |-> proc[p].node, out |-> proc[p].out]]
    BY <1>1, <1>2 DEF Raise
  <2>2. proc[p].pc \notin Fresh
    BY <2>1 DEF TokensAreNew
  <2> QED
    BY <1>1, <2>1, <2>2
<1>3. CASE NextNode(p)
  BY <1>1, <1>3 DEF NextNode, Fresh
<1>4. CASE PutCheckpoint(p)
  <2>1. proc[p].unsaved
        /\ ckpt' = [ckpt EXCEPT ![proc[p].tok] = [node |-> proc[p].node, out |-> proc[p].out]]
    BY <1>4 DEF PutCheckpoint
  <2>2. proc[p].pc \notin Fresh
    BY <2>1 DEF TokensAreNew
  <2> QED
    BY <1>1, <2>1, <2>2
<1> QED
  BY <1>1, <1>2, <1>3, <1>4 DEF Checkpoints

LEMMA UsedOrNot ==
    ASSUME TypeInv, NEW t \in Tokens
    PROVE  Unused(t) <=> run[t].fid \notin Feedback
BY RunAssumption, ClaimsAssumption DEF TypeInv, RunsOK, RunRow, Unused, NoFeedback, RunAssumption

LEMMA ThreadsStep ==
    ASSUME TypeInv, WorksOnRun, ProcsSound, ThreadsCleared, TokensAreNew, Grows,
           NEW p \in Procs, Checkpoints(p)
    PROVE  ThreadsCleared'
<1> SUFFICES ASSUME NEW t \in Tokens
             PROVE  Cleared(ckpt'[t].node, ckpt'[t].out, run'[t], verdict'[t])
  BY DEF ThreadsCleared
<1>1. CASE ckpt'[t] = ckpt[t] /\ Unused(t)
  BY <1>1 DEF TokensAreNew, Cleared
<1>2. CASE ckpt'[t] = ckpt[t] /\ ~Unused(t)
  <2>1. Cleared(ckpt[t].node, ckpt[t].out, run[t], verdict[t])
    BY DEF ThreadsCleared
  <2> QED
    BY <1>2, <2>1, UsedOrNot, ClearedStays DEF Grows
<1>3. CASE ckpt'[t] # ckpt[t]
  <2>1. /\ proc[p].pc \notin Fresh /\ proc[p].tok = t
        /\ \/ ckpt'[t] = [node |-> proc[p].node, out |-> proc[p].out]
           \/ /\ proc[p].pc = "save"
              /\ ckpt'[t] = [node |-> Following(p), out |-> proc[p].out]
    BY <1>3, ThreadWritten
  <2>2. /\ Cleared(proc[p].node, proc[p].out, run'[t], verdict'[t])
        /\ proc[p].pc = "save" => Cleared(Following(p), proc[p].out, run'[t], verdict'[t])
    BY <2>1, StillCleared
  <2> QED
    BY <2>1, <2>2
<1> QED
  BY <1>1, <1>2, <1>3

-----------------------------------------------------------------------------
(* One process moves *)

\* What the lemmas below start from: the invariants before the step, and what is
\* known already of the state after it.
Before == TypeInv /\ WorksOnRun /\ SafetyInv /\ Grows /\ ThreadsCleared'

\* A process that has let go, or is about to create a run, is one of these.
LetGo(r) == r.pc \in Fresh => ~r.unsaved /\ (r.pc = "create" => r.tok = claims' /\ claims < claims')

StepSound(p) ==
    /\ Alone(p)
    /\ LetGo(proc'[p])
    /\ proc'[p].pc \notin Fresh => Sound(proc'[p], run'[proc'[p].tok], verdict'[proc'[p].tok])

LEMMA GoesIdle ==
    ASSUME Before, NEW p \in Procs, proc' = [proc EXCEPT ![p] = Idle]
    PROVE  StepSound(p)
BY IdleIsFresh DEF Before, TypeInv, ProcsOK, StepSound, Alone, LetGo, Idle

LEMMA GoesOnSound ==
    ASSUME Before, NEW p \in Procs, proc[p].pc \notin Fresh, NEW next,
           proc' = [proc EXCEPT ![p] = next],
           next.pc \notin Fresh \cup {"save", "patch"},
           next.tok = proc[p].tok, next.node = proc[p].node, next.out = proc[p].out
    PROVE  StepSound(p)
<1>1. Alone(p) /\ proc'[p] = next
  BY DEF Before, TypeInv, ProcsOK, Alone
<1>2. Cleared(next.node, next.out, run'[next.tok], verdict'[next.tok])
  BY StillCleared DEF Before, SafetyInv
<1> QED
  BY <1>1, <1>2 DEF StepSound, LetGo, Sound

LEMMA GoesToPatch ==
    ASSUME Before, NEW p \in Procs, proc[p].pc \notin Fresh, NEW next,
           proc' = [proc EXCEPT ![p] = next], next.pc = "patch",
           next.tok = proc[p].tok, next.node = proc[p].node, next.out = proc[p].out,
           next.mode = "graph" => next.goal = RunMove(next.node, next.out)[2],
           next.mode = "final" => next.goal # "publishing",
           next.mode = "reopen" /\ next.goal = "publishing" => run'[next.tok].valid
    PROVE  StepSound(p)
<1>1. Alone(p) /\ proc'[p] = next
  BY DEF Before, TypeInv, ProcsOK, Alone
<1>2. Cleared(next.node, next.out, run'[next.tok], verdict'[next.tok])
  BY StillCleared DEF Before, SafetyInv
<1> QED
  BY <1>1, <1>2 DEF StepSound, LetGo, Sound, Fresh

LEMMA GoesToSave ==
    ASSUME Before, NEW p \in Procs, NEW next, proc' = [proc EXCEPT ![p] = next],
           next.pc = "save",
           Cleared(next.node, next.out, run'[next.tok], verdict'[next.tok]),
           Cleared(Successor(next.node, next.out), next.out, run'[next.tok],
                   verdict'[next.tok])
    PROVE  StepSound(p)
<1>1. Alone(p) /\ proc'[p] = next
  BY DEF Before, TypeInv, ProcsOK, Alone
<1> QED
  BY <1>1 DEF StepSound, LetGo, Sound, Fresh

LEMMA Executes ==
    ASSUME TypeInv, NEW t \in Tokens, NEW f
    PROVE  /\ Executing(t, f).pc = "node" /\ Executing(t, f).tok = t
           /\ Executing(t, f).node = ckpt[t].node /\ Executing(t, f).out = ckpt[t].out
           /\ Executing(t, f).mode = "graph"
BY DEF Executing, Idle

LEMMA Starts ==
    ASSUME Before, NEW p \in Procs, NEW t \in Tokens, NEW f, UNCHANGED ckpt,
           proc' = [proc EXCEPT ![p] = Executing(t, f)]
    PROVE  StepSound(p)
<1>1. Alone(p) /\ proc'[p] = Executing(t, f)
  BY DEF Before, TypeInv, ProcsOK, Alone
<1>2. Cleared(ckpt[t].node, ckpt[t].out, run'[t], verdict'[t])
  BY DEF Before, ThreadsCleared
<1> QED
  BY <1>1, <1>2, Executes DEF StepSound, LetGo, Sound, Fresh, Before

\* A process that has found a run, or has made it fit to be executed.
LEMMA FindsRun ==
    ASSUME Before, NEW p \in Procs, NEW t, NEW f,
           \/ proc' = [proc EXCEPT ![p] = Resuming(t)]
           \/ proc' = [proc EXCEPT ![p] = Reopened(t, f)]
    PROVE  StepSound(p)
<1>1. Alone(p) /\ proc'[p].pc \in {"resume", "start"} /\ proc'[p].node = "end"
  BY DEF Before, TypeInv, ProcsOK, Alone, Resuming, Reopened, Idle
<1>2. Cleared(proc'[p].node, proc'[p].out, run'[proc'[p].tok], verdict'[proc'[p].tok])
  BY <1>1 DEF Cleared
<1> QED
  BY <1>1, <1>2 DEF StepSound, LetGo, Sound, Fresh

LEMMA Raises ==
    ASSUME Before, NEW p \in Procs, NEW e, Raise(p, e), proc[p].pc # "idle"
    PROVE  StepSound(p)
<1>1. proc[p] \in Process /\ proc \in [Procs -> Process]
  BY DEF Before, TypeInv, ProcsOK
<1> DEFINE failed == [proc[p] EXCEPT !.pc = "fail", !.mode = "final", !.err = e,
                                     !.seen = "none", !.goal = "none", !.unsaved = FALSE]
<1>2. \/ proc[p].pc \notin {"claim", "create"} /\ proc' = [proc EXCEPT ![p] = failed]
      \/ proc' = [proc EXCEPT ![p] = Idle]
  BY DEF Raise, BeforeGraph
<1>3. /\ failed.tok = proc[p].tok /\ failed.node = proc[p].node
      /\ failed.out = proc[p].out /\ failed.pc = "fail"
  BY <1>1 DEF Process
<1> HIDE DEF failed
<1> QED
  BY <1>2, <1>3, GoesIdle, GoesOnSound DEF Fresh

LEMMA EntrySound ==
    ASSUME Before, NEW p \in Procs,
           \/ Poll(p) \/ ClaimNext(p) \/ CreateRun(p) \/ Command(p)
    PROVE  StepSound(p)
<1>1. proc[p] \in Process /\ proc \in [Procs -> Process] /\ claims \in Nat
  BY RunAssumption, ClaimsAssumption DEF Before, TypeInv, ProcsOK, RowsOK, RunAssumption
<1>2. ASSUME NEW t \in Tokens, PollResume(p, t)
      PROVE  StepSound(p)
  BY <1>2, FindsRun DEF PollResume
<1>3. ASSUME NEW t \in Tokens, ResumeById(p, t)
      PROVE  StepSound(p)
  BY <1>3, FindsRun DEF ResumeById
<1>4. CASE PollEmpty(p)
  <2>1. ~proc[p].unsaved
    BY <1>4 DEF PollEmpty, Before, SafetyInv, TokensAreNew, Fresh
  <2>2. Alone(p) /\ proc'[p].pc = "claim" /\ proc'[p].unsaved = proc[p].unsaved
    BY <1>1, <1>4 DEF PollEmpty, Goto, Alone, Process
  <2> QED
    BY <2>1, <2>2 DEF StepSound, LetGo, Fresh
<1>5. ASSUME NEW gone, GiveUp(p, gone)
      PROVE  StepSound(p)
  BY <1>5, GoesIdle DEF GiveUp
<1>6. ASSUME NEW f, NEW gone, Claim(p, f, gone)
      PROVE  StepSound(p)
  <2>1. /\ Alone(p) /\ proc'[p].pc = "create" /\ ~proc'[p].unsaved
        /\ proc'[p].tok = claims' /\ claims < claims'
    BY <1>1, <1>6 DEF Claim, Alone, Idle
  <2> QED
    BY <2>1 DEF StepSound, LetGo, Fresh
<1>7. CASE CreateRun(p)
  <2>1. proc[p].tok \in Tokens
    BY <1>7, Started DEF CreateRun, Before
  <2> QED
    BY <1>7, <2>1, Starts DEF CreateRun
<1> QED
  BY <1>2, <1>3, <1>4, <1>5, <1>6, <1>7 DEF Poll, ClaimNext, Command, ClaimById

LEMMA ResumeSound ==
    ASSUME Before, NEW p \in Procs,
           ReadRunToResume(p) \/ ReadThread(p) \/ StartGraph(p)
    PROVE  StepSound(p)
<1>1. proc[p] \in Process /\ proc \in [Procs -> Process]
  BY DEF Before, TypeInv, ProcsOK
<1>2. CASE ReadRunToResume(p)
  <2> DEFINE row == run[proc[p].tok]
             next == [proc[p] EXCEPT !.pc = "load", !.seen = row.status, !.err = row.err]
  <2>1. proc' = [proc EXCEPT ![p] = next] /\ proc[p].pc = "resume"
    BY <1>1, <1>2 DEF ReadRunToResume
  <2>2. /\ next.pc = "load" /\ next.tok = proc[p].tok /\ next.node = proc[p].node
        /\ next.out = proc[p].out
    BY <1>1 DEF Process
  <2> HIDE DEF next
  <2> QED
    BY <2>1, <2>2, GoesOnSound DEF Fresh
<1>3. CASE ReadThread(p)
  <2> DEFINE known == [proc[p] EXCEPT !.seen = "none", !.err = "none"]
             go    == [known EXCEPT !.pc = "start"]
             read(goal) == [known EXCEPT !.pc = "get", !.mode = "reopen", !.goal = goal]
  <2>1. /\ proc[p].pc = "load"
        /\ \/ \E goal : proc' = [proc EXCEPT ![p] = read(goal)]
           \/ proc' = [proc EXCEPT ![p] = go]
           \/ proc' = [proc EXCEPT ![p] = Idle]
    BY <1>3 DEF ReadThread
  <2>2. /\ go.pc = "start" /\ go.tok = proc[p].tok /\ go.node = proc[p].node
        /\ go.out = proc[p].out
    BY <1>1 DEF Process
  <2>3. ASSUME NEW goal
        PROVE  /\ read(goal).pc = "get" /\ read(goal).tok = proc[p].tok
               /\ read(goal).node = proc[p].node /\ read(goal).out = proc[p].out
    BY <1>1 DEF Process
  <2> HIDE DEF go, read
  <2>4. ASSUME NEW goal, proc' = [proc EXCEPT ![p] = read(goal)]
        PROVE  StepSound(p)
    BY <2>1, <2>3, <2>4, GoesOnSound DEF Fresh
  <2>5. CASE proc' = [proc EXCEPT ![p] = go]
    BY <2>1, <2>2, <2>5, GoesOnSound DEF Fresh
  <2> QED
    BY <2>1, <2>4, <2>5, GoesIdle
<1>4. CASE StartGraph(p)
  <2>1. proc[p].tok \in Tokens
    BY <1>4, Started DEF StartGraph, Before
  <2> QED
    BY <1>4, <2>1, Starts DEF StartGraph
<1> QED
  BY <1>2, <1>3, <1>4

\* The nodes that do their work and conclude: only validate_final is followed by
\* a node that is told about the verdict, and it has just stored it.
LEMMA ConcludesSound ==
    ASSUME Before, NEW p \in Procs, NEW out, Conclude(p, out), proc[p].pc \in {"node", "post"},
           proc[p].node \in {"classify_gate", "repair_agent", "publish_issue",
                             "publish_pull_request", "validate_final"},
           proc[p].node = "validate_final" /\ out # "budget" =>
              out \in {"passed", "rejected"} /\ verdict'[proc[p].tok] = out
    PROVE  StepSound(p)
<1> DEFINE next == [proc[p] EXCEPT !.pc = "save", !.out = out]
<1>1. proc[p] \in Process /\ proc \in [Procs -> Process]
  BY DEF Before, TypeInv, ProcsOK
<1>2. proc' = [proc EXCEPT ![p] = next]
  BY <1>1 DEF Conclude
<1>3. /\ next.pc = "save" /\ next.tok = proc[p].tok /\ next.node = proc[p].node
      /\ next.out = out
  BY <1>1 DEF Process
<1> HIDE DEF next
<1>4. Cleared(proc[p].node, proc[p].out, run'[proc[p].tok], verdict'[proc[p].tok])
  BY StillCleared DEF Fresh, Before, SafetyInv
<1>5. Cleared(next.node, out, run'[proc[p].tok], verdict'[proc[p].tok])
  BY <1>3, <1>4 DEF Cleared
<1>6. /\ Successor(proc[p].node, out) # "publish_pull_request"
      /\ Successor(proc[p].node, out) = "finish_validation" =>
            proc[p].node = "validate_final" /\ out # "budget"
  BY DEF Successor, AfterGate, AfterRepairAgent, AfterValidateFinal
<1>7. Cleared(Successor(proc[p].node, out), out, run'[proc[p].tok], verdict'[proc[p].tok])
  BY <1>6 DEF Cleared
<1> QED
  BY <1>2, <1>3, <1>5, <1>7, GoesToSave

LEMMA NodeSound ==
    ASSUME Before, NEW p \in Procs,
           \/ ClassifyGate(p) \/ PrepareSource(p) \/ RepairAgent(p) \/ ValidateFinal(p)
           \/ PublishIssue(p) \/ LookForPull(p) \/ PostPull(p) \/ PostFails(p)
           \/ NothingPending(p) \/ NodeFails(p) \/ ArtifactMissing(p)
    PROVE  StepSound(p)
<1>1. proc[p] \in Process /\ proc \in [Procs -> Process]
  BY DEF Before, TypeInv, ProcsOK
<1>2. CASE \E e : Raise(p, e) /\ proc[p].pc \in {"node", "post"}
  BY <1>2, Raises
<1>3. CASE \/ ClassifyGate(p) \/ RepairAgent(p) \/ PublishIssue(p) \/ PostPull(p)
           \/ LookForPull(p) /\ ~Goto(p, "post")
  <2>1. /\ proc[p].pc \in {"node", "post"}
        /\ proc[p].node \in {"classify_gate", "repair_agent", "publish_issue",
                             "publish_pull_request"}
        /\ \E out : Conclude(p, out)
    <3>1. ProcOK(proc[p])
      BY DEF Before, TypeInv, ProcsOK
    <3> QED
      BY <1>3, <3>1 DEF ClassifyGate, RepairAgent, PublishIssue, LookForPull, PostPull, At,
                        ProcOK
  <2> QED
    BY <2>1, ConcludesSound
<1>4. CASE ValidateFinal(p)
  <2>1. proc[p].tok \in Tokens /\ verdict \in [Tokens -> {"none", "passed", "rejected"}]
    BY <1>4, Started DEF ValidateFinal, At, Before, TypeInv, RestOK
  <2>2. /\ proc[p].pc = "node" /\ proc[p].node = "validate_final"
        /\ \E out : /\ Conclude(p, out)
                    /\ out # "budget" =>
                          out \in {"passed", "rejected"} /\ verdict'[proc[p].tok] = out
    BY <1>4, <2>1 DEF ValidateFinal, At
  <2> QED
    BY <2>2, ConcludesSound
<1>5. ASSUME NEW pc \in {"runget", "post"}, proc[p].pc = "node", Goto(p, pc)
      PROVE  StepSound(p)
  <2> DEFINE next == [proc[p] EXCEPT !.pc = pc, !.seen = "none", !.goal = "none"]
  <2>1. proc' = [proc EXCEPT ![p] = next] /\ proc[p].pc = "node"
    BY <1>1, <1>5 DEF Goto
  <2>2. /\ next.pc = pc /\ next.tok = proc[p].tok /\ next.node = proc[p].node
        /\ next.out = proc[p].out
    BY <1>1 DEF Process
  <2> HIDE DEF next
  <2> QED
    BY <2>1, <2>2, GoesOnSound DEF Fresh
<1>6. CASE NothingPending(p)
  BY <1>6, GoesIdle DEF NothingPending
<1>7. CASE PrepareSource(p)
  BY <1>5, <1>7 DEF PrepareSource, At
<1>8. CASE LookForPull(p) /\ Goto(p, "post")
  BY <1>5, <1>8 DEF LookForPull, At
<1> QED
  BY <1>2, <1>3, <1>4, <1>6, <1>7, <1>8 DEF NodeFails, PostFails, ArtifactMissing

-----------------------------------------------------------------------------
(* The writes to the two tables *)

\* The process keeps its run, node and conclusion and goes to another step.
Proceed(p, pc, seen, goal) ==
    proc' = [proc EXCEPT ![p].pc = pc, ![p].seen = seen, ![p].goal = goal]

LEMMA ProceedsSound ==
    ASSUME Before, NEW p \in Procs, proc[p].pc \notin Fresh,
           NEW pc \in {"get", "cas", "runget"}, NEW seen, NEW goal, Proceed(p, pc, seen, goal)
    PROVE  StepSound(p)
<1>1. proc[p] \in Process /\ proc \in [Procs -> Process]
  BY DEF Before, TypeInv, ProcsOK
<1> DEFINE next == [proc[p] EXCEPT !.pc = pc, !.seen = seen, !.goal = goal]
<1>2. proc' = [proc EXCEPT ![p] = next]
  BY <1>1 DEF Proceed
<1>3. /\ next.pc = pc /\ next.tok = proc[p].tok /\ next.node = proc[p].node
      /\ next.out = proc[p].out
  BY <1>1 DEF Process
<1> HIDE DEF next
<1> QED
  BY <1>2, <1>3, GoesOnSound DEF Fresh

LEMMA RowSound ==
    ASSUME Before, NEW p \in Procs,
           \/ ReadFeedback(p) \/ FinalizeFailure(p) \/ CheckTransition(p)
           \/ CheckReopen(p) \/ WriteFeedback(p)
    PROVE  StepSound(p)
<1>1. proc[p] \in Process /\ proc \in [Procs -> Process]
  BY DEF Before, TypeInv, ProcsOK
<1>2. proc[p].pc \in {"node", "fail", "get", "cas"} /\ proc[p].pc \notin Fresh
  BY DEF ReadFeedback, FinalizeFailure, CheckTransition, CheckReopen, WriteFeedback, Fresh
<1>3. CASE \E e : Raise(p, e)
  BY <1>2, <1>3, Raises
<1>4. CASE Goto(p, "runget")
  BY <1>2, <1>4, ProceedsSound DEF Goto, Proceed
<1>5. ASSUME NEW goal, proc' = [proc EXCEPT ![p].pc = "get", ![p].goal = goal]
      PROVE  StepSound(p)
  <2>1. Proceed(p, "get", proc[p].seen, goal)
    BY <1>1, <1>5 DEF Process, Proceed
  <2> QED
    BY <1>2, <2>1, ProceedsSound
<1>6. CASE CheckTransition(p) /\ ~(\E e : Raise(p, e))
  <2>1. proc' = [proc EXCEPT ![p].pc = "cas", ![p].seen = fb[proc[p].fid].status]
    BY <1>6 DEF CheckTransition
  <2>2. Proceed(p, "cas", fb[proc[p].fid].status, proc[p].goal)
    BY <1>1, <2>1 DEF Process, Proceed
  <2> QED
    BY <1>2, <2>2, ProceedsSound
<1>7. CASE CheckReopen(p) /\ ~(\E e : Raise(p, e))
  <2> DEFINE row == fb[proc[p].fid]
             goal == IF row.err = "issue_publication" THEN "publishing_issue" ELSE proc[p].goal
             read == [proc[p] EXCEPT !.pc = "runget", !.goal = row.status]
             cas  == [proc[p] EXCEPT !.pc = "cas", !.seen = "failed", !.err = row.err,
                                     !.goal = goal]
  <2>1. proc' = [proc EXCEPT ![p] = read] \/ proc' = [proc EXCEPT ![p] = cas]
    BY <1>1, <1>7 DEF CheckReopen
  <2> HIDE DEF goal
  <2>2. /\ read.pc = "runget" /\ read.tok = proc[p].tok /\ read.node = proc[p].node
        /\ read.out = proc[p].out
        /\ cas.pc = "cas" /\ cas.tok = proc[p].tok /\ cas.node = proc[p].node
        /\ cas.out = proc[p].out
    BY <1>1 DEF Process
  <2> HIDE DEF read, cas
  <2> QED
    BY <1>2, <2>1, <2>2, GoesOnSound DEF Fresh
<1>8. CASE WriteFeedback(p) /\ ~(\E e : Raise(p, e))
  <2>1. \/ \E goal : proc' = [proc EXCEPT ![p].pc = "get", ![p].goal = goal, ![p].seen = "none"]
        \/ proc' = [proc EXCEPT ![p].pc = "runget", ![p].seen = "none",
                                ![p].goal = IF proc[p].mode = "reopen" THEN @ ELSE "none"]
    BY <1>8 DEF WriteFeedback
  <2>2. ASSUME NEW goal,
               proc' = [proc EXCEPT ![p].pc = "get", ![p].goal = goal, ![p].seen = "none"]
        PROVE  StepSound(p)
    <3>1. Proceed(p, "get", "none", goal)
      BY <1>1, <2>2 DEF Process, Proceed
    <3> QED
      BY <1>2, <3>1, ProceedsSound
  <2>3. CASE proc' = [proc EXCEPT ![p].pc = "runget", ![p].seen = "none",
                                  ![p].goal = IF proc[p].mode = "reopen" THEN @ ELSE "none"]
    <3> DEFINE goal == IF proc[p].mode = "reopen" THEN proc[p].goal ELSE "none"
    <3>1. Proceed(p, "runget", "none", goal)
      BY <1>1, <2>3 DEF Proceed
    <3> QED
      BY <1>2, <3>1, ProceedsSound
  <2> QED
    BY <2>1, <2>2, <2>3
<1> QED
  BY <1>3, <1>4, <1>5, <1>6, <1>7, <1>8 DEF ReadFeedback, FinalizeFailure

\* The node that writes the run row is followed by publication only if that row
\* says publishing, which it does not say of an unverified patch.
LEMMA FollowsWrite ==
    ASSUME NEW n \in WritingNodes, NEW out, NEW row, NEW v, Cleared(n, out, row, v),
           RunMove(n, out)[2] = "publishing" => row.valid
    PROVE  Cleared(Successor(n, out), out, row, v)
BY DEF Cleared, WritingNodes, FinishNodes, Successor, AfterGate, AfterRepairAgent,
       AfterReproduction, AfterValidation, AfterValidateFinal, RunMove, complete_validation

LEMMA Saves ==
    ASSUME Before, NEW p \in Procs, proc[p].pc \in {"runget", "patch"},
           proc[p].mode = "graph", Goto(p, "save"),
           RunMove(proc[p].node, proc[p].out)[2] = "publishing" => run'[proc[p].tok].valid
    PROVE  StepSound(p)
<1> DEFINE next == [proc[p] EXCEPT !.pc = "save", !.seen = "none", !.goal = "none"]
<1>1. proc[p] \in Process /\ proc \in [Procs -> Process]
  BY DEF Before, TypeInv, ProcsOK
<1>2. proc' = [proc EXCEPT ![p] = next]
  BY <1>1 DEF Goto
<1>3. /\ next.pc = "save" /\ next.tok = proc[p].tok /\ next.node = proc[p].node
      /\ next.out = proc[p].out
  BY <1>1 DEF Process
<1> HIDE DEF next
<1>4. proc[p].node \in WritingNodes
  BY Started DEF Before, ProcOK, WritingNodes
<1>5. Cleared(proc[p].node, proc[p].out, run'[proc[p].tok], verdict'[proc[p].tok])
  BY StillCleared DEF Before, SafetyInv, Fresh
<1>6. Cleared(Successor(proc[p].node, proc[p].out), proc[p].out, run'[proc[p].tok],
              verdict'[proc[p].tok])
  BY <1>4, <1>5, FollowsWrite
<1> QED
  BY <1>2, <1>3, <1>5, <1>6, GoesToSave

LEMMA Patches ==
    ASSUME Before, NEW p \in Procs, proc[p].pc = "runget", NEW seen, NEW goal,
           ContinueAt(p, seen, goal),
           proc[p].mode = "graph" => goal = RunMove(proc[p].node, proc[p].out)[2],
           proc[p].mode = "final" => goal # "publishing",
           proc[p].mode = "reopen" /\ goal = "publishing" => run'[proc[p].tok].valid
    PROVE  StepSound(p)
<1> DEFINE next == [proc[p] EXCEPT !.pc = "patch", !.seen = seen, !.goal = goal]
<1>1. proc[p] \in Process /\ proc \in [Procs -> Process]
  BY DEF Before, TypeInv, ProcsOK
<1>2. proc' = [proc EXCEPT ![p] = next]
  BY <1>1 DEF ContinueAt
<1>3. /\ next.pc = "patch" /\ next.tok = proc[p].tok /\ next.node = proc[p].node
      /\ next.out = proc[p].out /\ next.goal = goal /\ next.mode = proc[p].mode
  BY <1>1 DEF Process
<1> HIDE DEF next
<1> QED
  BY <1>2, <1>3, GoesToPatch DEF Fresh

LEMMA ReadRunSound ==
    ASSUME Before, NEW p \in Procs,
           ReadRunInGraph(p) \/ ReadRunToFail(p) \/ ReadRunToReopen(p)
    PROVE  StepSound(p)
<1>1. proc[p].pc = "runget" /\ UNCHANGED <<run, ckpt>>
  BY DEF ReadRunInGraph, ReadRunToFail, ReadRunToReopen
<1>2. proc[p].tok \in Tokens
  BY <1>1, Started DEF Before
<1>3. CASE ReadRunInGraph(p)
  <2> DEFINE n == proc[p].node
             mv == RunMove(n, proc[p].out)
             seen == IF mv[1] = "any" THEN run[proc[p].tok].status ELSE mv[1]
  <2>1. CASE run[proc[p].tok].status = mv[2] /\ Goto(p, "save")
    <3>1. mv[2] = "publishing" => run'[proc[p].tok].valid
      BY <1>1, <1>2, <2>1 DEF Before, SafetyInv, PublishingIsValid
    <3> QED
      BY <1>1, <1>3, <2>1, <3>1, Saves DEF ReadRunInGraph
  <2>2. CASE ContinueAt(p, seen, mv[2])
    BY <1>1, <1>3, <2>2, Patches DEF ReadRunInGraph
  <2> QED
    BY <1>3, <2>1, <2>2 DEF ReadRunInGraph
<1>4. CASE ReadRunToFail(p)
  <2>1. CASE proc' = [proc EXCEPT ![p] = Idle]
    BY <2>1, GoesIdle
  <2>2. CASE ContinueAt(p, run[proc[p].tok].status, FailedRun(proc[p].err))
    BY <1>1, <1>4, <2>2, Patches DEF ReadRunToFail, FailedRun
  <2> QED
    BY <1>4, <2>1, <2>2 DEF ReadRunToFail
<1>5. CASE ReadRunToReopen(p)
  <2> DEFINE t   == proc[p].tok
             publication == proc[p].goal \in {"publishing", "publishing_issue"}
             goal == IF ~publication THEN proc[p].goal
                     ELSE IF run[t].err = "issue_publication" THEN "publishing_issue"
                     ELSE "publishing"
  <2>1. CASE proc' = [proc EXCEPT ![p] = Reopened(t, proc[p].fid)]
    BY <2>1, FindsRun
  <2>2. CASE proc' = [proc EXCEPT ![p] = Idle]
    BY <2>2, GoesIdle
  <2>3. CASE /\ ContinueAt(p, run[t].status, goal)
             /\ publication => /\ FailedPublication(run[t].status, run[t].err)
                               /\ (run[t].err = "publication" => run[t].valid)
    <3>1. goal = "publishing" => publication /\ run[t].err # "issue_publication"
      OBVIOUS
    <3>2. goal = "publishing" => run'[t].valid
      BY <1>1, <2>3, <3>1 DEF FailedPublication, PublicationErrors
    <3> QED
      BY <1>1, <1>5, <2>3, <3>2, Patches DEF ReadRunToReopen
  <2> QED
    BY <1>5, <2>1, <2>2, <2>3 DEF ReadRunToReopen
<1> QED
  BY <1>3, <1>4, <1>5

\* A patched row is what it was, and valid if it goes on to publication.
LEMMA PatchedValid ==
    ASSUME TypeInv, ProcsSound, PublishingIsValid, NEW p \in Procs, proc[p].pc = "patch",
           run' = Patched(p)
    PROVE  /\ PublishingIsValid'
           /\ proc[p].mode = "graph" /\ RunMove(proc[p].node, proc[p].out)[2] = "publishing"
                 => run'[proc[p].tok].valid
<1>1. run \in [Tokens -> RunRow] /\ proc[p].tok \in Tokens /\ run[proc[p].tok] \in RunRow
      /\ proc[p].mode \in {"graph", "final", "reopen"}
  BY Started DEF TypeInv, RunsOK, Process
<1>2. Sound(proc[p], run[proc[p].tok], verdict[proc[p].tok])
  BY DEF ProcsSound, Fresh
<1> DEFINE row == PatchedRow(p)
<1>3. row.status = proc[p].goal
  BY <1>1 DEF PatchedRow, RunRow
<1>4. row.valid <=> run[proc[p].tok].valid \/ (proc[p].mode = "graph" /\ proc[p].goal = "publishing")
  BY <1>1 DEF PatchedRow, RunRow
<1>5. row.status = "publishing" => row.valid
  BY <1>1, <1>2, <1>3, <1>4 DEF Sound
<1>6. run' = [run EXCEPT ![proc[p].tok] = row]
  BY DEF Patched
<1> HIDE DEF row
<1>7. PublishingIsValid'
  BY <1>1, <1>5, <1>6 DEF PublishingIsValid
<1>8. proc[p].mode = "graph" /\ RunMove(proc[p].node, proc[p].out)[2] = "publishing"
         => run'[proc[p].tok].valid
  BY <1>1, <1>2, <1>4, <1>6 DEF Sound
<1> QED
  BY <1>7, <1>8

LEMMA PatchSound ==
    ASSUME Before, NEW p \in Procs, PatchRun(p)
    PROVE  StepSound(p)
<1>1. proc[p].pc = "patch" /\ proc[p].tok \in Tokens /\ proc[p] \in Process
  BY Started DEF PatchRun, Before
<1>2. CASE Raise(p, "other")
  BY <1>1, <1>2, Raises
<1>3. CASE run' = Patched(p) /\ proc[p].mode = "graph" /\ Goto(p, "save")
  BY <1>1, <1>3, PatchedValid, Saves DEF Before, SafetyInv
<1>4. CASE proc' = [proc EXCEPT ![p] = Idle]
  BY <1>4, GoesIdle
<1>5. CASE proc' = [proc EXCEPT ![p] = Reopened(proc[p].tok, proc[p].fid)]
  BY <1>5, FindsRun
<1>6. proc[p].mode \in {"graph", "final", "reopen"}
  BY <1>1 DEF Process
<1> QED
  BY <1>2, <1>3, <1>4, <1>5, <1>6 DEF PatchRun

LEMMA FollowSound ==
    ASSUME Before, NEW p \in Procs, proc[p].pc = "save", NEW unsaved,
           proc' = [proc EXCEPT ![p] = [proc[p] EXCEPT !.pc = "node", !.node = Following(p),
                                                       !.unsaved = unsaved]]
    PROVE  StepSound(p)
<1> DEFINE next == [proc[p] EXCEPT !.pc = "node", !.node = Following(p), !.unsaved = unsaved]
<1>1. proc[p] \in Process /\ proc \in [Procs -> Process]
  BY DEF Before, TypeInv, ProcsOK
<1>2. /\ next.pc = "node" /\ next.tok = proc[p].tok /\ next.node = Following(p)
      /\ next.out = proc[p].out
  BY <1>1 DEF Process
<1>3. proc'[p] = next /\ Alone(p)
  BY <1>1 DEF Alone
<1> HIDE DEF next
<1>4. Cleared(Following(p), proc[p].out, run'[proc[p].tok], verdict'[proc[p].tok])
  BY StillCleared DEF Before, SafetyInv, Fresh
<1> QED
  BY <1>2, <1>3, <1>4 DEF StepSound, LetGo, Sound, Fresh

LEMMA SaveSound ==
    ASSUME Before, NEW p \in Procs, NextNode(p)
    PROVE  StepSound(p)
<1>1. \/ proc' = [proc EXCEPT ![p] = Idle]
      \/ proc' = [proc EXCEPT ![p] = [proc[p] EXCEPT !.pc = "node", !.node = Following(p),
                                                     !.unsaved = TRUE]]
  BY DEF NextNode
<1> QED
  BY <1>1, GoesIdle, FollowSound DEF NextNode

LEMMA PutSound ==
    ASSUME Before, NEW p \in Procs, PutCheckpoint(p)
    PROVE  StepSound(p)
<1>1. proc[p] \in Process /\ proc \in [Procs -> Process]
  BY DEF Before, TypeInv, ProcsOK
<1> DEFINE next == [proc[p] EXCEPT !.unsaved = FALSE]
<1>2. proc' = [proc EXCEPT ![p] = next] /\ UNCHANGED <<run, verdict>>
  BY DEF PutCheckpoint
<1>3. /\ next.pc = proc[p].pc /\ next.tok = proc[p].tok /\ next.node = proc[p].node
      /\ next.out = proc[p].out /\ next.mode = proc[p].mode /\ next.goal = proc[p].goal
  BY <1>1 DEF Process
<1> HIDE DEF next
<1>4. proc'[p] = next /\ Alone(p)
  BY <1>1, <1>2 DEF Alone
<1>5. proc[p].pc \notin Fresh
  BY DEF PutCheckpoint, Before, SafetyInv, TokensAreNew
<1>6. Sound(proc[p], run[proc[p].tok], verdict[proc[p].tok])
  BY <1>5 DEF Before, SafetyInv, ProcsSound
<1>7. Sound(next, run[next.tok], verdict[next.tok])
  BY <1>3, <1>6 DEF Sound
<1> QED
  BY <1>2, <1>3, <1>4, <1>5, <1>7 DEF StepSound, LetGo

LEMMA FaultySound ==
    ASSUME Before, NEW p \in Procs, Faulty(p)
    PROVE  StepSound(p)
<1>1. proc[p] \in Process /\ proc \in [Procs -> Process]
  BY DEF Before, TypeInv, ProcsOK
<1>3. CASE Crash(p)
  BY <1>3, GoesIdle DEF Crash
<1>4. CASE RepoError(p) \/ LostReply(p)
  <2>1. Raise(p, "other") /\ proc[p].pc # "idle"
    BY <1>4 DEF RepoError, LostReply, BeforeGraph
  <2> QED
    BY <2>1, Raises
<1> QED
  BY <1>3, <1>4 DEF Faulty

-----------------------------------------------------------------------------
(* The rows, the tokens and the pull requests *)

RunWrites(p) == \/ UNCHANGED run
                \/ proc[p].pc = "patch" /\ run' = Patched(p) /\ UNCHANGED claims
                \/ /\ proc[p].pc = "create" /\ run' = RunCreated(proc[p].tok, proc[p].fid)
                   /\ UNCHANGED claims

PullOpens(p) == \/ UNCHANGED pulls
                \/ proc[p].pc = "post" /\ pulls' = pulls \cup {proc[p].tok}

LEMMA PublishingStep ==
    ASSUME TypeInv, SafetyInv, NEW p \in Procs, RunWrites(p)
    PROVE  PublishingIsValid'
<1>1. CASE UNCHANGED run
  BY <1>1 DEF SafetyInv, PublishingIsValid
<1>2. CASE proc[p].pc = "patch" /\ run' = Patched(p)
  BY <1>2, PatchedValid DEF SafetyInv
<1>3. CASE run' = RunCreated(proc[p].tok, proc[p].fid)
  BY <1>3 DEF RunCreated, TypeInv, RunsOK, SafetyInv, PublishingIsValid
<1> QED
  BY <1>1, <1>2, <1>3 DEF RunWrites

LEMMA PublishedStep ==
    ASSUME TypeInv, WorksOnRun, SafetyInv, Grows, NEW p \in Procs, PullOpens(p)
    PROVE  PublishedOnlyValidated'
<1>1. ASSUME NEW t \in pulls
      PROVE  verdict'[t] = "passed" /\ run'[t].valid
  <2>1. t \in Tokens
    BY DEF TypeInv, RestOK
  <2>2. ~Unused(t)
    BY <2>1 DEF SafetyInv, TokensAreNew
  <2>3. verdict[t] = "passed" /\ run[t].valid
    BY DEF SafetyInv, PublishedOnlyValidated
  <2> QED
    BY <2>1, <2>2, <2>3, UsedOrNot DEF Grows
<1>2. ASSUME proc[p].pc = "post"
      PROVE  verdict'[proc[p].tok] = "passed" /\ run'[proc[p].tok].valid
  <2>1. proc[p].node = "publish_pull_request"
    BY <1>2 DEF TypeInv, ProcsOK, ProcOK
  <2> QED
    BY <1>2, <2>1, StillCleared DEF Fresh, Cleared, SafetyInv
<1> QED
  BY <1>1, <1>2 DEF PullOpens, PublishedOnlyValidated

\* Only the process that creates a run gives it a feedback.
LEMMA FidsStay ==
    ASSUME TypeInv, NEW p \in Procs, RunWrites(p), NEW t \in Tokens,
           run'[t].fid # run[t].fid
    PROVE  proc[p].pc = "create" /\ t = proc[p].tok /\ UNCHANGED claims
<1>1. CASE run' = Patched(p)
  BY <1>1, PatchedStays
<1>2. CASE /\ proc[p].pc = "create" /\ run' = RunCreated(proc[p].tok, proc[p].fid)
           /\ UNCHANGED claims
  <2>1. t = proc[p].tok
    BY <1>2 DEF RunCreated, TypeInv, RunsOK
  <2> QED
    BY <1>2, <2>1
<1> QED
  BY <1>1, <1>2 DEF RunWrites

LEMMA TokensStayNew ==
    ASSUME Before, TypeInv', NEW p \in Procs, StepSound(p), Checkpoints(p), RunWrites(p),
           PullOpens(p), claims' >= claims, claims' # claims => UNCHANGED run
    PROVE  TokensAreNew'
<1>1. claims \in Nat /\ claims' \in Nat
  BY RunAssumption, ClaimsAssumption DEF Before, TypeInv, RowsOK, RunAssumption
<1>2. \A q \in Procs : proc'[q].pc = "create" => proc'[q].tok \in Tokens
  <2>1. \A q \in Procs : ProcOK(proc'[q])
    BY DEF TypeInv, ProcsOK
  <2> QED
    BY <2>1 DEF ProcOK
<1>3. ASSUME NEW q \in Procs, proc'[q].pc \in Fresh
      PROVE  ~proc'[q].unsaved
  BY <1>3 DEF StepSound, Alone, LetGo, Before, SafetyInv, TokensAreNew
<1>4. ASSUME NEW q \in Procs, proc'[q].pc = "create"
      PROVE  proc'[q].tok <= claims' /\ run'[proc'[q].tok].fid = NoFeedback
  <2>1. CASE q = p
    <3>1. proc'[p].tok = claims' /\ claims < claims' /\ claims' \in Tokens
      BY <1>2, <1>4, <2>1 DEF StepSound, LetGo, Fresh
    <3>2. Unused(claims') /\ UNCHANGED run
      BY <1>1, <3>1 DEF Before, SafetyInv, TokensAreNew
    <3> QED
      BY <1>1, <2>1, <3>1, <3>2 DEF Unused
  <2>2. CASE q # p
    <3>1. proc'[q] = proc[q] /\ proc[q].tok \in Tokens
      BY <1>2, <1>4, <2>2 DEF StepSound, Alone
    <3>2. proc[q].tok <= claims /\ Unused(proc[q].tok)
      BY <1>4, <3>1 DEF Before, SafetyInv, TokensAreNew
    <3>3. run'[proc[q].tok].fid = run[proc[q].tok].fid
      BY <1>4, <2>2, <3>1, FidsStay DEF Before, SafetyInv, TokensAreNew
    <3> QED
      BY <1>1, <3>1, <3>2, <3>3 DEF Unused, Tokens
  <2> QED
    BY <2>1, <2>2
<1>5. ASSUME NEW q \in Procs, NEW r \in Procs, q # r,
             proc'[q].pc = "create", proc'[r].pc = "create"
      PROVE  proc'[q].tok # proc'[r].tok
  <2>1. \A o \in Procs \ {p} : proc'[o] = proc[o]
    BY DEF StepSound, Alone
  <2>2. \A o \in Procs \ {p} : proc'[o].pc = "create" => proc'[o].tok <= claims
    BY <2>1 DEF Before, SafetyInv, TokensAreNew
  <2>3. proc'[p].pc = "create" => proc'[p].tok = claims' /\ claims < claims'
    BY DEF StepSound, LetGo, Fresh
  <2>4. CASE q = p \/ r = p
    BY <1>1, <1>2, <1>5, <2>2, <2>3, <2>4 DEF Tokens
  <2>5. CASE q # p /\ r # p
    BY <1>5, <2>1, <2>5 DEF Before, SafetyInv, TokensAreNew
  <2> QED
    BY <2>4, <2>5
<1>6. ASSUME NEW t \in Tokens, t > claims'
      PROVE  run'[t].fid = NoFeedback
  <2>1. t > claims
    BY <1>1, <1>6 DEF Tokens
  <2>2. Unused(t)
    BY <2>1 DEF Before, SafetyInv, TokensAreNew
  <2>3. proc[p].pc = "create" => t # proc[p].tok
    BY <1>1, <2>1 DEF Before, SafetyInv, TokensAreNew, Tokens
  <2>4. run'[t].fid = run[t].fid
    BY <2>3, FidsStay DEF Before
  <2> QED
    BY <2>2, <2>4 DEF Unused
<1>7. ASSUME NEW t \in Tokens, run'[t].fid = NoFeedback
      PROVE  ckpt'[t].node = "start_gate" /\ t \notin pulls'
  <2>1. run'[t].fid \notin Feedback
    BY <1>7, RunAssumption, ClaimsAssumption DEF NoFeedback, RunAssumption
  <2>2. run[t].fid \notin Feedback
    BY <2>1 DEF Before, Grows
  <2>3. Unused(t)
    BY <2>2, UsedOrNot DEF Before
  <2>4. ckpt[t].node = "start_gate" /\ t \notin pulls
    BY <2>3 DEF Before, SafetyInv, TokensAreNew
  <2>5. proc[p].pc \notin Fresh => proc[p].tok # t
    BY <2>2 DEF Before, WorksOnRun
  <2>6. ckpt'[t] = ckpt[t]
    BY <2>5, ThreadWritten DEF Before, SafetyInv
  <2>7. t \notin pulls'
    BY <2>4, <2>5 DEF PullOpens, Fresh
  <2> QED
    BY <2>4, <2>6, <2>7
<1> QED
  BY <1>3, <1>4, <1>5, <1>6, <1>7 DEF TokensAreNew, Unused

-----------------------------------------------------------------------------
(* The invariant *)

\* What one process does to threads, rows, pull requests and tokens, by action.
LEMMA ProcessWrites ==
    ASSUME TypeInv, NEW p \in Procs,
           Poll(p) \/ Command(p) \/ Work(p) \/ PutCheckpoint(p) \/ Faulty(p)
    PROVE  /\ Checkpoints(p) /\ RunWrites(p) /\ PullOpens(p)
           /\ claims' >= claims /\ (claims' # claims => UNCHANGED run)
<1>1. claims \in Nat
  BY RunAssumption, ClaimsAssumption DEF TypeInv, RowsOK, RunAssumption
<1>2. CASE \/ Poll(p) \/ Command(p) \/ ClaimNext(p) \/ ReadRunToResume(p) \/ ReadThread(p)
           \/ StartGraph(p)
  <2>1. UNCHANGED <<ckpt, run, pulls>> /\ (UNCHANGED claims \/ claims' = claims + 1)
    BY <1>2 DEF Poll, PollResume, PollEmpty, Command, ClaimById, ResumeById, ClaimNext,
                GiveUp, Claim, ReadRunToResume, ReadThread, StartGraph
  <2> QED
    BY <1>1, <2>1 DEF Checkpoints, RunWrites, PullOpens
<1>3. CASE CreateRun(p)
  BY <1>1, <1>3 DEF CreateRun, Checkpoints, RunWrites, PullOpens
<1>4. CASE \/ ClassifyGate(p) \/ PrepareSource(p) \/ RepairAgent(p) \/ ValidateFinal(p)
           \/ PublishIssue(p) \/ LookForPull(p) \/ PostPull(p) \/ PostFails(p)
           \/ NothingPending(p) \/ NodeFails(p) \/ ArtifactMissing(p)
  <2>1. UNCHANGED <<run, claims>> /\ Checkpoints(p)
    BY <1>4 DEF ClassifyGate, PrepareSource, RepairAgent, ValidateFinal, PublishIssue,
                LookForPull, PostPull, PostFails, NothingPending, NodeFails,
                ArtifactMissing, Checkpoints, Conclude
  <2>2. PullOpens(p)
    BY <1>4 DEF ClassifyGate, PrepareSource, RepairAgent, ValidateFinal, PublishIssue,
                LookForPull, PostPull, PostFails, NothingPending, NodeFails,
                ArtifactMissing, PullOpens, Posted
  <2> QED
    BY <1>1, <2>1, <2>2 DEF RunWrites
<1>5. CASE \/ ReadFeedback(p) \/ FinalizeFailure(p) \/ CheckTransition(p) \/ CheckReopen(p)
           \/ WriteFeedback(p) \/ ReadRunInGraph(p) \/ ReadRunToFail(p)
           \/ ReadRunToReopen(p) \/ NextNode(p) \/ PutCheckpoint(p)
  <2>1. UNCHANGED <<run, pulls, claims>> /\ Checkpoints(p)
    BY <1>5 DEF ReadFeedback, FinalizeFailure, CheckTransition, CheckReopen, WriteFeedback,
                ReadRunInGraph, ReadRunToFail, ReadRunToReopen, NextNode, PutCheckpoint,
                Checkpoints
  <2> QED
    BY <1>1, <2>1 DEF RunWrites, PullOpens
<1>6. CASE PatchRun(p)
  <2>1. UNCHANGED <<pulls, claims>> /\ Checkpoints(p)
    BY <1>6 DEF PatchRun, Checkpoints
  <2>2. RunWrites(p)
    BY <1>6, <2>1 DEF PatchRun, RunWrites
  <2> QED
    BY <1>1, <2>1, <2>2 DEF PullOpens
<1>7. CASE Faulty(p)
  <2>1. UNCHANGED <<pulls, claims>> /\ Checkpoints(p)
    BY <1>7 DEF Faulty, Crash, RepoError, LostReply, Checkpoints
  <2>2. RunWrites(p)
    BY <1>7, <2>1 DEF Faulty, Crash, RepoError, LostReply, RunWrites
  <2> QED
    BY <1>1, <2>1, <2>2 DEF PullOpens
<1> QED
  BY <1>2, <1>3, <1>4, <1>5, <1>6, <1>7 DEF Work

LEMMA ProcessStep ==
    ASSUME TypeInv, WorksOnRun, TypeInv', SafetyInv, Grows, NEW p \in Procs,
           Poll(p) \/ Command(p) \/ Work(p) \/ PutCheckpoint(p) \/ Faulty(p)
    PROVE  SafetyInv'
<1>1. /\ Checkpoints(p) /\ RunWrites(p) /\ PullOpens(p)
      /\ claims' >= claims /\ (claims' # claims => UNCHANGED run)
  BY ProcessWrites
<1>2. ThreadsCleared'
  BY <1>1, ThreadsStep DEF SafetyInv
<1>3. Before
  BY <1>2 DEF Before
<1>4. StepSound(p)
  <2>1. CASE Poll(p) \/ Command(p)
    BY <1>3, <2>1, EntrySound
  <2>2. CASE Work(p)
    BY <1>3, <2>2, EntrySound, ResumeSound, NodeSound, RowSound, ReadRunSound, PatchSound,
       SaveSound DEF Work
  <2>3. CASE Faulty(p)
    BY <1>3, <2>3, FaultySound
  <2>4. CASE PutCheckpoint(p)
    BY <1>3, <2>4, PutSound
  <2> QED
    BY <2>1, <2>2, <2>3, <2>4
<1>5. ProcsSound'
  BY <1>4, ProcsSoundStep DEF StepSound, SafetyInv
<1>6. PublishingIsValid' /\ PublishedOnlyValidated'
  BY <1>1, PublishingStep, PublishedStep
<1>7. TokensAreNew'
  BY <1>1, <1>3, <1>4, TokensStayNew
<1> QED
  BY <1>2, <1>5, <1>6, <1>7 DEF SafetyInv

\* The reporter, the lease clock and the disk touch none of this.
LEMMA OthersKeepSafety ==
    ASSUME SafetyInv, UNCHANGED <<run, ckpt, proc, claims, verdict, pulls>>
    PROVE  SafetyInv'
<1>1. ProcsSound' /\ ThreadsCleared'
  BY DEF SafetyInv, ProcsSound, ThreadsCleared
<1>2. PublishingIsValid' /\ PublishedOnlyValidated'
  BY DEF SafetyInv, PublishingIsValid, PublishedOnlyValidated
<1>3. TokensAreNew'
  BY DEF SafetyInv, TokensAreNew, Unused
<1> QED
  BY <1>1, <1>2, <1>3 DEF SafetyInv

LEMMA SafetyInit == Init => SafetyInv
<1> SUFFICES ASSUME Init PROVE SafetyInv
  OBVIOUS
<1>1. ProcsSound /\ ThreadsCleared
  BY IdleIsFresh DEF Init, ProcsSound, ThreadsCleared, Cleared
<1>2. PublishingIsValid /\ PublishedOnlyValidated
  BY DEF Init, PublishingIsValid, PublishedOnlyValidated
<1>3. TokensAreNew
  BY DEF Init, TokensAreNew, Unused, Idle
<1> QED
  BY <1>1, <1>2, <1>3 DEF SafetyInv

LEMMA SafetyStep ==
    TypeInv /\ WorksOnRun /\ TypeInv' /\ SafetyInv /\ [Next]_vars => SafetyInv'
<1> SUFFICES ASSUME TypeInv, WorksOnRun, TypeInv', SafetyInv, [Next]_vars
             PROVE  SafetyInv'
  OBVIOUS
<1>1. Grows
  BY StepGrows DEF SafetyInv
<1>2. ASSUME NEW p \in Procs,
             Poll(p) \/ Command(p) \/ Work(p) \/ PutCheckpoint(p) \/ Faulty(p)
      PROVE  SafetyInv'
  BY <1>1, <1>2, ProcessStep
<1>3. \/ \E p \in Procs :
            Poll(p) \/ Command(p) \/ Work(p) \/ PutCheckpoint(p) \/ Faulty(p)
      \/ UNCHANGED <<run, ckpt, proc, claims, verdict, pulls>>
  BY DEF Next, Procs, vars, Submit, ExpireLease, LoseArtifacts
<1> QED
  BY <1>2, <1>3, OthersKeepSafety

\* No patch reaches GitHub unless the sandbox has verified it and the run row says
\* so: however processes interleave, crash, replay a checkpoint or reopen a run.
THEOREM PublicationIsValidated == Spec => []PublishedOnlyValidated
<1>1. TypeInv /\ WorksOnRun /\ SafetyInv /\ [Next]_vars
         => (TypeInv /\ WorksOnRun /\ SafetyInv)'
  BY TypeStep, SafetyStep
<1>2. SafetyInv => PublishedOnlyValidated
  BY DEF SafetyInv
<1> QED
  BY TypeInit, SafetyInit, <1>1, <1>2, PTL DEF Spec
=============================================================================
