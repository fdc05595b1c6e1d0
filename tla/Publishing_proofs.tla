-------------------------- MODULE Publishing_proofs --------------------------
(***************************************************************************)
(* What publishing guarantees for every set of feedback, patches,          *)
(* processes and faults.  A publisher acts on what it has found out about  *)
(* GitHub some requests ago, and so do requests that arrive when nobody    *)
(* waits for them.  The invariant says what each of them may still rely    *)
(* on, and it rests on one fact: branches, pull requests and issues are    *)
(* only ever added.                                                        *)
(***************************************************************************)
EXTENDS Publishing, FiniteSetTheorems, SequenceTheorems, TLAPS

\* The pull request or the issue of a feedback is there.
Published(f, p, ps, is) ==
    IF f \in PullFeedback
    THEN \E i \in DOMAIN ps : ps[i].marker = [f |-> f, patch |-> p]
    ELSE \E i \in DOMAIN is : is[i] = f

MarkOf(c) == [f |-> c.f, patch |-> c.patch]
BranchOf(c) == Branch(c.f, c.cat)

\* A call is made for a feedback, with a patch if it is for a pull request.
Named(c) ==
    /\ c.pc # "idle" => /\ c.f \in Feedback
                        /\ c.f \in PullFeedback => c.patch \in Patches /\ c.cat \in Categories
    /\ c.pc \in PullSteps => c.f \in PullFeedback
    /\ c.pc \in IssueSteps => c.f \in IssueFeedback

\* What a call relies on, and what it reports.
CallSound(c, br, ps, is) ==
    /\ Named(c)
    /\ c.result # "none" => c.pc = "returned"
    /\ c.pc = "post" => br[BranchOf(c)] = MarkOf(c)
    /\ c.pc \in {"verify", "reverify"} => br[BranchOf(c)] # NoCommit
    /\ c.pc = "reref" => c.refused \/ br[BranchOf(c)] # NoCommit
    /\ c.pc = "refind" => c.refused \/ \E i \in DOMAIN ps : ps[i].head = BranchOf(c)
    /\ c.result = "conflict" =>
          /\ c.f \in PullFeedback
          /\ c.refused \/ br[BranchOf(c)] \notin {NoCommit, MarkOf(c)}
    /\ c.result \in {"opened", "reused"} => Published(c.f, c.patch, ps, is)

\* What a row says has been found out or done.
TaskSound(f, t, ps, is) ==
    /\ f \in PullFeedback /\ t.status \notin {"absent", "waiting"} =>
          t.patch \in Patches /\ t.cat \in Categories
    /\ t.status = "opened" => Published(f, t.patch, ps, is)

ShapeOK == /\ branch \in [Branches -> Marker \cup {NoCommit}]
           /\ pulls \in Seq(Pull)
           /\ issues \in Seq(IssueFeedback \cup {Foreign})
           /\ PullShowsItsPatch

\* What has landed and what still may land was given up by its client once.
CountsOK == /\ main \in 0..MaxMoves
            /\ faults \in 0..MaxFaults
            /\ late \subseteq Creation
            /\ landed \in [Branches \cup IssueFeedback -> 0..MaxFaults]
            /\ IsFiniteSet(late)
            /\ \A k \in Branches \cup IssueFeedback : landed[k] + Cardinality(late) <= faults

\* A delayed creation of a pull request was sent when its branch was verified.
LateOK == \A c \in late : c.kind = "pull" => branch[c.key] = c.marker

CallsOK == /\ call \in [Workers -> Call]
           /\ \A w \in Workers : CallSound(call[w], branch, pulls, issues)

TokensOK == /\ token \in [Workers -> [Kinds -> Token]]
            /\ \A w \in Workers, k \in Kinds : ~token[w][k].wide

TasksOK == /\ task \in [Feedback -> Task]
           /\ \A f \in Feedback : TaskSound(f, task[f], pulls, issues)

Inv == ShapeOK /\ CountsOK /\ LateOK /\ CallsOK /\ TokensOK /\ TasksOK

USE RepositoryAssumption, PageAssumption, PublishingAssumption

-----------------------------------------------------------------------------
(* The repository only grows *)

Grown == /\ \A b \in Branches : branch[b] # NoCommit => branch'[b] = branch[b]
         /\ \A i \in DOMAIN pulls : i \in DOMAIN pulls' /\ pulls'[i] = pulls[i]
         /\ \A i \in DOMAIN issues : i \in DOMAIN issues' /\ issues'[i] = issues[i]

LEMMA Appended ==
    ASSUME NEW S, NEW s \in Seq(S), NEW e \in S
    PROVE  /\ Append(s, e) \in Seq(S)
           /\ \A i \in DOMAIN s : i \in DOMAIN Append(s, e) /\ Append(s, e)[i] = s[i]
           /\ \A i \in DOMAIN Append(s, e) : i \in DOMAIN s \/ Append(s, e)[i] = e
           /\ \E i \in DOMAIN Append(s, e) : Append(s, e)[i] = e
<1>1. /\ Append(s, e) \in Seq(S)
      /\ Len(Append(s, e)) = Len(s) + 1
      /\ \A i \in 1..Len(s) : Append(s, e)[i] = s[i]
      /\ Append(s, e)[Len(s) + 1] = e
  BY AppendProperties
<1>2. Len(s) \in Nat /\ DOMAIN s = 1..Len(s)
  BY LenProperties
<1>3. DOMAIN Append(s, e) = 1..(Len(s) + 1)
  BY <1>1, LenProperties
<1> QED
  BY <1>1, <1>2, <1>3

LEMMA MarkersAreCommits == NoCommit \notin Marker
BY DEF NoCommit, Marker

LEMMA PullTyped ==
    ASSUME ShapeOK, NEW i \in DOMAIN pulls
    PROVE  pulls[i].head \in Branches /\ pulls[i].marker \in Marker
<1>1. pulls[i] \in Pull
  BY ElementOfSeq, LenProperties DEF ShapeOK
<1> QED
  BY <1>1 DEF Pull

\* Nothing new on GitHub.
LEMMA NothingNew ==
    ASSUME ShapeOK, LateOK, UNCHANGED <<branch, pulls, issues>>, late' \subseteq late
    PROVE  ShapeOK' /\ LateOK' /\ Grown
BY DEF ShapeOK, LateOK, Grown, PullShowsItsPatch

LEMMA BranchIsNew ==
    ASSUME ShapeOK, LateOK, NEW b \in Branches, NEW m \in Marker, branch[b] = NoCommit,
           CreateRef(b, m), UNCHANGED <<pulls, issues>>, late' \subseteq late,
           late \subseteq Creation
    PROVE  ShapeOK' /\ LateOK' /\ Grown
<1>1. branch' \in [Branches -> Marker \cup {NoCommit}]
  BY DEF ShapeOK, CreateRef
<1>2. Grown
  BY DEF Grown, ShapeOK, CreateRef
<1>3. PullShowsItsPatch'
  <2>1. ASSUME NEW i \in DOMAIN pulls
        PROVE  branch'[pulls[i].head] = pulls[i].marker
    BY PullTyped, MarkersAreCommits, <1>2 DEF ShapeOK, PullShowsItsPatch, Grown
  <2> QED
    BY <2>1 DEF PullShowsItsPatch
<1>4. LateOK'
  <2>1. ASSUME NEW c \in late, c.kind = "pull"
        PROVE  branch'[c.key] = c.marker
    <3>1. c.key \in Branches /\ c.marker \in Marker
      BY <2>1 DEF Creation
    <3> QED
      BY <2>1, <3>1, <1>2, MarkersAreCommits DEF LateOK, Grown
  <2> QED
    BY <2>1 DEF LateOK
<1> QED
  BY <1>1, <1>2, <1>3, <1>4 DEF ShapeOK

LEMMA PullIsNew ==
    ASSUME ShapeOK, LateOK, NEW b \in Branches, NEW m \in Marker, branch[b] = m,
           OpenPull(b, m), UNCHANGED <<branch, issues>>, late' \subseteq late
    PROVE  /\ ShapeOK' /\ LateOK' /\ Grown
           /\ \E i \in DOMAIN pulls' : pulls'[i].marker = m
<1> DEFINE p == [head |-> b, marker |-> m]
<1>1. p \in Pull /\ p.head = b /\ p.marker = m
  BY DEF Pull
<1>2. pulls \in Seq(Pull) /\ pulls' = Append(pulls, p)
  BY DEF ShapeOK, OpenPull
<1> HIDE DEF p
<1>3. /\ pulls' \in Seq(Pull)
      /\ \A i \in DOMAIN pulls : i \in DOMAIN pulls' /\ pulls'[i] = pulls[i]
      /\ \A i \in DOMAIN pulls' : i \in DOMAIN pulls \/ pulls'[i] = p
      /\ \E i \in DOMAIN pulls' : pulls'[i] = p
  BY <1>1, <1>2, Appended
<1>4. PullShowsItsPatch'
  BY <1>1, <1>3 DEF ShapeOK, PullShowsItsPatch
<1> QED
  BY <1>1, <1>3, <1>4 DEF ShapeOK, LateOK, Grown

LEMMA IssueIsNew ==
    ASSUME ShapeOK, LateOK, NEW f \in IssueFeedback \cup {Foreign},
           OpenIssue(f), UNCHANGED <<branch, pulls>>, late' \subseteq late
    PROVE  /\ ShapeOK' /\ LateOK' /\ Grown
           /\ \E i \in DOMAIN issues' : issues'[i] = f
<1>1. issues \in Seq(IssueFeedback \cup {Foreign}) /\ issues' = Append(issues, f)
  BY DEF ShapeOK, OpenIssue
<1>2. /\ issues' \in Seq(IssueFeedback \cup {Foreign})
      /\ \A i \in DOMAIN issues : i \in DOMAIN issues' /\ issues'[i] = issues[i]
      /\ \E i \in DOMAIN issues' : issues'[i] = f
  BY <1>1, Appended
<1> QED
  BY <1>2 DEF ShapeOK, LateOK, Grown, PullShowsItsPatch

-----------------------------------------------------------------------------
(* Faults are counted *)

FaultStep == faults' = faults \/ (faults < MaxFaults /\ faults' = faults + 1)

LEMMA FaultCounts == ASSUME NEW k, Fault(k) PROVE FaultStep
BY DEF Fault, FaultStep

LEMMA CountsStay ==
    ASSUME CountsOK, UNCHANGED <<late, landed>>, main' \in 0..MaxMoves, FaultStep
    PROVE  CountsOK'
<1>1. Cardinality(late) \in Nat
  BY FS_CardinalityType DEF CountsOK
<1> QED
  BY <1>1 DEF CountsOK, FaultStep

LEMMA DelayCounts ==
    ASSUME ShapeOK, CountsOK, LateOK, NEW kind, NEW key, NEW m, Delay(kind, key, m),
           [kind |-> kind, key |-> key, marker |-> m, id |-> faults] \in Creation,
           kind = "pull" => branch[key] = m,
           UNCHANGED <<main, branch, pulls, issues, landed>>
    PROVE  ShapeOK' /\ CountsOK' /\ LateOK' /\ Grown
<1> DEFINE c == [kind |-> kind, key |-> key, marker |-> m, id |-> faults]
<1>1. /\ late' = late \cup {c} /\ c \in Creation
      /\ faults < MaxFaults /\ faults' = faults + 1
      /\ c.kind = kind /\ c.key = key /\ c.marker = m
  BY DEF Delay, Fault
<1> HIDE DEF c
<1>2. IsFiniteSet(late) /\ Cardinality(late) \in Nat
  BY FS_CardinalityType DEF CountsOK
<1>3. /\ IsFiniteSet(late \cup {c})
      /\ Cardinality(late \cup {c}) = IF c \in late THEN Cardinality(late)
                                                   ELSE Cardinality(late) + 1
  BY <1>2, FS_AddElement
<1>5. ASSUME NEW k \in Branches \cup IssueFeedback
      PROVE  landed'[k] + Cardinality(late') <= faults'
  <2>1. landed[k] \in Nat /\ landed[k] + Cardinality(late) <= faults
    BY DEF CountsOK
  <2> QED
    BY <1>1, <1>2, <1>3, <2>1 DEF CountsOK
<1>6. late' \subseteq Creation /\ IsFiniteSet(late')
  BY <1>1, <1>3 DEF CountsOK
<1>7. faults' \in 0..MaxFaults
  BY <1>1 DEF CountsOK
<1>8. CountsOK'
  BY <1>5, <1>6, <1>7 DEF CountsOK
<1>4. LateOK'
  BY <1>1 DEF LateOK
<1> QED
  BY <1>4, <1>8 DEF ShapeOK, Grown, PullShowsItsPatch

LEMMA LandingCounts ==
    ASSUME CountsOK, NEW c \in late, late' = late \ {c}, UNCHANGED <<main, faults>>,
           \/ UNCHANGED landed
           \/ /\ c.key \in Branches \cup IssueFeedback
              /\ landed' = [landed EXCEPT ![c.key] = @ + 1]
    PROVE  CountsOK'
<1>1. /\ IsFiniteSet(late') /\ Cardinality(late) \in Nat /\ Cardinality(late') \in Nat
      /\ Cardinality(late') = Cardinality(late) - 1
  BY FS_RemoveElement, FS_CardinalityType DEF CountsOK
<1>2. ASSUME NEW k \in Branches \cup IssueFeedback
      PROVE  landed'[k] \in 0..MaxFaults /\ landed'[k] + Cardinality(late') <= faults
  BY <1>1, <1>2 DEF CountsOK
<1>3. landed' \in [Branches \cup IssueFeedback -> 0..MaxFaults]
  BY <1>2 DEF CountsOK
<1> QED
  BY <1>1, <1>2, <1>3 DEF CountsOK

-----------------------------------------------------------------------------
(* What has been found out stays true *)

LEMMA PublishedStays ==
    ASSUME Grown, NEW f, NEW p, Published(f, p, pulls, issues)
    PROVE  Published(f, p, pulls', issues')
BY DEF Published, Grown

LEMMA CallStaysSound ==
    ASSUME Grown, NEW c, CallSound(c, branch, pulls, issues)
    PROVE  CallSound(c, branch', pulls', issues')
<1>1. c.pc \in {"post", "verify", "reverify", "reref"} \/ c.result = "conflict" =>
        c.f \in PullFeedback /\ c.cat \in Categories
  BY DEF CallSound, Named, PullSteps
<1>2. c.f \in PullFeedback /\ c.cat \in Categories =>
        /\ BranchOf(c) \in Branches
        /\ MarkOf(c) # NoCommit
  BY DEF BranchOf, Branches, MarkOf, NoCommit
<1>3. c.f \in PullFeedback /\ c.cat \in Categories /\ branch[BranchOf(c)] # NoCommit =>
        branch'[BranchOf(c)] = branch[BranchOf(c)]
  BY <1>2 DEF Grown
<1>4. (\E i \in DOMAIN pulls : pulls[i].head = BranchOf(c)) =>
        \E i \in DOMAIN pulls' : pulls'[i].head = BranchOf(c)
  BY DEF Grown
<1> HIDE DEF BranchOf, MarkOf
<1> QED
  BY <1>1, <1>2, <1>3, <1>4, PublishedStays DEF CallSound

LEMMA OthersStaySound ==
    ASSUME CallsOK, Grown, NEW w \in Workers, NEW c \in Call,
           call' = [call EXCEPT ![w] = c], CallSound(c, branch', pulls', issues')
    PROVE  CallsOK'
<1>1. call' \in [Workers -> Call]
  BY DEF CallsOK
<1>2. ASSUME NEW v \in Workers
      PROVE  CallSound(call'[v], branch', pulls', issues')
  BY CallStaysSound DEF CallsOK
<1> QED
  BY <1>1, <1>2 DEF CallsOK

LEMMA CallsStaySound == ASSUME CallsOK, Grown, UNCHANGED call PROVE CallsOK'
BY CallStaysSound DEF CallsOK

LEMMA TasksStaySound == ASSUME TasksOK, Grown, UNCHANGED task PROVE TasksOK'
BY PublishedStays DEF TasksOK, TaskSound

LEMMA CallTyped ==
    ASSUME CallsOK, NEW w \in Workers
    PROVE  call[w] \in Call /\ CallSound(call[w], branch, pulls, issues)
BY DEF CallsOK

\* A call that is under way has no result yet.
Busy(w) == call[w].pc \notin {"idle", "returned"}

\* The next request of a call.
LEMMA Going ==
    ASSUME CallsOK, Grown, NEW w \in Workers, NEW step, Goto(w, step), Busy(w),
           \/ step \in PullSteps /\ call[w].f \in PullFeedback
           \/ step \in IssueSteps /\ call[w].f \in IssueFeedback,
           step = "post" => branch'[HeadOf(w)] = Mark(w),
           step \in {"verify", "reverify"} => branch'[HeadOf(w)] # NoCommit,
           step = "reref" => branch'[HeadOf(w)] # NoCommit,
           step = "refind" => \E i \in DOMAIN pulls' : pulls'[i].head = HeadOf(w)
    PROVE  CallsOK'
<1> DEFINE c == [call[w] EXCEPT !.pc = step]
<1>1. call[w] \in Call /\ CallSound(call[w], branch, pulls, issues)
  BY CallTyped
<1>2. step \in PullSteps \cup IssueSteps /\ PullSteps \cap IssueSteps = {}
      /\ step \notin {"idle", "returned"}
  BY DEF PullSteps, IssueSteps
<1>3. c \in Call /\ call' = [call EXCEPT ![w] = c]
  BY <1>1, <1>2 DEF Call, Goto, CallsOK
<1>4. /\ c.pc = step /\ c.f = call[w].f /\ c.patch = call[w].patch /\ c.cat = call[w].cat
      /\ c.result = call[w].result /\ call[w].result = "none"
  BY <1>1 DEF Call, CallSound, Busy
<1> HIDE DEF c
<1>5. Named(c)
  BY <1>1, <1>2, <1>4 DEF Named, CallSound, Busy
<1>6. CallSound(c, branch', pulls', issues')
  BY <1>4, <1>5 DEF CallSound, HeadOf, Mark, BranchOf, MarkOf
<1> QED
  BY <1>3, <1>6, OthersStaySound

\* The end of a call.
LEMMA Returning ==
    ASSUME CallsOK, Grown, NEW w \in Workers, NEW r \in Results, Return(w, r), Busy(w),
           r = "conflict" => /\ call[w].f \in PullFeedback
                             /\ \/ call[w].refused
                                \/ branch'[HeadOf(w)] \notin {NoCommit, Mark(w)},
           r \in {"opened", "reused"} =>
              Published(call[w].f, call[w].patch, pulls', issues')
    PROVE  CallsOK'
<1> DEFINE c == [call[w] EXCEPT !.pc = "returned", !.result = r]
<1>1. call[w] \in Call /\ CallSound(call[w], branch, pulls, issues)
  BY CallTyped
<1>2. c \in Call /\ call' = [call EXCEPT ![w] = c]
  BY <1>1 DEF Call, Return, CallsOK
<1>3. /\ c.pc = "returned" /\ c.result = r /\ c.f = call[w].f /\ c.patch = call[w].patch
      /\ c.cat = call[w].cat /\ c.refused = call[w].refused
  BY <1>1 DEF Call
<1> HIDE DEF c
<1>4. Named(c)
  BY <1>1, <1>3 DEF Named, CallSound, Busy, PullSteps, IssueSteps
<1>5. CallSound(c, branch', pulls', issues')
  BY <1>3, <1>4 DEF CallSound, HeadOf, Mark, BranchOf, MarkOf
<1> QED
  BY <1>2, <1>5, OthersStaySound

\* GitHub refuses a creation for reasons of its own, and the call looks once more.
LEMMA LookingAgain ==
    ASSUME CallsOK, Grown, NEW w \in Workers, NEW step \in {"reref", "refind"},
           Refused(w, step), Busy(w), call[w].f \in PullFeedback
    PROVE  CallsOK'
<1> DEFINE c == [call[w] EXCEPT !.pc = step, !.refused = TRUE]
<1>1. call[w] \in Call /\ CallSound(call[w], branch, pulls, issues)
  BY CallTyped
<1>2. c \in Call /\ call' = [call EXCEPT ![w] = c]
  BY <1>1 DEF Call, Refused, CallsOK, PullSteps
<1>3. /\ c.pc = step /\ c.f = call[w].f /\ c.patch = call[w].patch /\ c.cat = call[w].cat
      /\ c.result = call[w].result /\ call[w].result = "none" /\ c.refused
  BY <1>1 DEF Call, CallSound, Busy
<1> HIDE DEF c
<1>4. Named(c)
  BY <1>1, <1>3 DEF Named, CallSound, Busy, PullSteps, IssueSteps
<1>5. CallSound(c, branch', pulls', issues')
  BY <1>3, <1>4 DEF CallSound
<1> QED
  BY <1>2, <1>5, OthersStaySound

\* A refusal that nobody catches.
LEMMA RefusedForGood ==
    ASSUME CallsOK, Grown, NEW w \in Workers, Busy(w), call[w].f \in PullFeedback,
           call' = [call EXCEPT ![w].pc = "returned", ![w].result = "conflict",
                                ![w].refused = TRUE]
    PROVE  CallsOK'
<1> DEFINE c == [call[w] EXCEPT !.pc = "returned", !.result = "conflict", !.refused = TRUE]
<1>1. call[w] \in Call /\ CallSound(call[w], branch, pulls, issues)
  BY CallTyped
<1>2. c \in Call /\ call' = [call EXCEPT ![w] = c]
  BY <1>1 DEF Call, CallsOK, Results
<1>3. /\ c.pc = "returned" /\ c.f = call[w].f /\ c.patch = call[w].patch
      /\ c.cat = call[w].cat /\ c.result = "conflict" /\ c.refused
  BY <1>1 DEF Call
<1> HIDE DEF c
<1>4. Named(c)
  BY <1>1, <1>3 DEF Named, CallSound, Busy, PullSteps, IssueSteps
<1>5. CallSound(c, branch', pulls', issues')
  BY <1>3, <1>4 DEF CallSound
<1> QED
  BY <1>2, <1>5, OthersStaySound

\* Another page of the same lookup, or the first one of the next.
LEMMA Paging ==
    ASSUME CallsOK, Grown, NEW w \in Workers, NEW step \in {"lookup", "recover"},
           NEW page \in 0..MaxPages, call[w].pc \in IssueSteps,
           call' = [call EXCEPT ![w] = [call[w] EXCEPT !.pc = step, !.page = page]]
    PROVE  CallsOK'
<1> DEFINE c == [call[w] EXCEPT !.pc = step, !.page = page]
<1>1. call[w] \in Call /\ CallSound(call[w], branch, pulls, issues)
  BY CallTyped
<1>2. c \in Call
  BY <1>1 DEF Call, IssueSteps
<1>3. /\ c.pc = step /\ c.f = call[w].f /\ c.patch = call[w].patch /\ c.cat = call[w].cat
      /\ c.result = call[w].result /\ call[w].result = "none"
  BY <1>1 DEF Call, CallSound, IssueSteps
<1> HIDE DEF c
<1>4. Named(c)
  BY <1>1, <1>3 DEF Named, CallSound, PullSteps, IssueSteps
<1>5. CallSound(c, branch', pulls', issues')
  BY <1>3, <1>4 DEF CallSound
<1>6. call' = [call EXCEPT ![w] = c]
  BY DEF c
<1> QED
  BY <1>2, <1>5, <1>6, OthersStaySound

-----------------------------------------------------------------------------
(* The steps of a publisher *)

RepoKept == ShapeOK' /\ CountsOK' /\ LateOK' /\ Grown

Kept == RepoKept /\ CallsOK' /\ TokensOK'

\* A request that only reads, or that fails.
LEMMA Quiet ==
    ASSUME Inv, UNCHANGED <<main, branch, pulls, issues, late, landed>>, FaultStep
    PROVE  RepoKept
BY NothingNew, CountsStay DEF Inv, RepoKept, CountsOK

LEMMA Unfaulted == ASSUME UNCHANGED faults PROVE FaultStep
BY DEF FaultStep

LEMMA AtPull ==
    ASSUME Inv, NEW w \in Workers, call[w].pc \in PullSteps
    PROVE  /\ Busy(w) /\ call[w].f \in PullFeedback
           /\ HeadOf(w) \in Branches /\ Mark(w) \in Marker /\ Mark(w) # NoCommit
<1>1. /\ call[w].pc \notin {"idle", "returned"}
      /\ call[w].f \in PullFeedback
      /\ call[w].patch \in Patches /\ call[w].cat \in Categories
  BY DEF Inv, CallsOK, CallSound, Named, PullSteps
<1> QED
  BY <1>1 DEF Busy, HeadOf, Mark, Branches, Marker, NoCommit

LEMMA AtIssue ==
    ASSUME Inv, NEW w \in Workers, call[w].pc \in IssueSteps
    PROVE  Busy(w) /\ call[w].f \in IssueFeedback /\ call[w].f \notin PullFeedback
BY DEF Inv, CallsOK, CallSound, Named, IssueSteps, Busy

LEMMA MineIsPublished ==
    ASSUME Inv, NEW w \in Workers, call[w].pc \in PullSteps, Mine(w) # {}
    PROVE  Published(call[w].f, call[w].patch, pulls, issues)
<1>1. call[w].f \in PullFeedback
  BY AtPull
<1> QED
  BY <1>1 DEF Mine, Known, PullsOf, Mark, Published

LEMMA OthersIsConflict ==
    ASSUME Inv, NEW w \in Workers, call[w].pc \in PullSteps, Mine(w) = {}, Known(w) # {}
    PROVE  branch[HeadOf(w)] \notin {NoCommit, Mark(w)}
<1>1. PICK i \in DOMAIN pulls : pulls[i].head = HeadOf(w) /\ pulls[i].marker # Mark(w)
  BY DEF Known, PullsOf, Mine
<1>2. branch[HeadOf(w)] = pulls[i].marker
  BY <1>1 DEF Inv, ShapeOK, PullShowsItsPatch
<1>3. pulls[i].marker \in Marker
  BY <1>1, PullTyped DEF Inv
<1> QED
  BY <1>1, <1>2, <1>3, MarkersAreCommits

LEMMA Here ==
    ASSUME NEW w, NEW step, Request(w, step)
    PROVE  /\ call[w].pc = step /\ Authorized(w) /\ FaultStep
           /\ UNCHANGED <<token, faults>>
BY DEF Request, FaultStep

LEMMA PullStepNames ==
    /\ PullSteps = {"find", "main", "branch", "verify", "commit", "ref", "reref",
                    "reverify", "post", "refind"}
    /\ IssueSteps = {"lookup", "post_issue", "recover"}
    /\ {"opened", "reused", "stale", "conflict", "error"} \subseteq Results
BY DEF PullSteps, IssueSteps, Results

LEMMA TokensStay == ASSUME Inv, UNCHANGED token PROVE TokensOK'
BY DEF Inv, TokensOK

LEMMA FindPullKept ==
    ASSUME Inv, NEW w \in Workers, FindPull(w)
    PROVE  Kept
<1>1. call[w].pc = "find" /\ FaultStep /\ UNCHANGED token
  BY Here DEF FindPull
<1>2. UNCHANGED <<main, branch, pulls, issues, late, landed>>
  BY DEF FindPull
<1>3. RepoKept
  BY <1>1, <1>2, Quiet
<1>4. Busy(w) /\ call[w].f \in PullFeedback /\ call[w].pc \in PullSteps
  BY <1>1, AtPull, PullStepNames
<1>5. CASE Mine(w) # {} /\ Return(w, "reused")
  <2>1. Published(call[w].f, call[w].patch, pulls', issues')
    BY <1>2, <1>4, <1>5, MineIsPublished
  <2>2. CallsOK'
    BY <1>3, <1>4, <1>5, <2>1, Returning, PullStepNames DEF Inv, RepoKept
  <2> QED
    BY <1>1, <1>3, <2>2, TokensStay DEF Kept
<1>6. CASE Mine(w) = {} /\ Known(w) # {} /\ Return(w, "conflict")
  <2>1. branch'[HeadOf(w)] \notin {NoCommit, Mark(w)}
    BY <1>2, <1>4, <1>6, OthersIsConflict
  <2>2. CallsOK'
    BY <1>3, <1>4, <1>6, <2>1, Returning, PullStepNames DEF Inv, RepoKept
  <2> QED
    BY <1>1, <1>3, <2>2, TokensStay DEF Kept
<1>7. CASE Goto(w, "main")
  <2>1. CallsOK'
    BY <1>3, <1>4, <1>7, Going, PullStepNames DEF Inv, RepoKept
  <2> QED
    BY <1>1, <1>3, <2>1, TokensStay DEF Kept
<1> QED
  BY <1>5, <1>6, <1>7 DEF FindPull

LEMMA ReadMainKept ==
    ASSUME Inv, NEW w \in Workers, ReadMain(w)
    PROVE  Kept
<1>1. call[w].pc = "main" /\ FaultStep /\ UNCHANGED token
  BY Here DEF ReadMain
<1>2. RepoKept
  BY <1>1, Quiet DEF ReadMain
<1>3. Busy(w) /\ call[w].f \in PullFeedback
  BY <1>1, AtPull, PullStepNames
<1>4. Return(w, "stale") \/ Goto(w, "branch")
  BY DEF ReadMain
<1>5. CallsOK'
  BY <1>2, <1>3, <1>4, Returning, Going, PullStepNames DEF Inv, RepoKept
<1> QED
  BY <1>1, <1>2, <1>5, TokensStay DEF Kept

LEMMA ReadBranchKept ==
    ASSUME Inv, NEW w \in Workers, ReadBranch(w)
    PROVE  Kept
<1>1. call[w].pc = "branch" /\ FaultStep /\ UNCHANGED token
  BY Here DEF ReadBranch
<1>2. RepoKept /\ UNCHANGED branch
  BY <1>1, Quiet DEF ReadBranch
<1>3. Busy(w) /\ call[w].f \in PullFeedback
  BY <1>1, AtPull, PullStepNames
<1>4. CASE branch[HeadOf(w)] = NoCommit /\ Goto(w, "commit")
  BY <1>1, <1>2, <1>3, <1>4, Going, PullStepNames, TokensStay DEF Inv, RepoKept, Kept
<1>5. CASE branch[HeadOf(w)] # NoCommit /\ Goto(w, "verify")
  BY <1>1, <1>2, <1>3, <1>5, Going, PullStepNames, TokensStay DEF Inv, RepoKept, Kept
<1> QED
  BY <1>4, <1>5 DEF ReadBranch

LEMMA VerifyBranchKept ==
    ASSUME Inv, NEW w \in Workers, VerifyBranch(w)
    PROVE  Kept
<1>1. call[w].pc \in {"verify", "reverify"} /\ FaultStep /\ UNCHANGED token
  BY Here DEF VerifyBranch
<1>2. RepoKept /\ UNCHANGED branch
  BY <1>1, Quiet DEF VerifyBranch
<1>3. Busy(w) /\ call[w].f \in PullFeedback
  BY <1>1, AtPull, PullStepNames
<1>4. branch[HeadOf(w)] # NoCommit
  BY <1>1, CallTyped DEF Inv, CallSound, HeadOf, BranchOf
<1>5. CASE branch[HeadOf(w)] = Mark(w) /\ Goto(w, "post")
  BY <1>1, <1>2, <1>3, <1>5, Going, PullStepNames, TokensStay DEF Inv, RepoKept, Kept
<1>6. CASE branch[HeadOf(w)] # Mark(w) /\ Return(w, "conflict")
  BY <1>1, <1>2, <1>3, <1>4, <1>6, Returning, PullStepNames, TokensStay
  DEF Inv, RepoKept, Kept
<1> QED
  BY <1>5, <1>6 DEF VerifyBranch, Verified

LEMMA CreateCommitKept ==
    ASSUME Inv, NEW w \in Workers, CreateCommit(w)
    PROVE  Kept
<1>1. call[w].pc = "commit" /\ FaultStep /\ UNCHANGED token
  BY Here DEF CreateCommit
<1>2. RepoKept /\ Goto(w, "ref")
  BY <1>1, Quiet DEF CreateCommit
<1>3. Busy(w) /\ call[w].f \in PullFeedback
  BY <1>1, AtPull, PullStepNames
<1> QED
  BY <1>1, <1>2, <1>3, Going, PullStepNames, TokensStay DEF Inv, RepoKept, Kept

\* A branch is created, by a step whose faults are counted.
LEMMA BranchCreated ==
    ASSUME Inv, NEW w \in Workers, call[w].pc \in PullSteps, branch[HeadOf(w)] = NoCommit,
           CreateRef(HeadOf(w), Mark(w)), FaultStep,
           UNCHANGED <<main, pulls, issues, late, landed>>
    PROVE  RepoKept /\ branch'[HeadOf(w)] = Mark(w)
<1>1. HeadOf(w) \in Branches /\ Mark(w) \in Marker
  BY AtPull
<1>2. ShapeOK' /\ LateOK' /\ Grown
  BY <1>1, BranchIsNew DEF Inv, CountsOK
<1>3. CountsOK'
  BY CountsStay DEF Inv, CountsOK
<1>4. branch'[HeadOf(w)] = Mark(w)
  BY <1>1 DEF Inv, ShapeOK, CreateRef
<1> QED
  BY <1>2, <1>3, <1>4 DEF RepoKept

\* A pull request is opened for a verified branch.
LEMMA PullCreated ==
    ASSUME Inv, NEW w \in Workers, call[w].pc = "post",
           OpenPull(HeadOf(w), Mark(w)), FaultStep,
           UNCHANGED <<main, branch, issues, late, landed>>
    PROVE  RepoKept /\ Published(call[w].f, call[w].patch, pulls', issues')
<1>1. /\ HeadOf(w) \in Branches /\ Mark(w) \in Marker /\ call[w].f \in PullFeedback
  BY AtPull, PullStepNames
<1>2. branch[HeadOf(w)] = Mark(w)
  BY CallTyped DEF Inv, CallSound, HeadOf, Mark, BranchOf, MarkOf
<1>3. ShapeOK' /\ LateOK' /\ Grown /\ \E i \in DOMAIN pulls' : pulls'[i].marker = Mark(w)
  BY <1>1, <1>2, PullIsNew DEF Inv
<1>4. CountsOK'
  BY CountsStay DEF Inv, CountsOK
<1> QED
  BY <1>1, <1>3, <1>4 DEF RepoKept, Published, Mark

LEMMA IssueCreated ==
    ASSUME Inv, NEW w \in Workers, call[w].pc = "post_issue", OpenIssue(call[w].f), FaultStep,
           UNCHANGED <<main, branch, pulls, late, landed>>
    PROVE  RepoKept /\ Published(call[w].f, call[w].patch, pulls', issues')
<1>1. call[w].f \in IssueFeedback /\ call[w].f \notin PullFeedback
  BY AtIssue, PullStepNames
<1>2. ShapeOK' /\ LateOK' /\ Grown /\ \E i \in DOMAIN issues' : issues'[i] = call[w].f
  BY <1>1, IssueIsNew DEF Inv
<1>3. CountsOK'
  BY CountsStay DEF Inv, CountsOK
<1> QED
  BY <1>1, <1>2, <1>3 DEF RepoKept, Published

LEMMA PostRefKept ==
    ASSUME Inv, NEW w \in Workers, PostRef(w)
    PROVE  Kept
<1>1. call[w].pc = "ref" /\ FaultStep /\ UNCHANGED token
  BY Here, FaultCounts DEF PostRef
<1>2. Busy(w) /\ call[w].f \in PullFeedback /\ call[w].pc \in PullSteps
  BY <1>1, AtPull, PullStepNames
<1>3. UNCHANGED <<main, pulls, issues, late, landed>>
  BY DEF PostRef
<1>4. CASE /\ branch[HeadOf(w)] = NoCommit
           /\ CreateRef(HeadOf(w), Mark(w)) /\ Goto(w, "post")
  <2>1. RepoKept /\ branch'[HeadOf(w)] = Mark(w)
    BY <1>1, <1>2, <1>3, <1>4, BranchCreated
  <2> QED
    BY <1>1, <1>2, <1>4, <2>1, Going, PullStepNames, TokensStay DEF Inv, RepoKept, Kept
<1>5. CASE UNCHANGED branch /\ branch[HeadOf(w)] # NoCommit /\ Goto(w, "reref")
  <2>1. RepoKept
    BY <1>1, <1>3, <1>5, Quiet
  <2> QED
    BY <1>1, <1>2, <1>5, <2>1, Going, PullStepNames, TokensStay DEF Inv, RepoKept, Kept
<1>6. CASE UNCHANGED branch /\ Refused(w, "reref")
  <2>1. RepoKept
    BY <1>1, <1>3, <1>6, Quiet
  <2> QED
    BY <1>1, <1>2, <1>6, <2>1, LookingAgain, TokensStay DEF Inv, RepoKept, Kept
<1> QED
  BY <1>4, <1>5, <1>6 DEF PostRef

LEMMA RefReplyLostKept ==
    ASSUME Inv, NEW w \in Workers, RefReplyLost(w)
    PROVE  Kept
<1>1. /\ call[w].pc = "ref" /\ Return(w, "error")
      /\ UNCHANGED <<main, pulls, issues, landed, token>>
  BY DEF RefReplyLost
<1>2. /\ Busy(w) /\ call[w].f \in PullFeedback /\ call[w].pc \in PullSteps
      /\ HeadOf(w) \in Branches /\ Mark(w) \in Marker
  BY <1>1, AtPull, PullStepNames
<1>3. ASSUME Fault("lost"), branch[HeadOf(w)] = NoCommit,
             CreateRef(HeadOf(w), Mark(w)), UNCHANGED late
      PROVE  RepoKept
  BY <1>1, <1>2, <1>3, FaultCounts, BranchCreated
<1>4. ASSUME Delay("ref", HeadOf(w), Mark(w)), UNCHANGED branch
      PROVE  RepoKept
  <2>1. [kind |-> "ref", key |-> HeadOf(w), marker |-> Mark(w), id |-> faults] \in Creation
    BY <1>2 DEF Creation, Inv, CountsOK
  <2> QED
    BY <1>1, <1>4, <2>1, DelayCounts DEF Inv, RepoKept
<1>5. RepoKept
  BY <1>3, <1>4 DEF RefReplyLost
<1> QED
  BY <1>1, <1>2, <1>5, Returning, PullStepNames, TokensStay DEF Inv, RepoKept, Kept

LEMMA RereadRefKept ==
    ASSUME Inv, NEW w \in Workers, RereadRef(w)
    PROVE  Kept
<1>1. call[w].pc = "reref" /\ FaultStep /\ UNCHANGED token
  BY Here DEF RereadRef
<1>2. RepoKept /\ UNCHANGED branch
  BY <1>1, Quiet DEF RereadRef
<1>3. Busy(w) /\ call[w].f \in PullFeedback
  BY <1>1, AtPull, PullStepNames
<1>4. CASE branch[HeadOf(w)] = NoCommit /\ Return(w, "conflict")
  <2>1. call[w].refused
    BY <1>1, <1>4, CallTyped DEF Inv, CallSound, HeadOf, BranchOf
  <2> QED
    BY <1>1, <1>2, <1>3, <1>4, <2>1, Returning, PullStepNames, TokensStay
    DEF Inv, RepoKept, Kept
<1>5. CASE branch[HeadOf(w)] # NoCommit /\ Goto(w, "reverify")
  BY <1>1, <1>2, <1>3, <1>5, Going, PullStepNames, TokensStay DEF Inv, RepoKept, Kept
<1> QED
  BY <1>4, <1>5 DEF RereadRef

LEMMA PostPullKept ==
    ASSUME Inv, NEW w \in Workers, PostPull(w)
    PROVE  Kept
<1>1. call[w].pc = "post" /\ FaultStep /\ UNCHANGED token
  BY Here, FaultCounts DEF PostPull
<1>2. Busy(w) /\ call[w].f \in PullFeedback
  BY <1>1, AtPull, PullStepNames
<1>3. UNCHANGED <<main, branch, issues, late, landed>>
  BY DEF PostPull
<1>4. CASE OpenPull(HeadOf(w), Mark(w)) /\ Return(w, "opened")
  <2>1. RepoKept /\ Published(call[w].f, call[w].patch, pulls', issues')
    BY <1>1, <1>3, <1>4, PullCreated
  <2> QED
    BY <1>1, <1>2, <1>4, <2>1, Returning, PullStepNames, TokensStay DEF Inv, RepoKept, Kept
<1>5. CASE UNCHANGED pulls /\ ~CanOpen(HeadOf(w)) /\ Goto(w, "refind")
  <2>1. RepoKept
    BY <1>1, <1>3, <1>5, Quiet
  <2>2. branch[HeadOf(w)] = Mark(w)
    BY <1>1, CallTyped DEF Inv, CallSound, HeadOf, Mark, BranchOf, MarkOf
  <2>4. Mark(w) # NoCommit
    BY <1>1, AtPull, PullStepNames
  <2>3. \E i \in DOMAIN pulls' : pulls'[i].head = HeadOf(w)
    BY <1>5, <2>2, <2>4 DEF CanOpen, PullsOf
  <2> QED
    BY <1>1, <1>2, <1>5, <2>1, <2>3, Going, PullStepNames, TokensStay
    DEF Inv, RepoKept, Kept
<1>6. CASE UNCHANGED pulls /\ Refused(w, "refind")
  <2>1. RepoKept
    BY <1>1, <1>3, <1>6, Quiet
  <2> QED
    BY <1>1, <1>2, <1>6, <2>1, LookingAgain, TokensStay DEF Inv, RepoKept, Kept
<1> QED
  BY <1>4, <1>5, <1>6 DEF PostPull

LEMMA PullReplyLostKept ==
    ASSUME Inv, NEW w \in Workers, PullReplyLost(w)
    PROVE  Kept
<1>1. /\ call[w].pc = "post" /\ Return(w, "error")
      /\ UNCHANGED <<main, branch, issues, landed, token>>
  BY DEF PullReplyLost
<1>2. /\ Busy(w) /\ call[w].f \in PullFeedback
      /\ HeadOf(w) \in Branches /\ Mark(w) \in Marker
  BY <1>1, AtPull, PullStepNames
<1>3. ASSUME Fault("lost"), OpenPull(HeadOf(w), Mark(w)), UNCHANGED late
      PROVE  RepoKept
  BY <1>1, <1>3, FaultCounts, PullCreated
<1>4. ASSUME Delay("pull", HeadOf(w), Mark(w)), UNCHANGED pulls
      PROVE  RepoKept
  <2>1. [kind |-> "pull", key |-> HeadOf(w), marker |-> Mark(w), id |-> faults] \in Creation
    BY <1>2 DEF Creation, Inv, CountsOK
  <2>2. branch[HeadOf(w)] = Mark(w)
    BY <1>1, CallTyped DEF Inv, CallSound, HeadOf, Mark, BranchOf, MarkOf
  <2> QED
    BY <1>1, <1>4, <2>1, <2>2, DelayCounts DEF Inv, RepoKept
<1>5. RepoKept
  BY <1>3, <1>4 DEF PullReplyLost
<1> QED
  BY <1>1, <1>2, <1>5, Returning, PullStepNames, TokensStay DEF Inv, RepoKept, Kept

LEMMA RefindPullKept ==
    ASSUME Inv, NEW w \in Workers, RefindPull(w)
    PROVE  Kept
<1>1. call[w].pc = "refind" /\ FaultStep /\ UNCHANGED token
  BY Here DEF RefindPull
<1>2. UNCHANGED <<main, branch, pulls, issues, late, landed>>
  BY DEF RefindPull
<1>3. RepoKept
  BY <1>1, <1>2, Quiet
<1>4. Busy(w) /\ call[w].f \in PullFeedback /\ call[w].pc \in PullSteps
  BY <1>1, AtPull, PullStepNames
<1>5. CASE Mine(w) # {} /\ Return(w, "reused")
  <2>1. Published(call[w].f, call[w].patch, pulls', issues')
    BY <1>2, <1>4, <1>5, MineIsPublished
  <2> QED
    BY <1>1, <1>3, <1>4, <1>5, <2>1, Returning, PullStepNames, TokensStay
    DEF Inv, RepoKept, Kept
<1>6. CASE Mine(w) = {} /\ Known(w) # {} /\ Return(w, "conflict")
  <2>1. branch'[HeadOf(w)] \notin {NoCommit, Mark(w)}
    BY <1>2, <1>4, <1>6, OthersIsConflict
  <2> QED
    BY <1>1, <1>3, <1>4, <1>6, <2>1, Returning, PullStepNames, TokensStay
    DEF Inv, RepoKept, Kept
<1>7. CASE Known(w) = {} /\ Return(w, "conflict")
  <2>1. call[w].refused
    BY <1>1, <1>7, CallTyped DEF Inv, CallSound, HeadOf, BranchOf, Known, PullsOf
  <2> QED
    BY <1>1, <1>3, <1>4, <1>7, <2>1, Returning, PullStepNames, TokensStay
    DEF Inv, RepoKept, Kept
<1> QED
  BY <1>5, <1>6, <1>7 DEF RefindPull

\* A call that fails without a trace.
LEMMA FailingKept ==
    ASSUME Inv, NEW w \in Workers, Busy(w), Return(w, "error"), FaultStep,
           UNCHANGED <<main, branch, pulls, issues, late, landed, token>>
    PROVE  Kept
<1>1. RepoKept
  BY Quiet
<1> QED
  BY <1>1, Returning, PullStepNames, TokensStay DEF Inv, RepoKept, Kept

LEMMA BodyRefusedKept ==
    ASSUME Inv, NEW w \in Workers, BodyRefused(w)
    PROVE  Kept
BY FailingKept, Unfaulted, AtPull, PullStepNames DEF BodyRefused, repository

LEMMA PublishStepKept ==
    ASSUME Inv, NEW w \in Workers, PublishStep(w)
    PROVE  Kept
BY FindPullKept, ReadMainKept, ReadBranchKept, VerifyBranchKept, CreateCommitKept,
   PostRefKept, RefReplyLostKept, RereadRefKept, PostPullKept, BodyRefusedKept,
   PullReplyLostKept, RefindPullKept DEF PublishStep

\* One page of a lookup, whichever way it goes.
LEMMA PageReadKept ==
    ASSUME Inv, NEW w \in Workers, NEW step \in {"lookup", "recover"}, Request(w, step),
           UNCHANGED <<main, branch, pulls, issues, late, landed>>,
           \/ call[w].f \in Page(call[w].page, PageSize) /\ Return(w, "reused")
           \/ Return(w, "error")
           \/ Goto(w, "post_issue")
           \/ ~LimitReached(w) /\ call' = [call EXCEPT ![w].page = @ + 1]
    PROVE  Kept
<1>1. call[w].pc = step /\ FaultStep /\ UNCHANGED token
  BY Here
<1>2. RepoKept
  BY <1>1, Quiet
<1>3. /\ Busy(w) /\ call[w].f \in IssueFeedback /\ call[w].f \notin PullFeedback
      /\ call[w].pc \in IssueSteps
  BY <1>1, AtIssue, PullStepNames
<1>4. CASE call[w].f \in Page(call[w].page, PageSize) /\ Return(w, "reused")
  <2>1. Published(call[w].f, call[w].patch, pulls', issues')
    BY <1>3, <1>4 DEF Page, Published
  <2> QED
    BY <1>1, <1>2, <1>3, <1>4, <2>1, Returning, PullStepNames, TokensStay
    DEF Inv, RepoKept, Kept
<1>5. CASE Return(w, "error")
  BY <1>1, <1>2, <1>3, <1>5, Returning, PullStepNames, TokensStay DEF Inv, RepoKept, Kept
<1>6. CASE Goto(w, "post_issue")
  BY <1>1, <1>2, <1>3, <1>6, Going, PullStepNames, TokensStay DEF Inv, RepoKept, Kept
<1>7. CASE ~LimitReached(w) /\ call' = [call EXCEPT ![w].page = @ + 1]
  <2> DEFINE page == call[w].page + 1
  <2>1. call[w] \in Call
    BY CallTyped DEF Inv
  <2>2. page \in 0..MaxPages
    BY <1>7, <2>1 DEF LimitReached, Call
  <2>3. [call[w] EXCEPT !.pc = step, !.page = page] = [call[w] EXCEPT !.page = page]
    BY <1>1, <2>1 DEF Call
  <2>4. call' = [call EXCEPT ![w] = [call[w] EXCEPT !.page = page]]
    BY <1>7
  <2> HIDE DEF page
  <2>5. CallsOK'
    BY <1>2, <1>3, <2>2, <2>3, <2>4, Paging DEF Inv, RepoKept
  <2> QED
    BY <1>1, <1>2, <2>5, TokensStay DEF Kept
<1> QED
  BY <1>4, <1>5, <1>6, <1>7

LEMMA LookUpIssueKept ==
    ASSUME Inv, NEW w \in Workers, LookUpIssue(w)
    PROVE  Kept
BY PageReadKept DEF LookUpIssue, ReadPage

LEMMA RecoverIssueKept ==
    ASSUME Inv, NEW w \in Workers, RecoverIssue(w)
    PROVE  Kept
BY PageReadKept DEF RecoverIssue, ReadPage

LEMMA PostIssueKept ==
    ASSUME Inv, NEW w \in Workers, PostIssue(w)
    PROVE  Kept
<1>1. call[w].pc = "post_issue" /\ FaultStep /\ UNCHANGED token
  BY Here DEF PostIssue
<1>2. RepoKept /\ Published(call[w].f, call[w].patch, pulls', issues')
  BY <1>1, IssueCreated DEF PostIssue
<1>3. Busy(w) /\ Return(w, "opened")
  BY <1>1, AtIssue, PullStepNames DEF PostIssue
<1> QED
  BY <1>1, <1>2, <1>3, Returning, PullStepNames, TokensStay DEF Inv, RepoKept, Kept

LEMMA IssueUnreadableKept ==
    ASSUME Inv, NEW w \in Workers, IssueUnreadable(w)
    PROVE  Kept
<1>1. call[w].pc = "post_issue" /\ FaultStep /\ UNCHANGED token
  BY FaultCounts DEF IssueUnreadable
<1>2. RepoKept
  BY <1>1, IssueCreated DEF IssueUnreadable
<1>3. Busy(w) /\ Return(w, "error")
  BY <1>1, AtIssue, PullStepNames DEF IssueUnreadable
<1> QED
  BY <1>1, <1>2, <1>3, Returning, PullStepNames, TokensStay DEF Inv, RepoKept, Kept

LEMMA DraftRefusedKept ==
    ASSUME Inv, NEW w \in Workers, DraftRefused(w)
    PROVE  Kept
BY FailingKept, Unfaulted, AtIssue, PullStepNames DEF DraftRefused, repository

LEMMA PostIssueFailsKept ==
    ASSUME Inv, NEW w \in Workers, PostIssueFails(w)
    PROVE  Kept
<1>1. /\ call[w].pc = "post_issue" /\ Recover(w)
      /\ UNCHANGED <<main, branch, pulls, landed, token>>
  BY DEF PostIssueFails
<1>2. call[w].f \in IssueFeedback /\ call[w].pc \in IssueSteps
  BY <1>1, AtIssue, PullStepNames
<1>3. ASSUME UNCHANGED <<issues, late>>, FaultStep
      PROVE  RepoKept
  BY <1>1, <1>3, Quiet
<1>4. ASSUME Fault("lost"), OpenIssue(call[w].f), UNCHANGED late
      PROVE  RepoKept
  BY <1>1, <1>4, FaultCounts, IssueCreated
<1>5. ASSUME Delay("issue", call[w].f, NoCommit), UNCHANGED issues
      PROVE  RepoKept
  <2>1. [kind |-> "issue", key |-> call[w].f, marker |-> NoCommit, id |-> faults] \in Creation
    BY <1>2 DEF Creation, Inv, CountsOK
  <2> QED
    BY <1>1, <1>5, <2>1, DelayCounts DEF Inv, RepoKept
<1>6. RepoKept
  BY <1>3, <1>4, <1>5, Unfaulted, FaultCounts DEF PostIssueFails
<1>7. call' = [call EXCEPT ![w] = [call[w] EXCEPT !.pc = "recover", !.page = 1]]
  BY <1>1 DEF Recover
<1>8. CallsOK'
  <2>1. 1 \in 0..MaxPages
    OBVIOUS
  <2>2. CallsOK /\ Grown
    BY <1>6 DEF Inv, RepoKept
  <2> QED
    BY <1>2, <1>7, <2>1, <2>2, Paging
<1> QED
  BY <1>1, <1>6, <1>8, TokensStay DEF Kept

LEMMA PublishIssueStepKept ==
    ASSUME Inv, NEW w \in Workers, PublishIssueStep(w)
    PROVE  Kept
BY LookUpIssueKept, PostIssueKept, IssueUnreadableKept, DraftRefusedKept, PostIssueFailsKept, RecoverIssueKept
   DEF PublishIssueStep

LEMMA RequestFailsKept ==
    ASSUME Inv, NEW w \in Workers, RequestFails(w)
    PROVE  Kept
<1>1. Busy(w)
  BY DEF RequestFails, FailingSteps, ConflictingSteps, PullSteps, IssueSteps, Busy
<1>2. FaultStep /\ UNCHANGED <<main, branch, pulls, issues, late, landed, token>>
  BY Unfaulted, FaultCounts DEF RequestFails
<1>3. CASE Return(w, "error")
  BY <1>1, <1>2, <1>3, FailingKept
<1>4. CASE /\ call[w].pc \in ConflictingSteps
           /\ call' = [call EXCEPT ![w].pc = "returned", ![w].result = "conflict",
                                   ![w].refused = TRUE]
  <2>1. call[w].f \in PullFeedback
    BY <1>4, AtPull DEF ConflictingSteps
  <2>2. RepoKept
    BY <1>2, Quiet
  <2>3. CallsOK'
    BY <1>1, <1>4, <2>1, <2>2, RefusedForGood DEF Inv, RepoKept
  <2> QED
    BY <1>2, <2>2, <2>3, TokensStay DEF Kept
<1> QED
  BY <1>3, <1>4 DEF RequestFails

-----------------------------------------------------------------------------
(* Tokens *)

LEMMA GetTokenKept ==
    ASSUME Inv, NEW w \in Workers, GetToken(w)
    PROVE  Kept
<1> DEFINE k == KindOf(w)
           begin == IF k = "pull" THEN "find" ELSE "lookup"
<1>1. call[w].pc = "token" /\ UNCHANGED <<main, branch, pulls, issues, late, landed>>
  BY DEF GetToken
<1>2. Busy(w) /\ call[w].f \in Feedback
  BY <1>1, CallTyped DEF Inv, CallSound, Named, Busy
<1>3. /\ k \in Kinds /\ begin \notin {"post", "verify", "reverify", "reref", "refind"}
      /\ \/ begin \in PullSteps /\ call[w].f \in PullFeedback
         \/ begin \in IssueSteps /\ call[w].f \in IssueFeedback
  BY <1>2, PullStepNames DEF KindOf, Kinds, Feedback
<1>4. FaultStep
  <2>1. \/ UNCHANGED faults
        \/ Fault("refused")
    BY DEF GetToken
  <2> QED
    BY <2>1, Unfaulted, FaultCounts
<1>5. RepoKept
  BY <1>1, <1>4, Quiet
<1>6. \/ UNCHANGED token
      \/ \E t \in [life : {"valid"}, wide : BOOLEAN] :
            ~t.wide /\ token' = [token EXCEPT ![w][k] = t]
  BY DEF GetToken, Acceptable
<1>7. Goto(w, begin) \/ Return(w, "error")
  BY DEF GetToken
<1> HIDE DEF k, begin
<1>8. TokensOK'
  <2>1. ASSUME NEW t \in [life : {"valid"}, wide : BOOLEAN], ~t.wide,
               token' = [token EXCEPT ![w][k] = t]
        PROVE  TokensOK'
    <3>1. t \in Token
      BY DEF Token
    <3>2. token' = [token EXCEPT ![w] = [token[w] EXCEPT ![k] = t]]
      BY <2>1
    <3>3. token[w] \in [Kinds -> Token] /\ token \in [Workers -> [Kinds -> Token]]
      BY DEF Inv, TokensOK
    <3>4. token' \in [Workers -> [Kinds -> Token]]
      BY <1>3, <3>1, <3>2, <3>3
    <3>5. \A v \in Workers, j \in Kinds : ~token'[v][j].wide
      BY <1>3, <2>1, <3>2, <3>3 DEF Inv, TokensOK
    <3> QED
      BY <3>4, <3>5 DEF TokensOK
  <2> QED
    BY <1>6, <2>1, TokensStay
<1>9. CallsOK'
  <2>1. CASE Goto(w, begin)
    BY <1>2, <1>3, <1>5, <2>1, Going DEF Inv, RepoKept
  <2>2. CASE Return(w, "error")
    BY <1>2, <1>5, <2>2, Returning, PullStepNames DEF Inv, RepoKept
  <2> QED
    BY <1>7, <2>1, <2>2
<1> QED
  BY <1>5, <1>8, <1>9 DEF Kept

LEMMA TokenAgesKept ==
    ASSUME Inv, NEW w \in Workers, TokenAges(w)
    PROVE  Kept
<1>1. PICK k \in Kinds, life \in {"expiring", "expired"} :
         token' = [token EXCEPT ![w][k].life = life]
  BY DEF TokenAges
<1>2. UNCHANGED <<main, branch, pulls, issues, late, landed, call>>
  BY DEF TokenAges
<1>3. FaultStep
  BY Unfaulted, FaultCounts DEF TokenAges
<1>4. RepoKept
  BY <1>2, <1>3, Quiet
<1>5. TokensOK'
  <2> DEFINE t == [token[w][k] EXCEPT !.life = life]
  <2>1. token[w][k] \in Token /\ ~token[w][k].wide
        /\ token[w] \in [Kinds -> Token] /\ token \in [Workers -> [Kinds -> Token]]
    BY DEF Inv, TokensOK
  <2>2. t \in Token /\ ~t.wide
    BY <2>1 DEF Token
  <2>3. token' = [token EXCEPT ![w] = [token[w] EXCEPT ![k] = t]]
    BY <1>1, <2>1
  <2> HIDE DEF t
  <2>4. token' \in [Workers -> [Kinds -> Token]]
    BY <2>1, <2>2, <2>3
  <2>5. \A v \in Workers, j \in Kinds : ~token'[v][j].wide
    BY <2>1, <2>2, <2>3 DEF Inv, TokensOK
  <2> QED
    BY <2>4, <2>5 DEF TokensOK
<1> QED
  BY <1>2, <1>4, <1>5, CallsStaySound DEF Inv, RepoKept, Kept

-----------------------------------------------------------------------------
(* Rows, processes and the repository itself *)

LEMMA OneTaskMoves ==
    ASSUME TasksOK, Grown, NEW f \in Feedback, NEW t \in Task,
           task' = [task EXCEPT ![f] = t], TaskSound(f, t, pulls', issues')
    PROVE  TasksOK'
<1>1. task' \in [Feedback -> Task]
  BY DEF TasksOK
<1>2. ASSUME NEW g \in Feedback
      PROVE  TaskSound(g, task'[g], pulls', issues')
  <2>1. CASE g = f
    BY <2>1 DEF TasksOK
  <2>2. CASE g # f
    <3>1. task'[g] = task[g] /\ TaskSound(g, task[g], pulls, issues)
      BY <2>2 DEF TasksOK
    <3> QED
      BY <3>1, PublishedStays DEF TaskSound
  <2> QED
    BY <2>1, <2>2
<1> QED
  BY <1>1, <1>2 DEF TasksOK

LEMMA TaskTyped ==
    ASSUME Inv, NEW f \in Feedback
    PROVE  task[f] \in Task /\ TaskSound(f, task[f], pulls, issues)
BY DEF Inv, TasksOK

\* A process without a call.
LEMMA IdleSound == NoCall \in Call /\ \A br, ps, is : CallSound(NoCall, br, ps, is)
BY DEF NoCall, Call, CallSound, Named, PullSteps, IssueSteps, Results

LEMMA NothingMoves == ASSUME Inv, UNCHANGED repository PROVE RepoKept
BY Quiet, Unfaulted DEF repository

LEMMA RunValidatesInv ==
    ASSUME Inv, NEW f \in Feedback, RunValidates(f)
    PROVE  Inv'
<1>1. RepoKept /\ CallsOK' /\ TokensOK'
  BY NothingMoves, CallsStaySound, TokensStay DEF RunValidates, Inv, RepoKept
<1>2. PICK p \in Patches, c \in Categories :
         task' = [task EXCEPT ![f].status = "publishing", ![f].patch = p,
                              ![f].cat = c, ![f].base = main]
  BY DEF RunValidates
<1> DEFINE t == [task[f] EXCEPT !.status = "publishing", !.patch = p, !.cat = c, !.base = main]
<1>3. task' = [task EXCEPT ![f] = t]
  BY <1>2, TaskTyped DEF Inv, TasksOK
<1>4. /\ t \in Task /\ t.status = "publishing" /\ t.patch = p /\ t.cat = c
  BY TaskTyped DEF Task, Inv, CountsOK
<1> HIDE DEF t
<1>5. TaskSound(f, t, pulls', issues')
  BY <1>4 DEF TaskSound
<1>6. TasksOK'
  BY <1>1, <1>3, <1>4, <1>5, OneTaskMoves DEF Inv, RepoKept
<1> QED
  BY <1>1, <1>6 DEF Inv, RepoKept

LEMMA RetryPublicationInv ==
    ASSUME Inv, NEW f \in Feedback, RetryPublication(f)
    PROVE  Inv'
<1>1. RepoKept /\ CallsOK' /\ TokensOK'
  BY NothingMoves, CallsStaySound, TokensStay DEF RetryPublication, Inv, RepoKept
<1> DEFINE t == [task[f] EXCEPT !.status = "publishing", !.retries = @ + 1]
<1>2. task' = [task EXCEPT ![f] = t]
  BY DEF RetryPublication
<1>3. /\ task[f] \in Task /\ TaskSound(f, task[f], pulls, issues)
      /\ task[f].status = "failed" /\ task[f].retries < MaxRetries
  BY TaskTyped DEF RetryPublication
<1>7. task[f].retries + 1 \in 0..MaxRetries
  BY <1>3 DEF Task
<1>8. \A n \in 0..MaxRetries : [task[f] EXCEPT !.status = "publishing", !.retries = n] \in Task
  BY <1>3 DEF Task
<1>4. t \in Task /\ t.status = "publishing" /\ t.patch = task[f].patch /\ t.cat = task[f].cat
  <2>1. t \in Task
    BY <1>7, <1>8
  <2>2. t.status = "publishing" /\ t.patch = task[f].patch /\ t.cat = task[f].cat
    BY <1>3 DEF Task
  <2> QED
    BY <2>1, <2>2
<1> HIDE DEF t
<1>5. TaskSound(f, t, pulls', issues')
  BY <1>3, <1>4 DEF TaskSound
<1>6. TasksOK'
  BY <1>1, <1>2, <1>4, <1>5, OneTaskMoves DEF Inv, RepoKept
<1> QED
  BY <1>1, <1>6 DEF Inv, RepoKept

LEMMA CallPublisherInv ==
    ASSUME Inv, NEW w \in Workers, NEW f \in Feedback, CallPublisher(w, f)
    PROVE  Inv'
<1>1. RepoKept /\ TokensOK'
  BY NothingMoves, TokensStay DEF CallPublisher
<1>2. TasksOK'
  BY <1>1, TasksStaySound DEF CallPublisher, Inv, RepoKept
<1> DEFINE c == [NoCall EXCEPT !.pc = "token", !.f = f, !.page = 1, !.patch = task[f].patch,
                               !.cat = task[f].cat, !.base = task[f].base]
<1>3. call' = [call EXCEPT ![w] = c]
  BY DEF CallPublisher
<1>4. /\ task[f] \in Task /\ TaskSound(f, task[f], pulls, issues)
      /\ task[f].status = "publishing"
  BY TaskTyped DEF CallPublisher
<1>8. NoCall \in Call /\ NoCall.result = "none"
  BY IdleSound DEF NoCall
<1>9. /\ task[f].patch \in Patches \cup {"none"} /\ task[f].cat \in Categories \cup {"none"}
      /\ task[f].base \in 0..MaxMoves
  BY <1>4 DEF Task
<1>10. 1 \in 0..MaxPages /\ f \in PullFeedback \cup IssueFeedback \cup {"none"}
       /\ "none" \in Results
  BY DEF Results, Feedback
<1>5. /\ c \in Call /\ c.pc = "token" /\ c.f = f /\ c.result = "none"
      /\ c.patch = task[f].patch /\ c.cat = task[f].cat
  BY <1>4, <1>8, <1>9, <1>10 DEF Call
<1> HIDE DEF c
<1>6. CallSound(c, branch', pulls', issues')
  BY <1>4, <1>5, PullStepNames DEF CallSound, Named, TaskSound
<1>7. CallsOK'
  BY <1>1, <1>3, <1>5, <1>6, OthersStaySound DEF Inv, RepoKept
<1> QED
  BY <1>1, <1>2, <1>7 DEF Inv, RepoKept

LEMMA AfterTyped ==
    ASSUME NEW t \in Task, NEW r \in Results
    PROVE  /\ After(t, r) \in Task
           /\ After(t, r).patch = t.patch /\ After(t, r).cat = t.cat
           /\ After(t, r).status = "opened" <=> r \in {"opened", "reused"}
<1>1. CASE r \in {"opened", "reused"}
  BY <1>1 DEF After, Task
<1>2. CASE r = "stale"
  <2>1. After(t, r) = AfterStale(t)
    BY <1>2 DEF After
  <2>2. CASE t.requeues = 0
    <3> DEFINE u == [t EXCEPT !.status = "waiting"]
    <3>1. u \in Task /\ u.patch = t.patch /\ u.cat = t.cat /\ u.status = "waiting"
      BY DEF Task
    <3>2. AfterStale(t) = [u EXCEPT !.requeues = 1]
      BY <2>2 DEF AfterStale
    <3> HIDE DEF u
    <3>3. [u EXCEPT !.requeues = 1] \in Task
      BY <3>1 DEF Task
    <3>4. /\ [u EXCEPT !.requeues = 1].patch = u.patch
          /\ [u EXCEPT !.requeues = 1].cat = u.cat
          /\ [u EXCEPT !.requeues = 1].status = u.status
      BY <3>1 DEF Task
    <3> QED
      BY <1>2, <2>1, <3>1, <3>2, <3>3, <3>4
  <2>3. CASE t.requeues # 0
    BY <1>2, <2>1, <2>3 DEF AfterStale, Task
  <2> QED
    BY <2>2, <2>3
<1>3. CASE r \notin {"opened", "reused", "stale"}
  BY <1>3 DEF After, Task
<1> QED
  BY <1>1, <1>2, <1>3

LEMMA FinishInv ==
    ASSUME Inv, NEW w \in Workers, Finish(w)
    PROVE  Inv'
<1>1. RepoKept /\ TokensOK'
  BY NothingMoves, TokensStay DEF Finish
<1>2. CallsOK'
  BY <1>1, IdleSound, OthersStaySound DEF Finish, Inv, RepoKept
<1>3. TasksOK'
  <2>1. CASE SameRun(w)
    <3> DEFINE f == call[w].f
               t == After(task[f], call[w].result)
    <3>1. /\ call[w] \in Call /\ CallSound(call[w], branch, pulls, issues)
          /\ call[w].pc = "returned"
      BY CallTyped DEF Inv, Finish
    <3>2. f \in Feedback /\ call[w].result \in Results
      BY <3>1 DEF CallSound, Named, Call
    <3>3. /\ task[f] \in Task /\ TaskSound(f, task[f], pulls, issues)
          /\ task[f].status = "publishing" /\ task[f].patch = call[w].patch
      BY <2>1, <3>2, TaskTyped DEF SameRun
    <3>4. /\ t \in Task /\ t.patch = task[f].patch /\ t.cat = task[f].cat
          /\ t.status = "opened" <=> call[w].result \in {"opened", "reused"}
      BY <3>2, <3>3, AfterTyped
    <3>5. task' = [task EXCEPT ![f] = t] /\ UNCHANGED <<pulls, issues>>
      BY <2>1 DEF Finish, repository
    <3>6. t.status = "opened" => Published(f, t.patch, pulls', issues')
      BY <3>1, <3>3, <3>4, <3>5 DEF CallSound
    <3> HIDE DEF t
    <3>7. TaskSound(f, t, pulls', issues')
      BY <3>3, <3>4, <3>6 DEF TaskSound
    <3> QED
      BY <1>1, <3>2, <3>4, <3>5, <3>7, OneTaskMoves DEF Inv, RepoKept
  <2>2. CASE ~SameRun(w)
    BY <1>1, <2>2, TasksStaySound DEF Finish, Inv, RepoKept
  <2> QED
    BY <2>1, <2>2
<1> QED
  BY <1>1, <1>2, <1>3 DEF Inv, RepoKept

LEMMA CrashInv ==
    ASSUME Inv, NEW w \in Workers, Crash(w)
    PROVE  Inv'
<1>1. RepoKept
  BY Quiet, FaultCounts DEF Crash
<1>2. CallsOK' /\ TasksOK'
  BY <1>1, IdleSound, OthersStaySound, TasksStaySound DEF Crash, Inv, RepoKept
<1>3. [k \in Kinds |-> NoToken] \in [Kinds -> Token] /\ ~NoToken.wide
  BY DEF NoToken, Token
<1>4. TokensOK'
  BY <1>3 DEF Crash, Inv, TokensOK
<1> QED
  BY <1>1, <1>2, <1>4 DEF Inv, RepoKept

LEMMA StepInv ==
    ASSUME Inv, NEW w \in Workers, Step(w) \/ (TokenAges(w) /\ UNCHANGED task)
    PROVE  Inv'
<1>1. ASSUME Kept, UNCHANGED task
      PROVE  Inv'
  BY <1>1, TasksStaySound DEF Inv, Kept, RepoKept
<1> QED
  BY <1>1, GetTokenKept, PublishStepKept, PublishIssueStepKept, RequestFailsKept,
     TokenAgesKept, FinishInv DEF Step

LEMMA LandsKept ==
    ASSUME Inv, DelayedCreationLands
    PROVE  RepoKept
<1>1. PICK c \in late :
        /\ late' = late \ {c}
        /\ \/ /\ c.kind = "ref"
              /\ IF branch[c.key] = NoCommit THEN CreateRef(c.key, c.marker) ELSE UNCHANGED branch
              /\ UNCHANGED <<pulls, issues, landed>>
           \/ /\ c.kind = "pull"
              /\ IF CanOpen(c.key) THEN /\ OpenPull(c.key, c.marker)
                                        /\ landed' = [landed EXCEPT ![c.key] = @ + 1]
                                   ELSE UNCHANGED <<pulls, landed>>
              /\ UNCHANGED <<branch, issues>>
           \/ /\ c.kind = "issue"
              /\ OpenIssue(c.key)
              /\ landed' = [landed EXCEPT ![c.key] = @ + 1]
              /\ UNCHANGED <<branch, pulls>>
        /\ UNCHANGED <<main, faults>>
  BY DEF DelayedCreationLands
<1>2. c \in Creation /\ late \subseteq Creation /\ late' \subseteq late
  BY <1>1 DEF Inv, CountsOK
<1>3. /\ c.kind \in {"ref", "pull"} => c.key \in Branches /\ c.marker \in Marker
      /\ c.kind = "issue" => c.key \in IssueFeedback
  BY <1>2 DEF Creation
<1>4. UNCHANGED landed \/ /\ c.key \in Branches \cup IssueFeedback
                          /\ landed' = [landed EXCEPT ![c.key] = @ + 1]
  BY <1>1, <1>3
<1>5. CountsOK'
  BY <1>1, <1>4, LandingCounts DEF Inv
<1>6. ShapeOK' /\ LateOK' /\ Grown
  <2>1. CASE UNCHANGED <<branch, pulls, issues>>
    BY <1>2, <2>1, NothingNew DEF Inv
  <2>2. CASE /\ c.kind = "ref" /\ branch[c.key] = NoCommit /\ CreateRef(c.key, c.marker)
             /\ UNCHANGED <<pulls, issues>>
    BY <1>2, <1>3, <2>2, BranchIsNew DEF Inv
  <2>3. CASE /\ c.kind = "pull" /\ OpenPull(c.key, c.marker) /\ UNCHANGED <<branch, issues>>
    <3>1. branch[c.key] = c.marker
      BY <2>3 DEF Inv, LateOK
    <3> QED
      BY <1>2, <1>3, <2>3, <3>1, PullIsNew DEF Inv
  <2>4. CASE c.kind = "issue" /\ OpenIssue(c.key) /\ UNCHANGED <<branch, pulls>>
    BY <1>2, <1>3, <2>4, IssueIsNew DEF Inv
  <2> QED
    BY <1>1, <2>1, <2>2, <2>3, <2>4
<1> QED
  BY <1>5, <1>6 DEF RepoKept

LEMMA RepositoryInv ==
    ASSUME Inv, RepositoryNext, UNCHANGED <<call, token, task>>
    PROVE  Inv'
<1>1. ASSUME MainMoves PROVE RepoKept
  <2>1. main \in 0..MaxMoves /\ main < MaxMoves /\ main' = main + 1
        /\ UNCHANGED <<branch, pulls, issues, late, landed, faults>>
    BY <1>1 DEF MainMoves, Inv, CountsOK
  <2>2. main' \in 0..MaxMoves
    BY <2>1
  <2>3. CountsOK'
    BY <2>1, <2>2, CountsStay, Unfaulted DEF Inv
  <2>4. ShapeOK' /\ LateOK' /\ Grown
    BY <2>1, NothingNew DEF Inv
  <2> QED
    BY <2>3, <2>4 DEF RepoKept
<1>2. ASSUME SomeoneOpensIssue PROVE RepoKept
  <2>1. OpenIssue(Foreign) /\ UNCHANGED <<main, branch, pulls, late, landed, faults>>
    BY <1>2 DEF SomeoneOpensIssue
  <2>2. main' \in 0..MaxMoves
    BY <2>1 DEF Inv, CountsOK
  <2>3. CountsOK'
    BY <2>1, <2>2, CountsStay, Unfaulted DEF Inv
  <2>5. Foreign \in IssueFeedback \cup {Foreign} /\ late' \subseteq late
    BY <2>1
  <2>4. ShapeOK' /\ LateOK' /\ Grown
    BY <2>1, <2>5, IssueIsNew DEF Inv
  <2> QED
    BY <2>3, <2>4 DEF RepoKept
<1>3. RepoKept
  BY <1>1, <1>2, LandsKept DEF RepositoryNext
<1>4. CallsOK' /\ TasksOK' /\ TokensOK'
  BY <1>3, CallsStaySound, TasksStaySound, TokensStay DEF Inv, RepoKept
<1> QED
  BY <1>3, <1>4 DEF Inv, RepoKept

-----------------------------------------------------------------------------
(* The invariant, and what follows from it *)

LEMMA InitInv == Init => Inv
<1> SUFFICES ASSUME Init PROVE Inv
  OBVIOUS
<1>1. RepositoryInit /\ CallsInit
  BY DEF Init
<1>2. <<>> \in Seq(Pull) /\ <<>> \in Seq(IssueFeedback \cup {Foreign})
      /\ DOMAIN pulls = {}
  BY <1>1 DEF RepositoryInit
<1>3. ShapeOK /\ LateOK
  BY <1>1, <1>2 DEF RepositoryInit, ShapeOK, LateOK, PullShowsItsPatch
<1>4. IsFiniteSet(late) /\ Cardinality(late) = 0
  BY <1>1, FS_EmptySet DEF RepositoryInit
<1>5. CountsOK
  BY <1>1, <1>4 DEF RepositoryInit, CountsOK
<1>6. CallsOK
  BY <1>1, IdleSound DEF CallsInit, CallsOK
<1>7. TokensOK
  BY <1>1 DEF CallsInit, TokensOK, NoToken, Token
<1>8. TasksOK
  <2>1. PICK batch \in Batches :
          task = [f \in Feedback |->
                    [status |-> IF f \notin batch THEN "absent"
                                ELSE IF f \in PullFeedback THEN "waiting" ELSE "publishing",
                     patch |-> "none", cat |-> "none", base |-> 0,
                     requeues |-> 0, retries |-> 0]]
    BY DEF Init
  <2>2. ASSUME NEW f \in Feedback
        PROVE  task[f] \in Task /\ TaskSound(f, task[f], pulls, issues)
    BY <2>1 DEF Task, TaskSound
  <2> QED
    BY <2>1, <2>2 DEF TasksOK
<1> QED
  BY <1>3, <1>5, <1>6, <1>7, <1>8 DEF Inv

LEMMA NextInv == Inv /\ [Next]_vars => Inv'
<1> SUFFICES ASSUME Inv, [Next]_vars PROVE Inv'
  OBVIOUS
<1>1. CASE UNCHANGED vars
  <2>1. RepoKept /\ UNCHANGED <<call, token, task>>
    BY <1>1, NothingMoves DEF vars
  <2> QED
    BY <2>1, CallsStaySound, TasksStaySound, TokensStay DEF Inv, RepoKept
<1>2. CASE Next
  BY <1>2, RepositoryInv, RunValidatesInv, RetryPublicationInv, StepInv, CrashInv,
     CallPublisherInv DEF Next
<1> QED
  BY <1>1, <1>2

\* The invariant holds in every behaviour: what has been found out about
\* GitHub is never undone, by other processes, faults or late requests.
THEOREM InvHolds == Spec => []Inv
BY InitInv, NextInv, PTL DEF Spec

\* Branches, pull requests, issues, calls, cached tokens and rows keep the
\* shapes of the GitHub payloads and of PublicationRequest.
THEOREM PublishingTyped == Spec => []TypeOK
<1>1. Inv => TypeOK
  BY DEF Inv, ShapeOK, CountsOK, CallsOK, TokensOK, TasksOK, TypeOK, RepositoryTypeOK, CallsTypeOK
<1> QED
  BY <1>1, InvHolds, PTL

\* Whoever created the branch and whatever became of the run that did, a pull
\* request shows the patch its marker names (_verify_existing_branch).
THEOREM PullsShowTheirPatch == Spec => []PullShowsItsPatch
<1>1. Inv => PullShowsItsPatch
  BY DEF Inv, ShapeOK
<1> QED
  BY <1>1, InvHolds, PTL

\* A row recorded as opened has its pull request, for the row's own patch, or
\* its issue (finish_publication).
THEOREM OpenedExistsHolds == Spec => []OpenedExists
<1>1. Inv => OpenedExists
  BY DEF Inv, TasksOK, TaskSound, Published, OpenedExists, IssuesOf
<1> QED
  BY <1>1, InvHolds, PTL

\* A call that reports a conflict has met a branch of another patch, never
\* what an earlier attempt of its own run left behind, unless GitHub refused
\* one of its creations for reasons of its own (_error_for_status).
THEOREM ConflictIsRealHolds == Spec => []ConflictIsReal
<1>1. Inv => ConflictIsReal
  BY DEF Inv, CallsOK, CallSound, ConflictIsReal, HeadOf, Mark, BranchOf, MarkOf
<1> QED
  BY <1>1, InvHolds, PTL

-----------------------------------------------------------------------------
(* A step of a process changes its own call only *)

OwnCall(w) == \E c : call' = [call EXCEPT ![w] = c]

LEMMA OwnMoves ==
    ASSUME NEW w, NEW c, call' = [call EXCEPT ![w] = c]
    PROVE  OwnCall(w)
BY DEF OwnCall

LEMMA OwnGoto == ASSUME NEW w, NEW s, Goto(w, s) PROVE OwnCall(w)
BY DEF OwnCall, Goto

LEMMA OwnReturn == ASSUME NEW w, NEW r, Return(w, r) PROVE OwnCall(w)
<1>1. call' = [call EXCEPT ![w] = [[call[w] EXCEPT !.pc = "returned"] EXCEPT !.result = r]]
  BY DEF Return
<1> QED
  BY <1>1, OwnMoves

LEMMA OwnRefused == ASSUME NEW w, NEW s, Refused(w, s) PROVE OwnCall(w)
<1>1. call' = [call EXCEPT ![w] = [[call[w] EXCEPT !.pc = s] EXCEPT !.refused = TRUE]]
  BY DEF Refused
<1> QED
  BY <1>1, OwnMoves

LEMMA OwnPublish == ASSUME NEW w, PublishStep(w) PROVE OwnCall(w)
<1>1. CASE FindPull(w) \/ ReadMain(w) \/ ReadBranch(w) \/ VerifyBranch(w) \/ CreateCommit(w)
  BY <1>1, OwnGoto, OwnReturn DEF FindPull, ReadMain, ReadBranch, VerifyBranch, CreateCommit
<1>2. CASE PostRef(w) \/ RefReplyLost(w) \/ RereadRef(w)
  BY <1>2, OwnGoto, OwnReturn, OwnRefused DEF PostRef, RefReplyLost, RereadRef
<1>3. CASE PostPull(w) \/ BodyRefused(w) \/ PullReplyLost(w) \/ RefindPull(w)
  BY <1>3, OwnGoto, OwnReturn, OwnRefused DEF PostPull, BodyRefused, PullReplyLost, RefindPull
<1> QED
  BY <1>1, <1>2, <1>3 DEF PublishStep

LEMMA OwnPage ==
    ASSUME NEW w, NEW found, NEW none, ReadPage(w, found, none),
           found => OwnCall(w), none => OwnCall(w)
    PROVE  OwnCall(w)
<1>1. CASE call' = [call EXCEPT ![w].page = @ + 1]
  BY <1>1 DEF OwnCall
<1> QED
  BY <1>1, OwnReturn DEF ReadPage

LEMMA OwnIssue == ASSUME NEW w, PublishIssueStep(w) PROVE OwnCall(w)
<1>1. CASE LookUpIssue(w) \/ RecoverIssue(w)
  BY <1>1, OwnPage, OwnGoto, OwnReturn DEF LookUpIssue, RecoverIssue
<1>2. CASE PostIssue(w) \/ IssueUnreadable(w) \/ DraftRefused(w)
  BY <1>2, OwnReturn DEF PostIssue, IssueUnreadable, DraftRefused
<1>3. CASE PostIssueFails(w)
  <2>1. call' = [call EXCEPT ![w] = [[call[w] EXCEPT !.pc = "recover"] EXCEPT !.page = 1]]
    BY <1>3 DEF PostIssueFails, Recover
  <2> QED
    BY <2>1, OwnMoves
<1> QED
  BY <1>1, <1>2, <1>3 DEF PublishIssueStep

LEMMA OwnStep == ASSUME NEW w, Step(w) \/ Crash(w) PROVE OwnCall(w)
<1>1. CASE GetToken(w)
  BY <1>1, OwnGoto, OwnReturn DEF GetToken
<1>2. CASE RequestFails(w)
  <2>1. CASE Return(w, "error")
    BY <2>1, OwnReturn
  <2>2. CASE call' = [call EXCEPT ![w].pc = "returned", ![w].result = "conflict",
                                  ![w].refused = TRUE]
    <3>1. call' = [call EXCEPT ![w] =
             [[[call[w] EXCEPT !.pc = "returned"] EXCEPT !.result = "conflict"]
                                                  EXCEPT !.refused = TRUE]]
      BY <2>2
    <3> QED
      BY <3>1, OwnMoves
  <2> QED
    BY <1>2, <2>1, <2>2 DEF RequestFails
<1>3. CASE Finish(w) \/ Crash(w)
  BY <1>3, OwnMoves DEF Finish, Crash
<1> QED
  BY <1>1, <1>2, <1>3, OwnPublish, OwnIssue DEF Step

LEMMA OwnCallPublisher == ASSUME NEW w, NEW f, CallPublisher(w, f) PROVE OwnCall(w)
BY OwnMoves DEF CallPublisher

LEMMA OthersRest ==
    ASSUME Inv, NEW w \in Workers, NEW v \in Workers, OwnCall(v), v # w
    PROVE  call'[w] = call[w]
BY DEF OwnCall, Inv, CallsOK

-----------------------------------------------------------------------------
(* Publishing implements PublishOnce *)

Shown == [b \in Branches |-> {pulls[i].marker : i \in PullsOf(b)}]

\* What a step does to branches and pull requests.
Given == \E b \in Branches, m \in Marker :
            branch[b] = NoCommit /\ CreateRef(b, m) /\ UNCHANGED pulls
Opened == \E b \in Branches, m \in Marker :
            CanOpen(b) /\ branch[b] = m /\ OpenPull(b, m) /\ UNCHANGED branch
OnceStep == Given \/ Opened \/ UNCHANGED <<branch, pulls>>

LEMMA PublishOnceStep ==
    ASSUME Inv, NEW w \in Workers, PublishStep(w)
    PROVE  OnceStep
<1>1. ASSUME call[w].pc \in PullSteps
      PROVE  /\ HeadOf(w) \in Branches /\ Mark(w) \in Marker
             /\ call[w].pc = "post" => branch[HeadOf(w)] = Mark(w)
  BY <1>1, AtPull, CallTyped DEF Inv, CallSound, HeadOf, Mark, BranchOf, MarkOf
<1>2. CASE PostRef(w)
  <2>1. call[w].pc \in PullSteps
    BY <1>2, Here, PullStepNames DEF PostRef
  <2> QED
    BY <1>1, <1>2, <2>1 DEF PostRef, OnceStep, Given
<1>3. CASE RefReplyLost(w)
  BY <1>1, <1>3, PullStepNames DEF RefReplyLost, OnceStep, Given
<1>4. CASE PostPull(w)
  <2>1. call[w].pc = "post"
    BY <1>4, Here DEF PostPull
  <2> QED
    BY <1>1, <1>4, <2>1, PullStepNames DEF PostPull, OnceStep, Opened
<1>5. CASE PullReplyLost(w)
  BY <1>1, <1>5, PullStepNames DEF PullReplyLost, OnceStep, Opened
<1>6. CASE \/ FindPull(w) \/ ReadMain(w) \/ ReadBranch(w) \/ VerifyBranch(w) \/ CreateCommit(w)
           \/ RereadRef(w) \/ BodyRefused(w) \/ RefindPull(w)
  BY <1>6 DEF FindPull, ReadMain, ReadBranch, VerifyBranch, CreateCommit, RereadRef,
     BodyRefused, RefindPull, OnceStep, repository
<1> QED
  BY <1>2, <1>3, <1>4, <1>5, <1>6 DEF PublishStep

LEMMA IssueOnceStep ==
    ASSUME NEW w, PublishIssueStep(w)
    PROVE  OnceStep
BY DEF PublishIssueStep, LookUpIssue, PostIssue, IssueUnreadable, DraftRefused, PostIssueFails, RecoverIssue,
   ReadPage, repository, OnceStep

LEMMA RepositoryOnceStep ==
    ASSUME Inv, RepositoryNext
    PROVE  OnceStep
<1>1. CASE MainMoves \/ SomeoneOpensIssue
  BY <1>1 DEF MainMoves, SomeoneOpensIssue, OnceStep
<1>2. CASE DelayedCreationLands
  <2>1. PICK c \in late :
          \/ /\ c.kind = "ref"
             /\ IF branch[c.key] = NoCommit THEN CreateRef(c.key, c.marker) ELSE UNCHANGED branch
             /\ UNCHANGED pulls
          \/ /\ c.kind = "pull"
             /\ IF CanOpen(c.key) THEN OpenPull(c.key, c.marker) ELSE UNCHANGED pulls
             /\ UNCHANGED branch
          \/ UNCHANGED <<branch, pulls>>
    BY <1>2 DEF DelayedCreationLands
  <2>2. c.kind \in {"ref", "pull"} => c.key \in Branches /\ c.marker \in Marker
    BY DEF Inv, CountsOK, Creation
  <2>3. c.kind = "pull" => branch[c.key] = c.marker
    BY DEF Inv, LateOK
  <2> QED
    BY <2>1, <2>2, <2>3 DEF OnceStep, Given, Opened
<1> QED
  BY <1>1, <1>2 DEF RepositoryNext

LEMMA EveryOnceStep ==
    ASSUME Inv, [Next]_vars
    PROVE  OnceStep
<1>1. CASE UNCHANGED <<branch, pulls>>
  BY <1>1 DEF OnceStep
<1>2. \/ UNCHANGED <<branch, pulls>>
      \/ RepositoryNext
      \/ \E w \in Workers : PublishStep(w) \/ PublishIssueStep(w)
  BY DEF Next, vars, repository, RunValidates, RetryPublication, Step, GetToken, RequestFails,
     Finish, TokenAges, Crash, CallPublisher
<1> QED
  BY <1>1, <1>2, PublishOnceStep, IssueOnceStep, RepositoryOnceStep

LEMMA GivenGives ==
    ASSUME Inv, Given
    PROVE  \E b \in Branches, m \in Marker : Once!Give(b, m)
<1>1. PICK b \in Branches, m \in Marker :
        branch[b] = NoCommit /\ CreateRef(b, m) /\ UNCHANGED pulls
  BY DEF Given
<1>2. branch' = [branch EXCEPT ![b] = m] /\ Shown' = Shown
  BY <1>1 DEF CreateRef, Shown, PullsOf
<1> QED
  BY <1>1, <1>2 DEF Once!Give, Shown

LEMMA OpenedShows ==
    ASSUME Inv, Opened
    PROVE  \E b \in Branches : Once!Show(b)
<1>1. PICK b \in Branches, m \in Marker :
        CanOpen(b) /\ branch[b] = m /\ OpenPull(b, m) /\ UNCHANGED branch
  BY DEF Opened
<1> DEFINE p == [head |-> b, marker |-> m]
<1>2. p \in Pull /\ p.head = b /\ p.marker = m
  BY DEF Pull
<1>3. pulls \in Seq(Pull) /\ pulls' = Append(pulls, p)
  BY <1>1 DEF Inv, ShapeOK, OpenPull
<1> HIDE DEF p
<1>4. /\ \A i \in DOMAIN pulls : i \in DOMAIN pulls' /\ pulls'[i] = pulls[i]
      /\ \A i \in DOMAIN pulls' : i \in DOMAIN pulls \/ pulls'[i] = p
      /\ \E i \in DOMAIN pulls' : pulls'[i] = p
  BY <1>2, <1>3, Appended
<1>5. \A i \in DOMAIN pulls : pulls[i].head # b
  BY <1>1 DEF CanOpen, PullsOf
<1>6. {pulls'[i].marker : i \in PullsOf(b)'} = {m}
  BY <1>2, <1>4, <1>5 DEF PullsOf
<1>7. ASSUME NEW a \in Branches, a # b
      PROVE  {pulls'[i].marker : i \in PullsOf(a)'} = {pulls[i].marker : i \in PullsOf(a)}
  <2>1. PullsOf(a)' = PullsOf(a) /\ \A i \in PullsOf(a) : pulls'[i] = pulls[i]
    BY <1>2, <1>4, <1>7 DEF PullsOf
  <2> QED
    BY <2>1
<1>8. Shown' = [Shown EXCEPT ![b] = {branch[b]}]
  BY <1>1, <1>6, <1>7 DEF Shown
<1> QED
  BY <1>1, <1>8 DEF Once!Show, Shown, CanOpen

\* Whatever requests fail, arrive late or are made twice, a branch is given to
\* one patch of one feedback for ever and its pull request shows that patch:
\* every step is a step of PublishOnce or leaves it alone.
THEOREM PublishingImplementsOnce == Spec => PublishesOnce
<1>1. Init => Once!Init
  <2> SUFFICES ASSUME Init PROVE Once!Init
    OBVIOUS
  <2>1. branch = [b \in Branches |-> NoCommit] /\ DOMAIN pulls = {}
    BY DEF Init, RepositoryInit
  <2>2. \A b \in Branches : {pulls[i].marker : i \in PullsOf(b)} = {}
    BY <2>1 DEF PullsOf
  <2> QED
    BY <2>1, <2>2 DEF Once!Init
<1>2. Inv /\ [Next]_vars => [Once!Next]_(Once!onceVars)
  <2> SUFFICES ASSUME Inv, [Next]_vars PROVE [Once!Next]_(Once!onceVars)
    OBVIOUS
  <2>1. CASE Given
    BY <2>1, GivenGives DEF Once!Next
  <2>2. CASE Opened
    BY <2>2, OpenedShows DEF Once!Next
  <2>3. CASE UNCHANGED <<branch, pulls>>
    BY <2>3 DEF Once!onceVars, PullsOf
  <2> QED
    BY <2>1, <2>2, <2>3, EveryOnceStep DEF OnceStep
<1> QED
  BY <1>1, <1>2, InvHolds, PTL DEF Spec, PublishesOnce, Once!Spec
-----------------------------------------------------------------------------
(* One issue per feedback *)

\* The agent that publishes issues is one process.
OneIssueWorker == \A v, w \in IssueWorkers : v = w

AtMost(S, n) == IsFiniteSet(S) /\ Cardinality(S) <= n

\* The issues of the feedback on the pages a lookup has read.  Pages are counted from the
\* newest issue, so that an older one only moves to later pages.
Seen(c, is) == {i \in DOMAIN is : is[i] = c.f /\ i + (c.page - 1) * PageSize > Len(is)}

\* What a lookup has found out that no other process and no arrival of a foreign issue
\* undoes: whatever it passed by has landed late.
Looked(c, is, ld) ==
    /\ c.pc = "token" => c.page = 1
    /\ c.pc = "lookup" => AtMost(Seen(c, is), ld[c.f])
    /\ c.pc = "post_issue" => AtMost({i \in DOMAIN is : is[i] = c.f}, ld[c.f])

IssueInv ==
    /\ \A f \in IssueFeedback : AtMost(IssuesOf(f), 1 + landed[f])
    /\ \A w \in Workers : /\ call[w].pc # "idle" /\ call[w].f \in IssueFeedback => w \in IssueWorkers
                          /\ Looked(call[w], issues, landed)

\* How a step changes the call of a process, as far as issues go.
CallCourse(w) ==
    \/ call'[w] = call[w]
    \/ call'[w].pc = "idle"
    \/ /\ call'[w].pc \notin {"idle", "token", "lookup", "post_issue"}
       /\ call'[w].f = call[w].f /\ call[w].pc # "idle"
    \/ /\ call'[w].pc = "token" /\ call'[w].page = 1
       /\ call'[w].f \in IssueFeedback => w \in IssueWorkers
    \/ call[w].pc = "token" /\ call'[w] = [call[w] EXCEPT !.pc = "lookup"]
    \/ /\ call[w].pc = "lookup" /\ call[w].f \notin Page(call[w].page, PageSize)
       /\ \/ LastPage(w) /\ call'[w] = [call[w] EXCEPT !.pc = "post_issue"]
          \/ ~LastPage(w) /\ call'[w] = [call[w] EXCEPT !.page = @ + 1]

\* How a step changes the issues.
IssueCourse ==
    \/ UNCHANGED <<issues, landed>>
    \/ UNCHANGED <<call, landed>> /\ issues' = Append(issues, Foreign)
    \/ /\ UNCHANGED call
       /\ \E k \in Branches \cup IssueFeedback :
             /\ landed' = [landed EXCEPT ![k] = @ + 1]
             /\ UNCHANGED issues \/ (k \in IssueFeedback /\ issues' = Append(issues, k))
    \/ \E w \in Workers : /\ call[w].pc = "post_issue" /\ UNCHANGED landed
                          /\ issues' = Append(issues, call[w].f)
                          /\ call'[w].pc \in {"returned", "recover"} /\ call'[w].f = call[w].f
                          /\ \A v \in Workers \ {w} : call'[v] = call[v]

LEMMA ReturnCourse ==
    ASSUME Inv, NEW w \in Workers, NEW r, call[w].pc # "idle", Return(w, r)
    PROVE  CallCourse(w) /\ call'[w].pc = "returned" /\ call'[w].f = call[w].f
<1>1. call' = [call EXCEPT ![w] = [[call[w] EXCEPT !.pc = "returned"] EXCEPT !.result = r]]
  BY DEF Return
<1>2. call[w] \in Call /\ call'[w] = [[call[w] EXCEPT !.pc = "returned"] EXCEPT !.result = r]
  BY <1>1 DEF Inv, CallsOK
<1>3. call'[w].pc = "returned" /\ call'[w].f = call[w].f
  BY <1>2 DEF Call
<1> QED
  BY <1>3 DEF CallCourse

LEMMA GotoCourse ==
    ASSUME Inv, NEW w \in Workers, NEW s, Goto(w, s), call[w].pc # "idle",
           s \notin {"idle", "token", "lookup", "post_issue"}
    PROVE  CallCourse(w)
<1>1. call[w] \in Call /\ call'[w] = [call[w] EXCEPT !.pc = s]
  BY DEF Inv, CallsOK, Goto
<1> QED
  BY <1>1 DEF CallCourse, Call

LEMMA RefusedCourse ==
    ASSUME Inv, NEW w \in Workers, NEW s, Refused(w, s), call[w].pc # "idle",
           s \notin {"idle", "token", "lookup", "post_issue"}
    PROVE  CallCourse(w)
<1>1. call' = [call EXCEPT ![w] = [[call[w] EXCEPT !.pc = s] EXCEPT !.refused = TRUE]]
  BY DEF Refused
<1>2. call[w] \in Call /\ call'[w] = [[call[w] EXCEPT !.pc = s] EXCEPT !.refused = TRUE]
  BY <1>1 DEF Inv, CallsOK
<1> QED
  BY <1>2 DEF CallCourse, Call

LEMMA PullCourse ==
    ASSUME Inv, NEW w \in Workers, PublishStep(w)
    PROVE  CallCourse(w) /\ UNCHANGED <<issues, landed>>
<1>1. call[w].pc # "idle"
  BY DEF PublishStep, Request, FindPull, ReadMain, ReadBranch, VerifyBranch,
     CreateCommit, PostRef, RefReplyLost, RereadRef, PostPull, BodyRefused, PullReplyLost,
     RefindPull
<1>2. CASE FindPull(w) \/ ReadMain(w) \/ ReadBranch(w) \/ VerifyBranch(w) \/ CreateCommit(w)
  BY <1>1, <1>2, GotoCourse, ReturnCourse
     DEF FindPull, ReadMain, ReadBranch, VerifyBranch, CreateCommit
<1>3. CASE PostRef(w) \/ RefReplyLost(w) \/ RereadRef(w)
  BY <1>1, <1>3, GotoCourse, ReturnCourse, RefusedCourse DEF PostRef, RefReplyLost, RereadRef
<1>4. CASE PostPull(w) \/ BodyRefused(w) \/ PullReplyLost(w) \/ RefindPull(w)
  BY <1>1, <1>4, GotoCourse, ReturnCourse, RefusedCourse
     DEF PostPull, BodyRefused, PullReplyLost, RefindPull, repository
<1> QED
  BY <1>2, <1>3, <1>4 DEF PublishStep

LEMMA GetTokenCourse ==
    ASSUME Inv, NEW w \in Workers, GetToken(w)
    PROVE  CallCourse(w) /\ UNCHANGED <<issues, landed>>
<1>1. call[w].pc = "token" /\ UNCHANGED <<issues, landed>>
  BY DEF GetToken
<1>2. \/ Goto(w, "find") \/ Goto(w, "lookup") \/ Return(w, "error")
  BY DEF GetToken
<1>3. ASSUME Goto(w, "lookup") PROVE CallCourse(w)
  <2>1. call'[w] = [call[w] EXCEPT !.pc = "lookup"]
    BY <1>3 DEF Goto, Inv, CallsOK
  <2> QED
    BY <1>1, <2>1 DEF CallCourse
<1> QED
  BY <1>1, <1>2, <1>3, GotoCourse, ReturnCourse

LEMMA LookUpCourse ==
    ASSUME Inv, NEW w \in Workers, LookUpIssue(w)
    PROVE  CallCourse(w) /\ UNCHANGED <<issues, landed>>
<1>1. call[w].pc = "lookup" /\ UNCHANGED <<issues, landed>>
  BY DEF LookUpIssue, Request, ReadPage
<1>2. CASE Return(w, "reused") \/ Return(w, "error")
  BY <1>1, <1>2, ReturnCourse
<1>3. CASE /\ call[w].f \notin Page(call[w].page, PageSize)
           /\ \/ LastPage(w) /\ Goto(w, "post_issue")
              \/ ~LastPage(w) /\ call' = [call EXCEPT ![w].page = @ + 1]
  <2>1. \/ LastPage(w) /\ call'[w] = [call[w] EXCEPT !.pc = "post_issue"]
        \/ ~LastPage(w) /\ call'[w] = [call[w] EXCEPT !.page = @ + 1]
    BY <1>3 DEF Goto, Inv, CallsOK
  <2> QED
    BY <1>1, <1>3, <2>1 DEF CallCourse
<1> QED
  BY <1>2, <1>3 DEF LookUpIssue, ReadPage

LEMMA RecoverCourse ==
    ASSUME Inv, NEW w \in Workers, RecoverIssue(w)
    PROVE  CallCourse(w) /\ UNCHANGED <<issues, landed>>
<1>1. call[w].pc = "recover" /\ UNCHANGED <<issues, landed>> /\ call[w] \in Call
  BY DEF RecoverIssue, Request, ReadPage, Inv, CallsOK
<1>2. CASE Return(w, "reused") \/ Return(w, "error")
  BY <1>1, <1>2, ReturnCourse
<1>3. CASE call' = [call EXCEPT ![w].page = @ + 1]
  <2>1. call'[w] = [call[w] EXCEPT !.page = @ + 1]
    BY <1>3 DEF Inv, CallsOK
  <2>2. call'[w].pc = "recover" /\ call'[w].f = call[w].f
    BY <1>1, <2>1 DEF Call
  <2> QED
    BY <1>1, <2>2 DEF CallCourse
<1> QED
  BY <1>2, <1>3 DEF RecoverIssue, ReadPage

LEMMA PostCourse ==
    ASSUME Inv, NEW w \in Workers,
           PostIssue(w) \/ IssueUnreadable(w) \/ DraftRefused(w) \/ PostIssueFails(w)
    PROVE  CallCourse(w) /\ IssueCourse
<1>1. call[w].pc = "post_issue" /\ UNCHANGED landed /\ call[w] \in Call
  BY DEF PostIssue, IssueUnreadable, DraftRefused, PostIssueFails, Request, repository, Inv, CallsOK
<1>2. issues' = Append(issues, call[w].f) \/ UNCHANGED issues
  BY DEF PostIssue, IssueUnreadable, DraftRefused, PostIssueFails, OpenIssue, repository
<1>3. /\ CallCourse(w) /\ call'[w].pc \in {"returned", "recover"}
      /\ call'[w].f = call[w].f
  <2>1. CASE PostIssue(w) \/ IssueUnreadable(w) \/ DraftRefused(w)
    BY <1>1, <2>1, ReturnCourse DEF PostIssue, IssueUnreadable, DraftRefused
  <2>2. CASE PostIssueFails(w)
    <3>1. call' = [call EXCEPT ![w] = [[call[w] EXCEPT !.pc = "recover"] EXCEPT !.page = 1]]
      BY <2>2 DEF PostIssueFails, Recover
    <3>2. call'[w] = [[call[w] EXCEPT !.pc = "recover"] EXCEPT !.page = 1]
      BY <3>1 DEF Inv, CallsOK
    <3>3. call'[w].pc = "recover" /\ call'[w].f = call[w].f
      BY <1>1, <3>2 DEF Call
    <3> QED
      BY <1>1, <3>3 DEF CallCourse
  <2> QED
    BY <2>1, <2>2
<1>4. \A v \in Workers \ {w} : call'[v] = call[v]
  <2>1. OwnCall(w)
    BY OwnIssue DEF PublishIssueStep
  <2> QED
    BY <2>1, OthersRest
<1> QED
  BY <1>1, <1>2, <1>3, <1>4 DEF IssueCourse

LEMMA ProcessCourse ==
    ASSUME Inv, NEW w \in Workers, Step(w) \/ Crash(w) \/ \E f \in Feedback : CallPublisher(w, f)
    PROVE  CallCourse(w) /\ IssueCourse
<1>1. CASE GetToken(w) \/ PublishStep(w) \/ LookUpIssue(w) \/ RecoverIssue(w)
  BY <1>1, GetTokenCourse, PullCourse, LookUpCourse, RecoverCourse DEF IssueCourse
<1>2. CASE PostIssue(w) \/ IssueUnreadable(w) \/ DraftRefused(w) \/ PostIssueFails(w)
  BY <1>2, PostCourse
<1>3. CASE RequestFails(w)
  <2>1. call[w].pc # "idle" /\ UNCHANGED <<issues, landed>>
    BY <1>3 DEF RequestFails, FailingSteps, ConflictingSteps, PullSteps, IssueSteps
  <2>2. CASE Return(w, "error")
    BY <2>1, <2>2, ReturnCourse DEF IssueCourse
  <2>3. CASE call' = [call EXCEPT ![w].pc = "returned", ![w].result = "conflict",
                                  ![w].refused = TRUE]
    <3>1. call' = [call EXCEPT ![w] =
             [[[call[w] EXCEPT !.pc = "returned"] EXCEPT !.result = "conflict"]
                                                  EXCEPT !.refused = TRUE]]
      BY <2>3
    <3>2. call[w] \in Call /\ call \in [Workers -> Call]
      BY DEF Inv, CallsOK
    <3>3. call'[w] = [[[call[w] EXCEPT !.pc = "returned"] EXCEPT !.result = "conflict"]
                                                          EXCEPT !.refused = TRUE]
      BY <3>1, <3>2
    <3>4. call'[w].pc = "returned" /\ call'[w].f = call[w].f
      BY <3>2, <3>3 DEF Call
    <3> QED
      BY <2>1, <3>4 DEF CallCourse, IssueCourse
  <2> QED
    BY <1>3, <2>2, <2>3 DEF RequestFails
<1>4. CASE Finish(w) \/ Crash(w)
  <2>1. call' = [call EXCEPT ![w] = NoCall] /\ UNCHANGED <<issues, landed>>
    BY <1>4 DEF Finish, Crash, repository
  <2>2. call'[w].pc = "idle"
    BY <2>1 DEF Inv, CallsOK, NoCall
  <2> QED
    BY <2>1, <2>2 DEF CallCourse, IssueCourse
<1>5. ASSUME NEW f \in Feedback, CallPublisher(w, f)
      PROVE  CallCourse(w) /\ IssueCourse
  <2> DEFINE c == [NoCall EXCEPT !.pc = "token", !.f = f, !.page = 1,
                     !.patch = task[f].patch, !.cat = task[f].cat, !.base = task[f].base]
  <2>1. /\ call' = [call EXCEPT ![w] = c] /\ UNCHANGED <<issues, landed>>
        /\ f \in IssueFeedback => w \in IssueWorkers
    BY <1>5 DEF CallPublisher, repository
  <2>2. c.pc = "token" /\ c.page = 1 /\ c.f = f
    BY DEF NoCall
  <2> HIDE DEF c
  <2>3. call'[w] = c
    BY <2>1 DEF Inv, CallsOK
  <2> QED
    BY <2>1, <2>2, <2>3 DEF CallCourse, IssueCourse
<1> QED
  BY <1>1, <1>2, <1>3, <1>4, <1>5 DEF Step, PublishIssueStep

LEMMA StepCourse ==
    ASSUME Inv, [Next]_vars
    PROVE  IssueCourse /\ \A w \in Workers : CallCourse(w)
<1>1. ASSUME UNCHANGED call PROVE \A w \in Workers : CallCourse(w)
  BY <1>1 DEF CallCourse
<1>2. CASE \/ UNCHANGED vars
           \/ \E f \in Feedback : RunValidates(f) \/ RetryPublication(f)
           \/ \E w \in Workers : TokenAges(w)
  <2>1. UNCHANGED call /\ UNCHANGED <<issues, landed>>
    BY <1>2 DEF vars, repository, RunValidates, RetryPublication, TokenAges
  <2> QED
    BY <1>1, <2>1 DEF IssueCourse
<1>3. CASE RepositoryNext /\ UNCHANGED call
  <2>1. CASE MainMoves \/ SomeoneOpensIssue
    BY <1>1, <1>3, <2>1 DEF MainMoves, SomeoneOpensIssue, OpenIssue, IssueCourse
  <2>2. CASE DelayedCreationLands
    <3>1. late \subseteq Creation
      BY DEF Inv, CountsOK
    <3>2. PICK c \in late :
            \/ c.kind = "ref" /\ UNCHANGED <<issues, landed>>
            \/ /\ c.kind = "pull" /\ UNCHANGED issues
               /\ landed' = [landed EXCEPT ![c.key] = @ + 1] \/ UNCHANGED landed
            \/ /\ c.kind = "issue" /\ OpenIssue(c.key)
               /\ landed' = [landed EXCEPT ![c.key] = @ + 1]
      BY <2>2 DEF DelayedCreationLands
    <3>3. /\ c.kind = "pull" => c.key \in Branches
          /\ c.kind = "issue" => c.key \in IssueFeedback
      BY <3>1, <3>2 DEF Creation
    <3>4. IssueCourse
      BY <1>3, <3>2, <3>3 DEF IssueCourse, OpenIssue
    <3> QED
      BY <1>1, <1>3, <3>4
  <2> QED
    BY <1>3, <2>1, <2>2 DEF RepositoryNext
<1>4. ASSUME NEW w \in Workers, Step(w) \/ Crash(w) \/ \E f \in Feedback : CallPublisher(w, f)
      PROVE  IssueCourse /\ \A v \in Workers : CallCourse(v)
  <2>1. OwnCall(w)
    BY <1>4, OwnStep, OwnCallPublisher
  <2>2. \A v \in Workers \ {w} : CallCourse(v)
    BY <2>1, OthersRest DEF CallCourse
  <2> QED
    BY <1>4, <2>2, ProcessCourse
<1> QED
  BY <1>2, <1>3, <1>4 DEF Next

-----------------------------------------------------------------------------
(* One issue more for each late creation *)

LEMMA FewerStay ==
    ASSUME NEW S, NEW n \in Nat, AtMost(S, n), NEW T, T \subseteq S
    PROVE  AtMost(T, n)
<1>1. IsFiniteSet(T) /\ Cardinality(T) <= Cardinality(S)
  BY FS_Subset DEF AtMost
<1>2. Cardinality(T) \in Nat /\ Cardinality(S) \in Nat
  BY <1>1, FS_CardinalityType DEF AtMost
<1> QED
  BY <1>1, <1>2 DEF AtMost

LEMMA OneMore ==
    ASSUME NEW S, NEW n \in Nat, AtMost(S, n), NEW x, NEW T, T \subseteq S \cup {x}
    PROVE  AtMost(T, n + 1)
<1>1. /\ IsFiniteSet(S \cup {x}) /\ Cardinality(S) \in Nat
      /\ Cardinality(S \cup {x}) = IF x \in S THEN Cardinality(S) ELSE Cardinality(S) + 1
  BY FS_AddElement, FS_CardinalityType DEF AtMost
<1>2. Cardinality(S) <= n
  BY DEF AtMost
<1>3. Cardinality(S \cup {x}) <= n + 1
  BY <1>1, <1>2
<1>4. AtMost(S \cup {x}, n + 1)
  BY <1>1, <1>3 DEF AtMost
<1> QED
  BY <1>4, FewerStay

\* The issues of a feedback are left alone, or a late creation adds one.
GrowsAlone(f) ==
    \/ IssuesOf(f)' \subseteq IssuesOf(f) /\ landed'[f] >= landed[f]
    \/ /\ IssuesOf(f)' \subseteq IssuesOf(f) \cup {Len(issues) + 1}
       /\ landed'[f] = landed[f] + 1

\* The process that has looked them all up adds one.
Posts(f, w) ==
    /\ call[w].pc = "post_issue" /\ call[w].f = f /\ UNCHANGED landed
    /\ IssuesOf(f)' \subseteq IssuesOf(f) \cup {Len(issues) + 1}
    /\ call'[w].pc \in {"returned", "recover"}

LEMMA LandedTyped ==
    ASSUME Inv, NEW f \in IssueFeedback
    PROVE  landed[f] \in Nat
BY DEF Inv, CountsOK

LEMMA IssueAppended ==
    ASSUME Inv, NEW x, issues' = Append(issues, x), NEW f
    PROVE  /\ Len(issues') = Len(issues) + 1
           /\ IssuesOf(f)' = IF x = f THEN IssuesOf(f) \cup {Len(issues) + 1} ELSE IssuesOf(f)
<1>1. issues \in Seq(IssueFeedback \cup {Foreign}) /\ Len(issues) \in Nat
      /\ DOMAIN issues = 1..Len(issues)
  BY DEF Inv, ShapeOK
<1>2. /\ Len(issues') = Len(issues) + 1
      /\ DOMAIN issues' = DOMAIN issues \cup {Len(issues) + 1}
      /\ issues'[Len(issues) + 1] = x
      /\ \A i \in DOMAIN issues : issues'[i] = issues[i]
  BY <1>1
<1>3. IssuesOf(f)' = {i \in DOMAIN issues' : issues'[i] = f}
  BY DEF IssuesOf
<1> QED
  BY <1>2, <1>3 DEF IssuesOf

LEMMA IssueGrowth ==
    ASSUME Inv, IssueCourse, NEW f \in IssueFeedback
    PROVE  /\ GrowsAlone(f) \/ \E w \in Workers : Posts(f, w)
           /\ Len(issues') >= Len(issues)
<1>1. landed \in [Branches \cup IssueFeedback -> 0..MaxFaults] /\ landed[f] \in Nat
      /\ Len(issues) \in Nat /\ f # Foreign
  BY DEF Inv, CountsOK, ShapeOK, Foreign
<1>2. CASE UNCHANGED <<issues, landed>>
  BY <1>1, <1>2 DEF GrowsAlone, IssuesOf
<1>3. CASE UNCHANGED landed /\ issues' = Append(issues, Foreign)
  <2>1. IssuesOf(f)' = IssuesOf(f) /\ Len(issues') = Len(issues) + 1
    BY <1>1, <1>3, IssueAppended
  <2> QED
    BY <1>1, <1>3, <2>1 DEF GrowsAlone
<1>4. ASSUME NEW k \in Branches \cup IssueFeedback, landed' = [landed EXCEPT ![k] = @ + 1],
             UNCHANGED issues \/ (k \in IssueFeedback /\ issues' = Append(issues, k))
      PROVE  GrowsAlone(f) /\ Len(issues') >= Len(issues)
  <2>1. landed'[f] = IF k = f THEN landed[f] + 1 ELSE landed[f]
    BY <1>1, <1>4
  <2>2. CASE UNCHANGED issues
    BY <1>1, <2>1, <2>2 DEF GrowsAlone, IssuesOf
  <2>3. CASE issues' = Append(issues, k)
    <3>1. /\ Len(issues') = Len(issues) + 1
          /\ IssuesOf(f)' = IF k = f THEN IssuesOf(f) \cup {Len(issues) + 1} ELSE IssuesOf(f)
      BY <2>3, IssueAppended
    <3> QED
      BY <1>1, <2>1, <3>1 DEF GrowsAlone
  <2> QED
    BY <1>4, <2>2, <2>3
<1>5. ASSUME NEW w \in Workers, call[w].pc = "post_issue", UNCHANGED landed,
             issues' = Append(issues, call[w].f), call'[w].pc \in {"returned", "recover"}
      PROVE  (GrowsAlone(f) \/ Posts(f, w)) /\ Len(issues') >= Len(issues)
  <2>1. /\ Len(issues') = Len(issues) + 1
        /\ IssuesOf(f)' = IF call[w].f = f THEN IssuesOf(f) \cup {Len(issues) + 1}
                                           ELSE IssuesOf(f)
    BY <1>5, IssueAppended
  <2> QED
    BY <1>1, <1>5, <2>1 DEF GrowsAlone, Posts
<1> QED
  BY <1>2, <1>3, <1>4, <1>5 DEF IssueCourse

\* A bound by what has landed keeps up with what lands.
LEMMA BoundGrows ==
    ASSUME Inv, Inv', NEW f \in IssueFeedback, GrowsAlone(f), NEW k \in {0, 1},
           NEW S, AtMost(S, k + landed[f]),
           NEW T, T \subseteq S \cup (IssuesOf(f)' \ IssuesOf(f))
    PROVE  AtMost(T, k + landed'[f])
<1>1. landed[f] \in Nat /\ landed'[f] \in Nat
  BY DEF Inv, CountsOK
<1>2. CASE IssuesOf(f)' \subseteq IssuesOf(f) /\ landed'[f] >= landed[f]
  <2>1. T \subseteq S
    BY <1>2
  <2>2. AtMost(T, k + landed[f])
    BY <1>1, <2>1, FewerStay
  <2>3. IsFiniteSet(T) /\ Cardinality(T) \in Nat
    BY <2>2, FS_CardinalityType DEF AtMost
  <2> QED
    BY <1>1, <1>2, <2>2, <2>3 DEF AtMost
<1>3. CASE /\ IssuesOf(f)' \subseteq IssuesOf(f) \cup {Len(issues) + 1}
           /\ landed'[f] = landed[f] + 1
  <2>1. T \subseteq S \cup {Len(issues) + 1}
    BY <1>3
  <2>2. k + landed[f] \in Nat
    BY <1>1
  <2>3. AtMost(T, k + landed[f] + 1)
    BY <2>1, <2>2, OneMore
  <2>4. k + landed'[f] = k + landed[f] + 1
    BY <1>1, <1>3
  <2> QED
    BY <2>3, <2>4
<1> QED
  BY <1>2, <1>3 DEF GrowsAlone

\* The issues of a feedback, of a call whose page does not change.
LEMMA SeenStays ==
    ASSUME Inv, Inv', Len(issues') >= Len(issues), NEW f,
           NEW c \in Call, c.f = f, NEW d \in Call, d.f = f, d.page = c.page
    PROVE  Seen(d, issues') \subseteq Seen(c, issues) \cup (IssuesOf(f)' \ IssuesOf(f))
<1> DEFINE gone == (c.page - 1) * PageSize
<1>1. c.page \in Nat /\ gone \in Int
  BY DEF Call
<1>2. /\ DOMAIN issues = 1..Len(issues) /\ Len(issues) \in Nat
      /\ DOMAIN issues' = 1..Len(issues') /\ Len(issues') \in Nat
  BY DEF Inv, ShapeOK
<1>3. Seen(c, issues) = {i \in DOMAIN issues : issues[i] = f /\ i + gone > Len(issues)}
      /\ Seen(d, issues') = {i \in DOMAIN issues' : issues'[i] = f /\ i + gone > Len(issues')}
  BY DEF Seen
<1> HIDE DEF gone
<1>4. IssuesOf(f)' = {i \in DOMAIN issues' : issues'[i] = f}
  BY DEF IssuesOf
<1> QED
  BY <1>1, <1>2, <1>3, <1>4 DEF IssuesOf

\* A page without the feedback's issue adds nothing to what has been seen.
LEMMA SeenNext ==
    ASSUME Inv, NEW c \in Call, NEW d \in Call, d.f = c.f, d.page = c.page + 1,
           c.f \notin Page(c.page, PageSize)
    PROVE  Seen(d, issues) \subseteq Seen(c, issues)
<1> DEFINE gone == (c.page - 1) * PageSize
           last == Len(issues) - gone
<1>1. c.page \in Nat /\ gone \in Int /\ (c.page + 1 - 1) * PageSize = gone + PageSize
  BY DEF Call
<1>2. DOMAIN issues = 1..Len(issues) /\ Len(issues) \in Nat
  BY DEF Inv, ShapeOK
<1>3. \A i \in DOMAIN issues : issues[i] = c.f => ~(i <= last /\ i > last - PageSize)
  BY DEF Page
<1>4. /\ Seen(c, issues) = {i \in DOMAIN issues : issues[i] = c.f /\ i + gone > Len(issues)}
      /\ Seen(d, issues) = {i \in DOMAIN issues : issues[i] = c.f
                                                  /\ i + (gone + PageSize) > Len(issues)}
  BY <1>1 DEF Seen
<1>5. PageSize \in Nat /\ \A i \in DOMAIN issues : i + gone <= Len(issues) <=> i <= last
  BY <1>1, <1>2
<1> HIDE DEF gone
<1> QED
  BY <1>1, <1>2, <1>3, <1>4, <1>5

\* On the last page everything has been seen.
LEMMA SeenAll ==
    ASSUME Inv, NEW c \in Call, PageIsShort(c.page, PageSize),
           c.f \notin Page(c.page, PageSize)
    PROVE  IssuesOf(c.f) \subseteq Seen(c, issues)
<1> DEFINE gone == (c.page - 1) * PageSize
           last == Len(issues) - gone
<1>1. c.page \in Nat /\ gone \in Int /\ c.page * PageSize = gone + PageSize
  BY DEF Call
<1>2. DOMAIN issues = 1..Len(issues) /\ Len(issues) \in Nat
  BY DEF Inv, ShapeOK
<1>3. \A i \in DOMAIN issues : issues[i] = c.f => ~(i <= last /\ i > last - PageSize)
  BY DEF Page
<1>4. Seen(c, issues) = {i \in DOMAIN issues : issues[i] = c.f /\ i + gone > Len(issues)}
  BY DEF Seen
<1>5. Len(issues) < gone + PageSize
  BY <1>1 DEF PageIsShort
<1> HIDE DEF gone
<1> QED
  BY <1>1, <1>2, <1>3, <1>4, <1>5 DEF IssuesOf

\* No other process touches the issues of a feedback that is looked up or waits to be.
LEMMA OthersKeepOut ==
    ASSUME Inv, OneIssueWorker, IssueInv, NEW w \in Workers, NEW v \in Workers,
           call[w].pc \in IssueSteps, call[v].pc = "post_issue", call[v].f = call[w].f
    PROVE  v = w
<1>1. Named(call[w])
  BY DEF Inv, CallsOK, CallSound
<1>2. call[w].f \in IssueFeedback /\ call[w].pc # "idle" /\ call[v].pc # "idle"
  BY <1>1 DEF Named, IssueSteps
<1> QED
  BY <1>2 DEF IssueInv, OneIssueWorker

LEMMA LookedStays ==
    ASSUME Inv, Inv', OneIssueWorker, IssueInv, IssueCourse,
           NEW w \in Workers, CallCourse(w)
    PROVE  Looked(call'[w], issues', landed')
<1>7. PICK c : c = call[w]
  OBVIOUS
<1>8. PICK d : d = call'[w]
  OBVIOUS
<1>9. PICK f : f = c.f
  OBVIOUS
<1>1. c \in Call /\ d \in Call /\ Named(c) /\ Named(d) /\ Looked(c, issues, landed)
  BY <1>7, <1>8 DEF Inv, CallsOK, CallSound, IssueInv
<1>10. CallCourse(w) /\ c = call[w] /\ d = call'[w] /\ f = c.f
  BY <1>7, <1>8, <1>9
<1>2. CASE d.pc \notin {"token", "lookup", "post_issue"}
  BY <1>10, <1>2 DEF Looked
<1>3. CASE d.pc = "token"
  <2>1. d = c \/ d.page = 1
    BY <1>1, <1>10, <1>3 DEF CallCourse, Call
  <2> QED
    BY <1>1, <1>10, <1>3, <2>1 DEF Looked
<1>4. CASE d.pc = "lookup" /\ c.pc = "token"
  <2>1. d.f = f /\ d.page = 1
    BY <1>1, <1>10, <1>4 DEF CallCourse, Call, Looked
  <2>2. f \in IssueFeedback
    BY <1>1, <1>4, <2>1 DEF Named, IssueSteps
  <2>3. landed'[f] \in Nat /\ Seen(d, issues') = {}
    <3>1. DOMAIN issues' = 1..Len(issues') /\ Len(issues') \in Nat
      BY DEF Inv, ShapeOK
    <3>2. (1 - 1) * PageSize = 0
      OBVIOUS
    <3>3. \A i \in DOMAIN issues' : ~(i + (1 - 1) * PageSize > Len(issues'))
      BY <3>1, <3>2
    <3>4. landed'[f] \in Nat
      BY <2>2 DEF Inv, CountsOK
    <3> QED
      BY <2>1, <3>3, <3>4 DEF Seen
  <2>4. AtMost(Seen(d, issues'), landed'[f])
    BY <2>3, FS_EmptySet DEF AtMost
  <2> QED
    BY <1>10, <1>4, <2>1, <2>4 DEF Looked
<1>5. CASE d.pc \in {"lookup", "post_issue"} /\ c.pc # "token"
  <2>1. c.pc \in {"lookup", "post_issue"} /\ d.f = f
    BY <1>1, <1>10, <1>5 DEF CallCourse, Call
  <2>2. f \in IssueFeedback /\ landed[f] \in Nat /\ landed'[f] \in Nat
        /\ f = c.f /\ 0 + landed[f] = landed[f] /\ 0 + landed'[f] = landed'[f]
    BY <1>1, <1>10, <2>1 DEF Named, IssueSteps, Inv, CountsOK
  <2>3. GrowsAlone(f) /\ Len(issues') >= Len(issues)
    <3>1. ASSUME NEW v \in Workers, Posts(f, v) PROVE FALSE
      <4>1. v = w
        BY <1>10, <2>1, <3>1, OthersKeepOut DEF Posts, IssueSteps
      <4> QED
        BY <1>10, <1>5, <3>1, <4>1 DEF Posts
    <3> QED
      BY <2>2, <3>1, IssueGrowth
  <2>4. ASSUME NEW S, AtMost(S, landed[f]), NEW T,
               T \subseteq S \cup (IssuesOf(f)' \ IssuesOf(f))
        PROVE  AtMost(T, landed'[f])
    <3>1. AtMost(S, 0 + landed[f])
      BY <2>2, <2>4
    <3>2. AtMost(T, 0 + landed'[f])
      BY <2>2, <2>3, <2>4, <3>1, BoundGrows
    <3> QED
      BY <2>2, <3>2
  <2>5. IssuesOf(f)' = {i \in DOMAIN issues' : issues'[i] = f}
        /\ IssuesOf(f) = {i \in DOMAIN issues : issues[i] = f}
    BY DEF IssuesOf
  <2>6. CASE d.pc = "post_issue" /\ c.pc = "post_issue"
    <3>1. AtMost(IssuesOf(f), landed[f])
      BY <1>1, <1>10, <2>5, <2>6 DEF Looked
    <3>2. AtMost(IssuesOf(f)', landed'[f])
      BY <2>4, <3>1
    <3> QED
      BY <1>10, <2>1, <2>5, <2>6, <3>2 DEF Looked
  <2>7. CASE d.pc = "lookup" /\ c.pc = "lookup" /\ d = c
    <3>1. Seen(d, issues') \subseteq Seen(c, issues) \cup (IssuesOf(f)' \ IssuesOf(f))
      BY <1>1, <1>10, <2>1, <2>3, <2>7, SeenStays
    <3>2. AtMost(Seen(c, issues), landed[f])
      BY <1>1, <1>10, <2>7 DEF Looked
    <3> QED
      BY <1>10, <2>1, <2>4, <2>7, <3>1, <3>2 DEF Looked
  <2>8. CASE c.pc = "lookup" /\ d # c
    <3>1. /\ f \notin Page(c.page, PageSize)
          /\ \/ LastPage(w) /\ d = [c EXCEPT !.pc = "post_issue"]
             \/ d = [c EXCEPT !.page = @ + 1]
      BY <1>1, <1>10, <1>5, <2>8 DEF CallCourse, Call
    <3>2. AtMost(Seen(c, issues), landed[f])
      BY <1>1, <1>10, <2>8 DEF Looked
    <3>3. CASE LastPage(w) /\ d = [c EXCEPT !.pc = "post_issue"]
      <4>1. IssuesOf(f) \subseteq Seen(c, issues)
        BY <1>1, <1>10, <3>1, <3>3, SeenAll DEF LastPage
      <4>2. AtMost(IssuesOf(f)', landed'[f])
        BY <2>4, <3>2, <4>1
      <4>3. d.pc = "post_issue"
        BY <1>1, <3>3 DEF Call
      <4> QED
        BY <1>10, <2>1, <2>5, <4>2, <4>3 DEF Looked
    <3>4. CASE d = [c EXCEPT !.page = @ + 1]
      <4>1. d.pc = "lookup" /\ d.page = c.page + 1
        BY <1>1, <2>8, <3>4 DEF Call
      <4>2. Seen(d, issues) \subseteq Seen(c, issues)
        BY <1>1, <1>10, <2>1, <3>1, <4>1, SeenNext
      <4>3. Seen(d, issues') \subseteq Seen(d, issues) \cup (IssuesOf(f)' \ IssuesOf(f))
        BY <1>1, <1>10, <2>1, <2>3, SeenStays
      <4>4. Seen(d, issues') \subseteq Seen(c, issues) \cup (IssuesOf(f)' \ IssuesOf(f))
        BY <4>2, <4>3
      <4> QED
        BY <1>10, <2>1, <2>4, <3>2, <4>1, <4>4 DEF Looked
    <3> QED
      BY <3>1, <3>3, <3>4
  <2>9. d.pc = "post_issue" => c.pc = "post_issue" \/ d # c
    BY <2>1
  <2>10. c.pc = "post_issue" => d = c
    BY <1>1, <1>10, <1>5 DEF CallCourse, Call
  <2> QED
    BY <1>5, <2>1, <2>6, <2>7, <2>8, <2>10
<1>6. d.pc = "post_issue" => c.pc # "token"
  BY <1>1, <1>10 DEF CallCourse, Call
<1> QED
  BY <1>2, <1>3, <1>4, <1>5, <1>6

LEMMA IssueStep ==
    ASSUME Inv, Inv', OneIssueWorker, IssueInv, [Next]_vars
    PROVE  IssueInv'
<1>1. IssueCourse /\ \A w \in Workers : CallCourse(w)
  BY StepCourse
<1>2. ASSUME NEW w \in Workers
      PROVE  call'[w].pc # "idle" /\ call'[w].f \in IssueFeedback => w \in IssueWorkers
  <2>1. call[w] \in Call
    BY DEF Inv, CallsOK
  <2>2. call'[w] = [call[w] EXCEPT !.pc = "lookup"] \/ call'[w] = [call[w] EXCEPT !.pc = "post_issue"]
        \/ call'[w] = [call[w] EXCEPT !.page = @ + 1]
        => call'[w].f = call[w].f
    BY <2>1 DEF Call
  <2>3. call[w].pc # "idle" /\ call[w].f \in IssueFeedback => w \in IssueWorkers
    BY DEF IssueInv
  <2> QED
    BY <1>1, <2>2, <2>3 DEF CallCourse
<1>3. \A w \in Workers : Looked(call'[w], issues', landed')
  BY <1>1, LookedStays
<1>4. ASSUME NEW f \in IssueFeedback
      PROVE  AtMost(IssuesOf(f)', 1 + landed'[f])
  <2>1. AtMost(IssuesOf(f), 1 + landed[f])
    BY DEF IssueInv
  <2>2. CASE GrowsAlone(f)
    <3>1. IssuesOf(f)' \subseteq IssuesOf(f) \cup (IssuesOf(f)' \ IssuesOf(f))
      OBVIOUS
    <3> QED
      BY <2>1, <2>2, <3>1, BoundGrows
  <2>3. ASSUME NEW w \in Workers, Posts(f, w)
        PROVE  AtMost(IssuesOf(f)', 1 + landed'[f])
    <3>1. AtMost(IssuesOf(f), landed[f])
      BY <2>3 DEF IssueInv, Looked, Posts, IssuesOf
    <3>2. landed[f] \in Nat
      BY LandedTyped
    <3>5. IssuesOf(f)' \subseteq IssuesOf(f) \cup {Len(issues) + 1}
      BY <2>3 DEF Posts
    <3>3. AtMost(IssuesOf(f)', landed[f] + 1)
      BY <3>5, <3>1, <3>2, OneMore
    <3>4. landed'[f] = landed[f] /\ landed[f] + 1 = 1 + landed[f]
      BY <2>3, <3>2 DEF Posts
    <3> QED
      BY <3>3, <3>4
  <2> QED
    BY <1>1, <2>2, <2>3, IssueGrowth
<1>5. \A f \in IssueFeedback : IssuesOf(f)' = {i \in DOMAIN issues' : issues'[i] = f}
  BY DEF IssuesOf
<1> QED
  BY <1>2, <1>3, <1>4, <1>5 DEF IssueInv, IssuesOf

\* Where one process publishes issues, a feedback gets one issue through any number of lost
\* replies, crashes and retries, however many issues others open meanwhile, and one more at
\* most for each creation that arrives after the lookup that was to recover it (publish_issue).
THEOREM OneIssue == ASSUME OneIssueWorker PROVE Spec => []OneIssuePerFeedback
<1>1. Init => IssueInv
  <2> SUFFICES ASSUME Init PROVE IssueInv
    OBVIOUS
  <2>1. /\ \A w \in Workers : call[w] = NoCall
        /\ \A f \in IssueFeedback : landed[f] = 0 /\ IssuesOf(f) = {}
    BY DEF Init, RepositoryInit, CallsInit, IssuesOf
  <2>2. ASSUME NEW f \in IssueFeedback
        PROVE  AtMost(IssuesOf(f), 1 + landed[f])
    <3>1. IsFiniteSet({}) /\ Cardinality({}) = 0
      BY FS_EmptySet
    <3>2. IssuesOf(f) = {} /\ landed[f] = 0
      BY <2>1
    <3>3. IsFiniteSet(IssuesOf(f)) /\ Cardinality(IssuesOf(f)) = 0
      BY <3>1, <3>2
    <3> QED
      BY <3>2, <3>3 DEF AtMost
  <2>3. \A w \in Workers : call[w].pc = "idle"
    BY <2>1 DEF NoCall
  <2> QED
    BY <2>2, <2>3 DEF IssueInv, Looked
<1>2. Inv /\ IssueInv /\ [Next]_vars => IssueInv'
  BY NextInv, IssueStep
<1>3. IssueInv => OneIssuePerFeedback
  BY DEF IssueInv, AtMost, OneIssuePerFeedback
<1> QED
  BY <1>1, <1>2, <1>3, InvHolds, PTL DEF Spec
=============================================================================
