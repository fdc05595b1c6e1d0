-------------------------- MODULE GitHubRepository --------------------------
(***************************************************************************)
(* The published side of the repository on GitHub, as far as the agent's   *)
(* publishers can see and change it (external: modelled from the requests  *)
(* of agent/publishing/github.py and the answers it handles): main, the    *)
(* agent's branches, pull requests, issues, and the creations that were    *)
(* sent, given up by their client and have not arrived yet.                *)
(***************************************************************************)
EXTENDS Naturals, Sequences, FiniteSets

CONSTANTS PullFeedback,  \* feedback published as a pull request
          IssueFeedback, \* feedback published as an issue
          Patches,       \* hashes of validated patches
          Categories,    \* categories the gate gives to reported defects
          Prefix,        \* the first eight digits of each feedback id
          MaxMoves,      \* bound: how often main moves
          MaxForeign,    \* bound: issues other people open
          FaultKinds,    \* kinds of faults that may happen
          MaxFaults      \* bound: how many faults happen

AllFaults == {"refused", "lost", "late", "crash", "expire"}

ASSUME RepositoryAssumption ==
    /\ PullFeedback \cap IssueFeedback = {}
    /\ "none" \notin PullFeedback
    /\ "foreign" \notin IssueFeedback
    /\ MaxMoves \in Nat /\ MaxForeign \in Nat /\ MaxFaults \in Nat
    /\ FaultKinds \subseteq AllFaults

VARIABLES main,    \* how often main has moved
          branch,  \* the commit each agent branch points to
          pulls,   \* pull requests, in the order they were opened
          issues,  \* issues, in the order they were opened
          late,    \* creations under way without a client
          landed,  \* branches and feedback whose pull or issue came from one
          faults   \* faults so far

repository == <<main, branch, pulls, issues, late, landed, faults>>

\* _branch_name: the id's prefix and the category, not the patch.
Branch(f, cat) == <<Prefix[f], cat>>
Branches == {Branch(f, cat) : f \in PullFeedback, cat \in Categories}

\* What the marker in a commit message and in a pull request's body says.
Marker   == [f : PullFeedback, patch : Patches]
NoCommit == [f |-> "none", patch |-> "none"]
Foreign  == "foreign"

Pull == [head : Branches, marker : Marker]
Creation == [kind : {"ref", "pull"}, key : Branches, marker : Marker, id : Nat]
            \cup [kind : {"issue"}, key : IssueFeedback, marker : {NoCommit}, id : Nat]

RepositoryTypeOK ==
    /\ main \in 0..MaxMoves
    /\ branch \in [Branches -> Marker \cup {NoCommit}]
    /\ pulls \in Seq(Pull)
    /\ issues \in Seq(IssueFeedback \cup {Foreign})
    /\ late \subseteq Creation
    /\ landed \in [Branches \cup IssueFeedback -> 0..MaxFaults]
    /\ faults \in 0..MaxFaults

RepositoryInit ==
    /\ main = 0
    /\ branch = [b \in Branches |-> NoCommit]
    /\ pulls = <<>>
    /\ issues = <<>>
    /\ late = {}
    /\ landed = [k \in Branches \cup IssueFeedback |-> 0]
    /\ faults = 0

Fault(kind) == /\ kind \in FaultKinds
               /\ faults < MaxFaults
               /\ faults' = faults + 1

PullsOf(b)  == {i \in DOMAIN pulls : pulls[i].head = b}
IssuesOf(f) == {i \in DOMAIN issues : issues[i] = f}

\* GitHub refuses a second open pull request for a head, and one without a
\* branch; nobody closes a pull request here.
CanOpen(b) == branch[b] # NoCommit /\ PullsOf(b) = {}

OpenPull(b, m) == pulls' = Append(pulls, [head |-> b, marker |-> m])
CreateRef(b, m) == branch' = [branch EXCEPT ![b] = m]
OpenIssue(f) == issues' = Append(issues, f)

\* A creation whose client has given up, to arrive later or never.
Delay(kind, key, m) ==
    /\ Fault("late")
    /\ late' = late \cup {[kind |-> kind, key |-> key, marker |-> m, id |-> faults]}

\* Issues are listed newest first, a page at a time.
Page(n, size) ==
    LET last == Len(issues) - (n - 1) * size
    IN  {issues[i] : i \in {j \in DOMAIN issues : j <= last /\ j > last - size}}
PageIsShort(n, size) == Len(issues) < n * size

-----------------------------------------------------------------------------
(* What the repository does without the agent *)

MainMoves == /\ main < MaxMoves
             /\ main' = main + 1
             /\ UNCHANGED <<branch, pulls, issues, late, landed, faults>>

SomeoneOpensIssue ==
    /\ Len(SelectSeq(issues, LAMBDA i : i = Foreign)) < MaxForeign
    /\ OpenIssue(Foreign)
    /\ UNCHANGED <<main, branch, pulls, late, landed, faults>>

\* A delayed creation arrives; GitHub refuses it if it no longer can be done.
DelayedCreationLands ==
    \E c \in late :
        /\ late' = late \ {c}
        /\ \/ /\ c.kind = "ref"
              /\ IF branch[c.key] = NoCommit THEN CreateRef(c.key, c.marker) ELSE UNCHANGED branch
              /\ UNCHANGED <<pulls, issues, landed>>
           \/ /\ c.kind = "pull"
              /\ IF CanOpen(c.key) THEN /\ OpenPull(c.key, c.marker)
                                        /\ landed' = [landed EXCEPT ![c.key] = @ + 1]
                                   ELSE UNCHANGED <<pulls, landed>>
              /\ UNCHANGED <<branch, issues>>
           \/ /\ c.kind = "issue"
              /\ OpenIssue(c.key)
              /\ landed' = [landed EXCEPT ![c.key] = @ + 1]
              /\ UNCHANGED <<branch, pulls>>
        /\ UNCHANGED <<main, faults>>

RepositoryNext == \/ MainMoves
                  \/ SomeoneOpensIssue
                  \/ DelayedCreationLands
=============================================================================
