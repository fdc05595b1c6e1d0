-------------------------- MODULE PublicationCalls --------------------------
(***************************************************************************)
(* What a publication call is made of: the process that makes it, where it *)
(* is, the installation token its provider holds (GitHubAppTokenProvider)  *)
(* and the ways one request can fail.  Each process has one provider for   *)
(* pull requests and one for issues.                                       *)
(***************************************************************************)
EXTENDS GitHubRepository

CONSTANTS Workers,       \* processes that publish
          MaxPages,      \* pages an issue lookup reads
          Unpublishable  \* patches and issue drafts with a sensitive pattern in them

VARIABLES call,          \* call[w]: the publication w is executing
          token          \* token[w][kind]: the cached installation token

Kinds   == {"pull", "issue"}
Results == {"none", "opened", "reused", "stale", "conflict", "error"}

PullSteps  == {"find", "main", "branch", "verify", "commit", "ref", "reref",
               "reverify", "post", "refind"}
IssueSteps == {"lookup", "post_issue", "recover"}

Call == [pc : {"idle", "token", "returned"} \cup PullSteps \cup IssueSteps,
         f : PullFeedback \cup IssueFeedback \cup {"none"},
         patch : Patches \cup {"none"}, cat : Categories \cup {"none"},
         base : 0..MaxMoves, page : 0..MaxPages, result : Results, refused : BOOLEAN]

Token == [life : {"none", "valid", "expiring", "expired"}, wide : BOOLEAN]

NoCall  == [pc |-> "idle", f |-> "none", patch |-> "none", cat |-> "none",
            base |-> 0, page |-> 0, result |-> "none", refused |-> FALSE]
NoToken == [life |-> "none", wide |-> FALSE]

CallsTypeOK == /\ call \in [Workers -> Call]
               /\ token \in [Workers -> [Kinds -> Token]]

CallsInit == /\ call = [w \in Workers |-> NoCall]
             /\ token = [w \in Workers |-> [k \in Kinds |-> NoToken]]

KindOf(w) == IF call[w].f \in PullFeedback THEN "pull" ELSE "issue"
Goto(w, step) == call' = [call EXCEPT ![w].pc = step]
Return(w, result) == call' = [call EXCEPT ![w].pc = "returned", ![w].result = result]

\* GitHub answers a request with an expired token with 401.
Authorized(w) == token[w][KindOf(w)].life # "expired"

\* A request that gets through changes no fault count.
Request(w, step) == /\ call[w].pc = step
                    /\ Authorized(w)
                    /\ UNCHANGED <<token, faults>>

\* GitHub answers with 409 or 422 for reasons of its own; the call goes on at step.
Refused(w, step) == call' = [call EXCEPT ![w].pc = step, ![w].refused = TRUE]

\* Every step that fails for a failed request.
FailingSteps == (PullSteps \cup IssueSteps \cup {"token"}) \ {"post_issue"}

\* The steps whose 409 and 422 are a PublicationConflictError that nobody catches.
ConflictingSteps == PullSteps \ {"ref", "post"}

\* A request is refused, for the token or for GitHub's own reasons, or never
\* leaves: the call raises.
RequestFails(w) ==
    /\ \/ /\ call[w].pc \in FailingSteps
          /\ \/ call[w].pc # "token" /\ ~Authorized(w) /\ UNCHANGED faults
             \/ Fault("refused")
          /\ Return(w, "error")
       \/ /\ call[w].pc \in ConflictingSteps /\ Authorized(w) /\ Fault("refused")
          /\ call' = [call EXCEPT ![w].pc = "returned", ![w].result = "conflict",
                                  ![w].refused = TRUE]
    /\ UNCHANGED <<main, branch, pulls, issues, late, landed, token>>

-----------------------------------------------------------------------------
(* GitHubAppTokenProvider.get_token *)

\* The cached token is used until a minute before its expiry.
Usable(t) == t.life = "valid"

\* A fresh token is kept only if its permissions are the ones asked for.
Acceptable(t) == ~t.wide

GetToken(w) ==
    LET k     == KindOf(w)
        begin == IF k = "pull" THEN "find" ELSE "lookup"
    IN  /\ call[w].pc = "token"
        /\ \/ /\ Usable(token[w][k])
              /\ Goto(w, begin)
              /\ UNCHANGED <<token, faults>>
           \/ /\ ~Usable(token[w][k])
              /\ \E t \in [life : {"valid"}, wide : BOOLEAN] :
                    /\ IF t.wide THEN Fault("refused") ELSE UNCHANGED faults
                    /\ IF Acceptable(t)
                       THEN token' = [token EXCEPT ![w][k] = t] /\ Goto(w, begin)
                       ELSE Return(w, "error") /\ UNCHANGED token
        /\ UNCHANGED <<main, branch, pulls, issues, late, landed>>

\* Time passes: a token nears its expiry, then expires.
TokenAges(w) ==
    \E k \in Kinds :
        /\ \/ /\ token[w][k].life = "valid" /\ Fault("expire")
              /\ token' = [token EXCEPT ![w][k].life = "expiring"]
           \/ /\ token[w][k].life = "expiring" /\ UNCHANGED faults
              /\ token' = [token EXCEPT ![w][k].life = "expired"]
        /\ UNCHANGED <<main, branch, pulls, issues, late, landed, call>>
=============================================================================
