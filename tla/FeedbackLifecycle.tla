-------------------------- MODULE FeedbackLifecycle --------------------------
(***************************************************************************)
(* What the feedback queue promises, without runs, processes or graph      *)
(* nodes: the history one feedback row may have.  A row is claimed under a *)
(* fresh token at most MaxAttempts times, moves along the transition table *)
(* while that token owns it, is requeued at most once for a stale base,    *)
(* and leaves a verdict only when a maintainer reopens it.                 *)
(* FeedbackRun implements this module.                                     *)
(***************************************************************************)
EXTENDS FeedbackStates

CONSTANT Feedback        \* feedback rows

VARIABLES item,          \* item[f]: the row of f
          claims         \* claim tokens handed out so far

lifeVars == <<item, claims>>

Tokens  == 1..MaxClaims
NoToken == 0

Item == [status : FeedbackStatus \cup {"absent"}, token : Tokens \cup {NoToken},
         attempts : 0..MaxAttempts, requeues : 0..1]

\* The shape of a row and its counters: at most MaxAttempts claims and one
\* requeue (AgentFeedback's attempt_count and stale_base_requeue_count).
TypeOK == item \in [Feedback -> Item] /\ claims \in 0..MaxClaims

Init == /\ item = [f \in Feedback |-> [status |-> "absent", token |-> NoToken,
                                       attempts |-> 0, requeues |-> 0]]
        /\ claims = 0

Submit(f) == /\ item[f].status = "absent"
             /\ item' = [item EXCEPT ![f].status = "pending"]
             /\ UNCHANGED claims

Waiting(f) == item[f].status \in {"pending", "claimed"}

\* One claim: rows out of attempts are given up, one other row gets a new token.
GivenUp(gone) == [f \in Feedback |->
    IF f \in gone THEN [item[f] EXCEPT !.status = "needs_human", !.token = NoToken]
                  ELSE item[f]]

Exhausted(f) == Waiting(f) /\ item[f].attempts >= MaxAttempts

GiveUp(gone) == /\ gone # {}
                /\ \A f \in gone : Exhausted(f)
                /\ item' = GivenUp(gone)
                /\ UNCHANGED claims

Claim(f, gone) ==
    /\ Waiting(f)
    /\ item[f].attempts < MaxAttempts
    /\ \A g \in gone : Exhausted(g)
    /\ claims < MaxClaims
    /\ claims' = claims + 1
    /\ item' = [GivenUp(gone) EXCEPT
                  ![f] = [item[f] EXCEPT !.status = "claimed", !.token = claims + 1,
                                         !.attempts = @ + 1]]

\* The owner moves its row along the table.
Advance(f) == \E to \in FeedbackStatus \ {"pending", "claimed"} :
    /\ item[f].token # NoToken
    /\ CanMove(item[f].status, to)
    /\ item' = [item EXCEPT ![f].status = to]
    /\ UNCHANGED claims

\* Main moved before publication: back to the queue, once, without an owner.
Requeue(f) == /\ item[f].token # NoToken
              /\ item[f].status = "stale_base"
              /\ item[f].requeues = 0
              /\ item' = [item EXCEPT ![f].status = "pending", ![f].token = NoToken,
                                      ![f].requeues = 1]
              /\ UNCHANGED claims

\* A maintainer reopens a failed publication or an exhausted repair.
Reopen(f) == \E to \in {"publishing", "publishing_issue", "reproducing", "repairing"} :
    /\ item[f].token # NoToken
    /\ item[f].status = "failed"
    /\ item' = [item EXCEPT ![f].status = to]
    /\ UNCHANGED claims

Next == \/ \E gone \in SUBSET Feedback : GiveUp(gone)
        \/ \E f \in Feedback :
              \/ Submit(f) \/ Advance(f) \/ Requeue(f) \/ Reopen(f)
              \/ \E gone \in SUBSET (Feedback \ {f}) : Claim(f, gone)

Spec == Init /\ [][Next]_lifeVars

-----------------------------------------------------------------------------
\* A claim token names one row: writes under it can never reach another one
\* (claim_next_agent_feedback generates it, transition() filters by it).
OneOwner == \A f, g \in Feedback :
    item[f].token = item[g].token /\ item[f].token # NoToken => f = g

\* A row on its way to a verdict has an owner, and a row in the queue has none:
\* neither a requeue nor a takeover leaves work that nobody, or that a stale
\* owner, could write (transition()'s compare-and-set on the token).
WorkIsOwned == \A f \in Feedback :
    /\ item[f].status \in InFlight \cup {"claimed"} => item[f].token # NoToken
    /\ item[f].status = "pending" => item[f].token = NoToken
=============================================================================
