----------------------- MODULE FeedbackLifecycle_proofs -----------------------
(***************************************************************************)
(* The queue keeps its rows typed, every claim token names one row, and    *)
(* work is owned, for any number of rows, attempts and claims.             *)
(***************************************************************************)
EXTENDS FeedbackLifecycle, TLAPS

\* The strengthenings that make these inductive: no row carries a token that has
\* not been handed out yet; a failed row, which may be reopened, has an owner, and
\* a row that was never submitted has none.
TokensHandedOut == \A f \in Feedback : item[f].token <= claims
RestIsSound     == \A f \in Feedback :
    /\ item[f].status = "failed" => item[f].token # NoToken
    /\ item[f].status = "absent" => item[f].token = NoToken

LifecycleInv == TypeOK /\ OneOwner /\ WorkIsOwned /\ TokensHandedOut /\ RestIsSound

\* One row is right by itself: the owner its status calls for.
RowOwned(row) ==
    /\ row.status \in InFlight \cup {"claimed", "failed"} => row.token # NoToken
    /\ row.status \in {"absent", "pending"} => row.token = NoToken

LEMMA RowsOwned ==
    ASSUME TRUE
    PROVE  (WorkIsOwned /\ RestIsSound) <=> \A f \in Feedback : RowOwned(item[f])
BY DEF WorkIsOwned, RestIsSound, RowOwned

\* A row with an owner may go to any status but the queue's.
LEMMA OwnedRowMoves ==
    ASSUME NEW row \in Item, row.token # NoToken,
           NEW to \in FeedbackStatus, to # "pending"
    PROVE  RowOwned([row EXCEPT !.status = to])
<1>1. to # "absent"
  BY DEF FeedbackStatus
<1>2. [row EXCEPT !.status = to].status = to /\ [row EXCEPT !.status = to].token = row.token
  BY DEF Item
<1> QED
  BY <1>1, <1>2 DEF RowOwned

\* An action that changes rows without a claim preserves the invariant if every
\* row stays a row, keeps its token or loses it, and is right by itself.
LEMMA RowsKeepOwners ==
    ASSUME LifecycleInv, claims' = claims, item' \in [Feedback -> Item],
           \A f \in Feedback : item'[f].token \in {item[f].token, NoToken},
           \A f \in Feedback : RowOwned(item'[f])
    PROVE  LifecycleInv'
<1>1. WorkIsOwned' /\ RestIsSound'
  BY DEF WorkIsOwned, RestIsSound, RowOwned
<1>2. OneOwner'
  BY DEF LifecycleInv, OneOwner
<1>3. TokensHandedOut'
  BY DEF LifecycleInv, TokensHandedOut, TypeOK, Item, NoToken, Tokens
<1>4. TypeOK'
  BY DEF LifecycleInv, TypeOK
<1> QED
  BY <1>1, <1>2, <1>3, <1>4 DEF LifecycleInv

\* What giving up the rows in gone leaves in the table.
LEMMA GivenUpRows ==
    ASSUME LifecycleInv, NEW gone \in SUBSET Feedback
    PROVE  /\ GivenUp(gone) \in [Feedback -> Item]
           /\ \A f \in Feedback : /\ GivenUp(gone)[f].token \in {item[f].token, NoToken}
                                  /\ RowOwned(GivenUp(gone)[f])
           /\ \A f \in Feedback \ gone : GivenUp(gone)[f] = item[f]
<1>t. item \in [Feedback -> Item]
  BY DEF LifecycleInv, TypeOK
<1>1. ASSUME NEW f \in Feedback
      PROVE  LET row == [item[f] EXCEPT !.status = "needs_human", !.token = NoToken]
             IN  row \in Item /\ row.token = NoToken /\ RowOwned(row)
  <2>1. item[f] \in Item
    BY <1>t
  <2> QED
    BY <2>1 DEF Item, FeedbackStatus, NoToken, RowOwned, InFlight
<1>2. \A f \in Feedback : RowOwned(item[f])
  BY RowsOwned DEF LifecycleInv
<1> QED
  BY <1>t, <1>1, <1>2 DEF GivenUp

LEMMA LifecycleStep == LifecycleInv /\ [Next]_lifeVars => LifecycleInv'
<1> SUFFICES ASSUME LifecycleInv, [Next]_lifeVars
             PROVE  LifecycleInv'
  OBVIOUS
<1> USE ClaimsAssumption
<1>t. item \in [Feedback -> Item] /\ claims \in 0..MaxClaims
  BY DEF LifecycleInv, TypeOK
<1>r. \A f \in Feedback : RowOwned(item[f])
  BY RowsOwned DEF LifecycleInv
<1>s. ASSUME NEW f \in Feedback, NEW to \in FeedbackStatus,
             item' = [item EXCEPT ![f].status = to], claims' = claims,
             RowOwned([item[f] EXCEPT !.status = to])
      PROVE  LifecycleInv'
  <2>1. item[f] \in Item
    BY <1>t
  <2>2. [item[f] EXCEPT !.status = to] \in Item
    BY <2>1 DEF Item
  <2>3. [item[f] EXCEPT !.status = to].token = item[f].token
    BY <2>1 DEF Item
  <2>4. \A g \in Feedback :
            item'[g] = IF g = f THEN [item[f] EXCEPT !.status = to] ELSE item[g]
    BY <1>s, <1>t
  <2>5. item' \in [Feedback -> Item]
    BY <1>s, <1>t, <2>2
  <2> QED
    BY <1>s, <1>r, <2>3, <2>4, <2>5, RowsKeepOwners
<1>1. ASSUME NEW gone \in SUBSET Feedback, GiveUp(gone)
      PROVE  LifecycleInv'
  BY <1>1, GivenUpRows, RowsKeepOwners DEF GiveUp
<1>2. ASSUME NEW f \in Feedback, Submit(f)
      PROVE  LifecycleInv'
  <2>1. RowOwned([item[f] EXCEPT !.status = "pending"])
    BY <1>2, <1>r, <1>t DEF Submit, RowOwned, InFlight, Item
  <2> QED
    BY <1>2, <2>1, <1>s DEF Submit, FeedbackStatus
<1>3. ASSUME NEW f \in Feedback, Advance(f)
      PROVE  LifecycleInv'
  <2>1. PICK to \in FeedbackStatus \ {"pending", "claimed"} :
            /\ CanMove(item[f].status, to)
            /\ item' = [item EXCEPT ![f].status = to]
            /\ claims' = claims
    BY <1>3 DEF Advance
  <2>2. item[f].status \in InFlight \cup {"claimed"}
    BY <2>1 DEF CanMove, InFlight
  <2>3. item[f].token # NoToken
    BY <2>2, <1>r DEF RowOwned
  <2>4. RowOwned([item[f] EXCEPT !.status = to])
    BY <2>1, <2>3, <1>t, OwnedRowMoves
  <2> QED
    BY <2>1, <2>4, <1>s
<1>4. ASSUME NEW f \in Feedback, Requeue(f)
      PROVE  LifecycleInv'
  <2> DEFINE row == [item[f] EXCEPT !.status = "pending", !.token = NoToken, !.requeues = 1]
  <2>1. item' = [item EXCEPT ![f] = row] /\ claims' = claims
    BY <1>4 DEF Requeue
  <2>2. row \in Item /\ row.token = NoToken /\ RowOwned(row)
    <3>1. item[f] \in Item
      BY <1>t
    <3>2. row \in Item
      <4>1. "pending" \in FeedbackStatus /\ 1 \in 0..1
        BY DEF FeedbackStatus
      <4> QED
        BY <3>1, <4>1 DEF Item
    <3>3. row.token = NoToken /\ row.status = "pending"
      BY <3>1 DEF Item
    <3> QED
      BY <3>2, <3>3 DEF RowOwned, InFlight
  <2> HIDE DEF row
  <2>3. \A g \in Feedback : item'[g] = IF g = f THEN row ELSE item[g]
    BY <2>1, <1>t
  <2>4. item' \in [Feedback -> Item]
    BY <2>1, <2>2, <1>t
  <2> QED
    BY <2>1, <2>2, <2>3, <2>4, <1>r, RowsKeepOwners
<1>5. ASSUME NEW f \in Feedback, Reopen(f)
      PROVE  LifecycleInv'
  <2>1. PICK to \in {"publishing", "publishing_issue", "reproducing", "repairing"} :
            /\ item[f].status = "failed"
            /\ item' = [item EXCEPT ![f].status = to]
            /\ claims' = claims
    BY <1>5 DEF Reopen
  <2>2. item[f].token # NoToken
    BY <2>1, <1>r DEF RowOwned
  <2>3. RowOwned([item[f] EXCEPT !.status = to])
    BY <2>1, <2>2, <1>t, OwnedRowMoves DEF FeedbackStatus
  <2> QED
    BY <2>1, <2>3, <1>s DEF FeedbackStatus
<1>6. ASSUME NEW f \in Feedback, NEW gone \in SUBSET (Feedback \ {f}), Claim(f, gone)
      PROVE  LifecycleInv'
  <2> DEFINE row == [item[f] EXCEPT !.status = "claimed", !.token = claims + 1,
                                    !.attempts = @ + 1]
             old == GivenUp(gone)
  <2>1. /\ item' = [old EXCEPT ![f] = row]
        /\ claims' = claims + 1 /\ claims < MaxClaims
        /\ item[f].attempts < MaxAttempts
    BY <1>6 DEF Claim
  <2>2. /\ row \in Item /\ row.status = "claimed"
        /\ row.token = claims + 1 /\ claims + 1 # NoToken /\ RowOwned(row)
    <3>1. item[f] \in Item
      BY <1>t
    <3>2. claims + 1 \in Tokens /\ claims + 1 # NoToken
      BY <2>1, <1>t DEF Tokens, NoToken
    <3>3. item[f].attempts + 1 \in 0..MaxAttempts
      BY <2>1, <3>1 DEF Item
    <3>4. row \in Item
      BY <3>1, <3>2, <3>3 DEF Item, FeedbackStatus
    <3>5. row.token = claims + 1 /\ row.status = "claimed"
      BY <3>1 DEF Item
    <3> QED
      BY <3>2, <3>4, <3>5 DEF RowOwned
  <2>3. /\ old \in [Feedback -> Item]
        /\ \A g \in Feedback : old[g].token \in {item[g].token, NoToken} /\ RowOwned(old[g])
    BY GivenUpRows
  <2> HIDE DEF row, old
  <2>4. \A g \in Feedback : item'[g] = IF g = f THEN row ELSE old[g]
    BY <2>1, <2>3
  <2>5. \A g \in Feedback : item[g].token \in Nat /\ item[g].token <= claims
    BY <1>t DEF LifecycleInv, TokensHandedOut, Item, Tokens, NoToken
  <2>6. TypeOK'
    BY <2>1, <2>2, <2>3, <1>t DEF TypeOK
  <2>7. OneOwner'
    BY <2>2, <2>3, <2>4, <2>5, <1>t DEF OneOwner, LifecycleInv, NoToken
  <2>8. (WorkIsOwned /\ RestIsSound)'
    BY <2>2, <2>3, <2>4 DEF WorkIsOwned, RestIsSound, RowOwned
  <2>9. TokensHandedOut'
    BY <2>1, <2>2, <2>3, <2>4, <2>5, <1>t DEF TokensHandedOut, NoToken
  <2> QED
    BY <2>6, <2>7, <2>8, <2>9 DEF LifecycleInv
<1>7. CASE UNCHANGED lifeVars
  BY <1>7 DEF lifeVars, LifecycleInv, TypeOK, OneOwner, WorkIsOwned, TokensHandedOut,
              RestIsSound
<1> QED
  BY <1>1, <1>2, <1>3, <1>4, <1>5, <1>6, <1>7 DEF Next

LEMMA LifecycleInit == Init => LifecycleInv
BY ClaimsAssumption
   DEF Init, LifecycleInv, TypeOK, OneOwner, WorkIsOwned, TokensHandedOut, RestIsSound,
       Item, InFlight, NoToken, Tokens

\* The rows keep their type, whatever history the queue goes through.
THEOREM LifecycleTyped == Spec => []TypeOK
<1>1. LifecycleInv => TypeOK
  BY DEF LifecycleInv
<1> QED
  BY <1>1, LifecycleInit, LifecycleStep, PTL DEF Spec

\* A claim token names one row (claim_next_agent_feedback, transition).
THEOREM OneOwnerHolds == Spec => []OneOwner
<1>1. LifecycleInv => OneOwner
  BY DEF LifecycleInv
<1> QED
  BY <1>1, LifecycleInit, LifecycleStep, PTL DEF Spec

\* Work in flight has an owner and queued work has none.
THEOREM WorkIsOwnedHolds == Spec => []WorkIsOwned
<1>1. LifecycleInv => WorkIsOwned
  BY DEF LifecycleInv
<1> QED
  BY <1>1, LifecycleInit, LifecycleStep, PTL DEF Spec
=============================================================================
