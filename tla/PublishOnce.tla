---------------------------- MODULE PublishOnce ----------------------------
(***************************************************************************)
(* What publishing promises, without requests, replies or processes: a     *)
(* branch is given to one patch of one feedback and keeps it, and a pull   *)
(* request shows the patch its branch was given.  PullRequestPublisher,    *)
(* driven by several processes at once, implements this module.            *)
(***************************************************************************)
CONSTANTS Branches, Owners, Nobody

VARIABLES owner,     \* the patch each branch was created for
          shown      \* the patches the branch's pull requests claim to hold

onceVars == <<owner, shown>>

Init == /\ owner = [b \in Branches |-> Nobody]
        /\ shown = [b \in Branches |-> {}]

Give(b, o) == /\ owner[b] = Nobody
              /\ owner' = [owner EXCEPT ![b] = o]
              /\ UNCHANGED shown

Show(b) == /\ owner[b] # Nobody
           /\ shown' = [shown EXCEPT ![b] = {owner[b]}]
           /\ UNCHANGED owner

Next == \E b \in Branches : Show(b) \/ \E o \in Owners : Give(b, o)

Spec == Init /\ [][Next]_onceVars
=============================================================================
