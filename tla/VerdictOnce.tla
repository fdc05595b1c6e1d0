----------------------------- MODULE VerdictOnce -----------------------------
(***************************************************************************)
(* What the sandbox promises the run: one execution at a time, of jobs     *)
(* that have no verdict yet; at most one verdict per job, for ever; and    *)
(* every result the run keeps as evidence is the verdict of its job.       *)
(***************************************************************************)
CONSTANTS Jobs, None

VARIABLES verdict,    \* [Jobs -> a request with its result, or None]
          executing,  \* the job under execution, or None
          evidence    \* the verdicts the run holds on to

vars == <<verdict, executing, evidence>>

Init == verdict = [j \in Jobs |-> None] /\ executing = None /\ evidence = {}

Start == /\ executing = None
         /\ \E j \in Jobs : verdict[j] = None /\ executing' = j
         /\ UNCHANGED <<verdict, evidence>>

Decide == /\ executing # None /\ executing' = None
          /\ verdict[executing] = None
          /\ verdict'[executing] # None
          /\ verdict'[executing].request.job = executing
          /\ \A j \in Jobs \ {executing} : verdict'[j] = verdict[j]
          /\ UNCHANGED evidence

Abort == /\ executing # None /\ executing' = None
         /\ UNCHANGED <<verdict, evidence>>

Learn == /\ evidence' \subseteq evidence \cup ({verdict[j] : j \in Jobs} \ {None})
         /\ UNCHANGED <<verdict, executing>>

Next == Start \/ Decide \/ Abort \/ Learn

Spec == Init /\ [][Next]_vars
=============================================================================
