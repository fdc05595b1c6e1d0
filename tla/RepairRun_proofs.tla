--------------------------- MODULE RepairRun_proofs ---------------------------
(***************************************************************************)
(* The safety of a run for any number of rounds, retries, faults and steps *)
(* between checkpoints, and for both loops.  None of RepairRun's           *)
(* invariants is inductive: a state that says "confirmed" is worth what    *)
(* lies on disk, a restart puts an older state before newer artifacts, and *)
(* an answer may come from a request nobody waits for any more.  The       *)
(* induction is in three layers, each over the ones before it:             *)
(*   TypeInv      the shapes, what each place of a loop knows, and what    *)
(*                the sandbox owes its caller;                             *)
(*   EvidenceInv  what the artifacts prove, for the state and for the      *)
(*                checkpoint a restart would bring back;                   *)
(*   RestartInv   a run that was never resumed asks for each job once.     *)
(***************************************************************************)
EXTENDS RepairRun, TLAPS

Run == <<st, saved, lag, disk, outcome, restarted>>

-----------------------------------------------------------------------------
(* The first layer: shapes *)

Disk == [test : Patches \cup {None}, fix : Patches \cup {None},
         result : Evidence \cup {None}, repair : Evidence \cup {None}]

Messages == [request : Requests, heard : BOOLEAN]

\* At most one request at the worker is waited for, and it is the caller's; what
\* executes has no verdict; an answered result is the verdict.
SandboxInv ==
    /\ \A j \in Jobs : verdicts[j] # None => verdicts[j].request.job = j
    /\ running # None => verdicts[running.request.job] = None
    /\ \A m \in inbox : m.heard => call # None /\ answer = None /\ m.request = call.request
    /\ running # None /\ running.heard =>
          /\ call # None /\ answer = None /\ running.request = call.request
          /\ \A m \in inbox : ~m.heard
    /\ answer \in Results => /\ call # None
                             /\ verdicts[call.request.job] = Verdict(call.request, answer)
    /\ call = None => answer = None

\* What a state s relies on being on disk d.
Files(s, d) == /\ s.test => s.round > 0 /\ d.test # None
               /\ s.fix => s.fixRound > 0 /\ d.fix # None
               /\ s.result => s.round > 0 /\ d.result # None
               /\ s.repair => s.fixRound > 0 /\ d.repair # None

Unblocked == {"probe", "turn", "sandbox", "finish_repair_success", "validate"}

\* What the agent knows at each place.
AgentShape(s) ==
    /\ s.pc \in {"probe", "turn", "sandbox", "finish_reproduction", "finish_agent_blocked",
                 "finish_repair_success", "finish_repair_failure", "validate"}
    /\ s.pc = "probe" => s = Fresh
    /\ s.confirmed => s.test /\ s.result
    /\ s.fixed => s.repair /\ s.fix /\ s.phase = "repairing"
    /\ s.phase = "repairing" => s.confirmed \/ s.blocked # None
    /\ s.pc \in Unblocked => s.blocked = None
    /\ s.pc = "sandbox" => IF s.phase = "reproducing" THEN s.test /\ ~s.result
                                                      ELSE s.fix /\ ~s.repair
    /\ s.pc = "finish_reproduction" =>
          IF s.blocked = None THEN s.fixed /\ s.confirmed
          ELSE \/ s.phase = "repairing" /\ s.repair /\ s.confirmed
               \/ s.blocked = "cannot_reproduce" /\ s.result /\ s.round = MaxRounds
    /\ s.pc = "finish_agent_blocked" =>
          s.blocked # None /\ (s.blocked = "cannot_reproduce" => ~s.result)
    /\ s.pc \in {"finish_repair_success", "validate"} => s.fixed /\ s.confirmed
    /\ s.pc = "finish_repair_failure" => s.phase = "repairing"

\* What the graph knows at each place of the fixed loop.
FixedShape(s, d) ==
    /\ s.pc \in {"plan", "test_edit", "sandbox", "classify", "fix_edit", "classify_target",
                 "finish_reproduction", "finish_repair_success", "finish_repair_failure",
                 "validate"}
    /\ ~s.confirmed /\ ~s.fixed /\ s.blocked = None
    /\ s.pc = "plan" => s.round = 0 /\ s.fixRound = 0
    /\ s.pc \in {"plan", "test_edit", "classify", "finish_reproduction"} =>
          s.phase = "reproducing"
    /\ s.phase = "reproducing" => s.fixRound = 0 /\ ~s.repair /\ ~s.fix
    /\ s.phase = "repairing" => d.test # None
    /\ s.pc = "test_edit" => s.round < MaxRounds
    /\ s.pc = "fix_edit" => s.phase = "repairing" /\ s.fixRound < MaxRounds
    /\ s.pc = "sandbox" => IF s.phase = "reproducing" THEN s.test ELSE s.fix /\ ~s.repair
    /\ s.pc \in {"classify", "finish_reproduction"} => s.result
    /\ s.pc \in {"classify_target", "finish_repair_success", "finish_repair_failure",
                 "validate"} => s.phase = "repairing" /\ s.repair

Shape(s, d) == /\ Files(s, d)
               /\ mode = "agent" => AgentShape(s)
               /\ mode = "fixed" => FixedShape(s, d)
               /\ s.pc # "validate" => s.step = 0 /\ ~s.good
               /\ s.step <= 2

\* The outstanding call is the one of the run's place.
CallInv == call # None =>
    /\ st.pc \in {"probe", "sandbox", "validate"}
    /\ st.pc = "probe" => /\ call.request.job = <<"probe", 1>>
                          /\ call.request.test = disk.test /\ call.request.fix = None
    /\ st.pc = "sandbox" => call.request = _job
    /\ st.pc = "validate" => call.request = FinalRequest(st.step + 1)

\* A result is about a test, and only one that failed as planned reports a
\* reproduction.
DiskInv == disk.result # None =>
    /\ disk.result.result # None => disk.test # None
    /\ disk.result.report = "reproduced" =>
          ClassifyReproduction(disk.result.result) = "reproduced"

PlaceInv == /\ outcome # None => call = None
            /\ outcome = None => /\ Shape(st, disk) /\ Shape(saved, disk)
                                 /\ saved.step = 0 /\ ~saved.good
                                 /\ CallInv
            /\ DiskInv

RunTyped == /\ st \in State /\ saved \in State
            /\ lag \in 0..MaxLag
            /\ disk \in Disk
            /\ outcome \in Endings \cup {None}
            /\ restarted \in BOOLEAN

SandboxOK == SandboxTypeOK /\ SandboxInv

TypeInv == SandboxOK /\ RunTyped /\ PlaceInv /\ mode \in Modes

-----------------------------------------------------------------------------
(* The sandbox service and its caller *)

USE SandboxAssumption, NoneAssumption

LEMMA UnheardOK ==
    ASSUME SandboxOK, Unheard
    PROVE  /\ running' \in Executions \cup {None}
           /\ inbox' \subseteq Messages
           /\ running = None => running' = None
           /\ running # None => /\ running' # None /\ running'.request = running.request
                                /\ ~running'.heard
           /\ \A m \in inbox' : /\ ~m.heard
                                /\ \E n \in inbox : n.request = m.request
<1>1. running # None => [running EXCEPT !.heard = FALSE] \in Executions
  BY DEF SandboxOK, SandboxTypeOK, Executions
<1>2. inbox \subseteq Messages
  BY DEF SandboxOK, SandboxTypeOK, Messages
<1>3. \A m \in Messages : /\ [m EXCEPT !.heard = FALSE] \in Messages
                          /\ ~[m EXCEPT !.heard = FALSE].heard
                          /\ [m EXCEPT !.heard = FALSE].request = m.request
  BY DEF Messages
<1>4. running # None => /\ [running EXCEPT !.heard = FALSE].request = running.request
                        /\ ~[running EXCEPT !.heard = FALSE].heard
  BY DEF SandboxOK, SandboxTypeOK, Executions
<1> QED
  BY <1>1, <1>2, <1>3, <1>4 DEF Unheard

LEMMA SubmitOK ==
    ASSUME SandboxOK, NEW q \in Requests, NEW n \in 0..MaxRetries, NEW d \in BOOLEAN,
           Submit(q, n, d)
    PROVE  /\ SandboxOK'
           /\ call' # None /\ call'.request = q
<1>1. call' \in Attempts /\ call'.request = q /\ call' # None
  BY DEF Submit, Attempts
<1>2. [request |-> q, heard |-> TRUE] \in [request : Requests, heard : BOOLEAN]
  OBVIOUS
<1>3. SandboxTypeOK'
  BY <1>1, <1>2 DEF SandboxOK, SandboxTypeOK, Submit
<1>4. SandboxInv'
  BY <1>1 DEF SandboxOK, SandboxTypeOK, SandboxInv, Submit
<1> QED
  BY <1>1, <1>3, <1>4 DEF SandboxOK

LEMMA ConcludeOK ==
    ASSUME SandboxOK, Conclude
    PROVE  SandboxOK' /\ call' = None
BY DEF SandboxOK, SandboxTypeOK, SandboxInv, Conclude, Conclusive, worker

\* What the caller takes away from a conclusive result.
LEMMA ConcludedVerdict ==
    ASSUME SandboxOK, Conclude, answer \in Results
    PROVE  /\ call.request \in Requests
           /\ verdicts[call.request.job] = Verdict(call.request, answer)
BY DEF SandboxOK, SandboxTypeOK, SandboxInv, Conclude, Conclusive, Attempts

LEMMA CallerDiesOK ==
    ASSUME SandboxOK, CallerDies
    PROVE  SandboxOK' /\ call' = None
<1>1. Unheard
  BY DEF CallerDies
<1>2. faults' \in 0..MaxFaults
  BY DEF CallerDies, Fault, SandboxOK, SandboxTypeOK
<1> QED
  BY <1>1, <1>2, UnheardOK
  DEF SandboxOK, SandboxTypeOK, SandboxInv, CallerDies, Messages

LEMMA TakeRequestOK ==
    ASSUME SandboxOK, TakeRequest
    PROVE  SandboxOK'
<1>1. PICK m \in inbox : /\ inbox' = inbox \ {m}
                         /\ \/ AnswerFromStore(m)
                            \/ RefuseExpired(m)
                            \/ Begin(m)
  BY DEF TakeRequest
<1>2. m \in Messages /\ m.request \in Requests /\ m.request.job \in Jobs /\ m.heard \in BOOLEAN
  BY DEF SandboxOK, SandboxTypeOK, Messages, Requests
<1>3. running = None /\ UNCHANGED <<verdicts, call>>
  BY DEF TakeRequest
<1>4. m.heard => \A n \in inbox' : ~n.heard
  <2> SUFFICES ASSUME m.heard, NEW n \in inbox, n.heard
               PROVE  n = m
    BY <1>1
  <2>1. n \in Messages /\ n.request = m.request /\ n.heard = m.heard
    BY <1>2 DEF SandboxOK, SandboxTypeOK, SandboxInv, Messages
  <2> QED
    BY <1>2, <2>1 DEF Messages
<1>5. CASE AnswerFromStore(m)
  <2>1. verdicts[m.request.job] \in Verdicts
    BY <1>2, <1>5 DEF AnswerFromStore, SandboxOK, SandboxTypeOK
  <2>2. answer' \in Answers \cup {None}
    BY <1>5, <2>1 DEF AnswerFromStore, Respond, SandboxOK, SandboxTypeOK, Answers, Verdicts
  <2>3. SandboxTypeOK'
    BY <1>1, <1>3, <1>5, <2>2 DEF AnswerFromStore, SandboxOK, SandboxTypeOK
  <2>4. m.heard /\ answer' \in Results =>
            verdicts[m.request.job] = Verdict(m.request, answer')
    BY <1>5, <2>1 DEF AnswerFromStore, Respond, Verdicts, Verdict, AllResults
  <2>5. m.heard => call # None /\ m.request = call.request
    BY DEF SandboxOK, SandboxInv
  <2> QED
    BY <1>1, <1>3, <1>4, <1>5, <2>3, <2>4, <2>5
    DEF AnswerFromStore, Respond, SandboxOK, SandboxInv
<1>6. CASE RefuseExpired(m)
  <2>1. SandboxTypeOK'
    BY <1>1, <1>3, <1>6 DEF RefuseExpired, Fault, Respond, Answers, SandboxOK, SandboxTypeOK
  <2>2. m.heard => call # None /\ m.request = call.request
    BY DEF SandboxOK, SandboxInv
  <2> QED
    BY <1>1, <1>3, <1>4, <1>6, <2>1, <2>2
    DEF RefuseExpired, Respond, SandboxOK, SandboxInv, AllResults
<1>7. CASE Begin(m)
  <2>1. running' \in Executions /\ running' # None
        /\ running'.request = m.request /\ running'.heard = m.heard
    <3>1. (~NameTaken(m.request.job)) \in BOOLEAN
      BY DEF NameTaken
    <3>2. PICK own \in BOOLEAN :
             running' = [request |-> m.request, heard |-> m.heard, own |-> own]
      BY <1>7, <3>1 DEF Begin
    <3> QED
      BY <1>2, <3>2 DEF Executions
  <2>2. containers' \in [Jobs -> Requests \cup {None}]
    BY <1>2, <1>7 DEF Begin, SandboxOK, SandboxTypeOK
  <2>3. SandboxTypeOK'
    BY <1>1, <1>3, <1>7, <2>1, <2>2 DEF Begin, SandboxOK, SandboxTypeOK
  <2>4. m.heard => call # None /\ answer = None /\ m.request = call.request
    BY DEF SandboxOK, SandboxInv
  <2> QED
    BY <1>1, <1>3, <1>4, <1>7, <2>1, <2>3, <2>4 DEF Begin, SandboxOK, SandboxInv
<1> QED
  BY <1>1, <1>5, <1>6, <1>7

LEMMA FinishOK ==
    ASSUME SandboxOK, Finish
    PROVE  SandboxOK'
<1> DEFINE q == running.request
<1>1. running \in Executions /\ q \in Requests /\ q.job \in Jobs /\ running.heard \in BOOLEAN
  BY DEF Finish, SandboxOK, SandboxTypeOK, Executions, Requests
<1>2. running' = None /\ UNCHANGED <<inbox, call>>
  BY DEF Finish
<1>3. containers' \in [Jobs -> Requests \cup {None}]
  BY <1>1 DEF Finish, SandboxOK, SandboxTypeOK
<1>4. verdicts[q.job] = None
  BY DEF Finish, SandboxOK, SandboxInv
<1>5. running.heard => /\ call # None /\ answer = None /\ q = call.request
                       /\ \A m \in inbox : ~m.heard
  BY DEF Finish, SandboxOK, SandboxInv
<1>6. ASSUME NEW r \in Outcomes(running),
             verdicts' = [verdicts EXCEPT ![q.job] = Verdict(q, r)],
             Respond(running, r),
             UNCHANGED faults
      PROVE  SandboxOK'
  <2>1. r \in Results /\ Verdict(q, r) \in Verdicts /\ Verdict(q, r).request = q
        /\ Verdict(q, r) # None
    BY <1>1, <1>6 DEF Outcomes, Verdict, Verdicts
  <2>2. SandboxTypeOK'
    BY <1>1, <1>2, <1>3, <1>6, <2>1 DEF Respond, Answers, SandboxOK, SandboxTypeOK
  <2>3. \A j \in Jobs : verdicts'[j] = IF j = q.job THEN Verdict(q, r) ELSE verdicts[j]
    BY <1>1, <1>6 DEF SandboxOK, SandboxTypeOK
  <2>4. answer \in Results => /\ call # None /\ call.request.job \in Jobs
                              /\ Verdict(call.request, answer) # None
    BY DEF SandboxOK, SandboxTypeOK, SandboxInv, Attempts, Requests, Verdict, Verdicts
  <2>5. \A j \in Jobs : verdicts'[j] # None => verdicts'[j].request.job = j
    BY <2>1, <2>3 DEF SandboxOK, SandboxInv
  <2>6. answer' = IF running.heard THEN r ELSE answer
    BY <1>6 DEF Respond
  <2>7. answer' \in Results => /\ call' # None
                               /\ verdicts'[call'.request.job] = Verdict(call'.request, answer')
    <3>1. CASE running.heard
      BY <1>1, <1>2, <1>5, <2>3, <2>6, <3>1
    <3>2. CASE ~running.heard
      BY <1>1, <1>2, <1>4, <2>1, <2>3, <2>4, <2>6, <3>2 DEF SandboxOK, SandboxInv, Verdict, Verdicts
    <3> QED
      BY <3>1, <3>2
  <2> QED
    BY <1>2, <1>5, <2>2, <2>5, <2>6, <2>7 DEF SandboxOK, SandboxInv
<1>7. ASSUME Fault("store_fails"), Respond(running, "unavailable"), UNCHANGED verdicts
      PROVE  SandboxOK'
  <2>1. SandboxTypeOK'
    BY <1>2, <1>3, <1>7 DEF Fault, Respond, Answers, SandboxOK, SandboxTypeOK
  <2> QED
    BY <1>1, <1>2, <1>5, <1>7, <2>1 DEF Respond, SandboxOK, SandboxInv, AllResults
<1> QED
  BY <1>6, <1>7 DEF Finish

LEMMA CallerRetriesOK ==
    ASSUME SandboxOK, Retry
    PROVE  SandboxOK' /\ call # None /\ call' # None /\ call'.request = call.request
<1>1. call' \in Attempts /\ call'.request = call.request /\ call # None /\ call' # None
  BY DEF Retry, SandboxOK, SandboxTypeOK, Attempts
<1>2. call.request \in Requests
  BY DEF Retry, SandboxOK, SandboxTypeOK, Attempts
<1>3. SandboxTypeOK'
  <2>1. [request |-> call.request, heard |-> TRUE] \in [request : Requests, heard : BOOLEAN]
    BY <1>2
  <2> QED
    BY <1>1, <2>1 DEF Retry, SandboxOK, SandboxTypeOK
<1>4. "unavailable" # None
  BY DEF Answers
<1> QED
  BY <1>1, <1>3, <1>4 DEF Retry, SandboxOK, SandboxInv, SandboxTypeOK

LEMMA StopWaitingOK ==
    ASSUME SandboxOK, StopWaiting
    PROVE  SandboxOK'
<1>1. Unheard
  BY DEF StopWaiting
<1>2. faults' \in 0..MaxFaults
  BY DEF StopWaiting, Fault, SandboxOK, SandboxTypeOK
<1>3. SandboxTypeOK'
  BY <1>1, <1>2, UnheardOK
  DEF SandboxOK, SandboxTypeOK, StopWaiting, Messages, Answers
<1> QED
  BY <1>1, <1>3, UnheardOK DEF SandboxOK, SandboxInv, StopWaiting, AllResults

LEMMA WorkerDiesOK ==
    ASSUME SandboxOK, WorkerDies
    PROVE  SandboxOK'
<1>1. SandboxTypeOK'
  BY DEF SandboxOK, SandboxTypeOK, WorkerDies, Fault, Answers
<1> QED
  BY <1>1 DEF SandboxOK, SandboxInv, WorkerDies, AllResults

LEMMA OrphanExitsOK ==
    ASSUME SandboxOK, NEW j \in Jobs, OrphanExits(j)
    PROVE  SandboxOK'
BY DEF SandboxOK, SandboxTypeOK, SandboxInv, OrphanExits

\* The worker and the caller's middleware keep the bargain, and none of their steps
\* ends or begins a call.
LEMMA ServiceOK ==
    ASSUME SandboxOK, SandboxStep
    PROVE  /\ SandboxOK'
           /\ call = None => call' = None
           /\ call # None => call' # None /\ call'.request = call.request
<1>1. CASE TakeRequest
  BY <1>1, TakeRequestOK DEF TakeRequest
<1>2. CASE Finish
  BY <1>2, FinishOK DEF Finish
<1>3. CASE Retry
  BY <1>3, CallerRetriesOK
<1>4. CASE StopWaiting
  BY <1>4, StopWaitingOK DEF StopWaiting
<1>5. CASE WorkerDies
  BY <1>5, WorkerDiesOK DEF WorkerDies
<1>6. CASE \E j \in Jobs : OrphanExits(j)
  BY <1>6, OrphanExitsOK DEF OrphanExits
<1> QED
  BY <1>1, <1>2, <1>3, <1>4, <1>5, <1>6 DEF SandboxStep

-----------------------------------------------------------------------------
(* Verdicts and artifacts *)

USE RepairAssumption, NothingAssumption, ModesAssumption

LEMMA Classified ==
    ASSUME NEW r
    PROVE  /\ ClassifyReproduction(r) \in Dispositions
           /\ ClassifyReproduction(r) = "reproduced" <=> r = "failed_as_planned"
           /\ ClassifyTarget(r) \in Dispositions
           /\ ClassifyTarget(r) = "target_passed" <=> r = "passed"
BY DEF ClassifyReproduction, ClassifyTarget, Dispositions

LEMMA JudgedTyped ==
    ASSUME NEW q \in Requests, NEW r \in Results, NEW report \in Dispositions \cup {None}
    PROVE  /\ Judged(q, r, report) \in Evidence
           /\ Judged(q, r, report).request = q
           /\ Judged(q, r, report).result = r
           /\ Judged(q, r, report).report = report
BY DEF Judged, Evidence

LEMMA SyntheticTyped ==
    ASSUME NEW report \in Dispositions
    PROVE  /\ Synthetic(report) \in Evidence
           /\ Synthetic(report).result = None
           /\ Synthetic(report).report = report
BY DEF Synthetic, Evidence

LEMMA EvidenceNotNone ==
    ASSUME NEW e \in Evidence
    PROVE  e # None
OBVIOUS

LEMMA WriteTestTyped ==
    ASSUME disk \in Disk, NEW p \in Patches, WriteTest(p)
    PROVE  /\ disk' \in Disk /\ disk'.test = p /\ p # None
           /\ disk'.fix = disk.fix /\ disk'.result = disk.result /\ disk'.repair = disk.repair
BY DEF Disk, WriteTest

LEMMA WriteFixTyped ==
    ASSUME disk \in Disk, NEW p \in Patches, WriteFix(p)
    PROVE  /\ disk' \in Disk /\ disk'.fix = p /\ p # None
           /\ disk'.test = disk.test /\ disk'.result = disk.result /\ disk'.repair = disk.repair
BY DEF Disk, WriteFix

LEMMA WriteResultTyped ==
    ASSUME disk \in Disk, NEW e \in Evidence, WriteResult(e)
    PROVE  /\ disk' \in Disk /\ disk'.result = e /\ e # None
           /\ disk'.test = disk.test /\ disk'.fix = disk.fix /\ disk'.repair = disk.repair
BY DEF Disk, WriteResult

LEMMA WriteRepairTyped ==
    ASSUME disk \in Disk, NEW e \in Evidence, WriteRepair(e)
    PROVE  /\ disk' \in Disk /\ disk'.repair = e /\ e # None
           /\ disk'.test = disk.test /\ disk'.fix = disk.fix /\ disk'.result = disk.result
BY DEF Disk, WriteRepair

LEMMA TimeSpentTyped ==
    ASSUME NEW r \in State, NEW s \in TimeSpent(r)
    PROVE  /\ s \in State
           /\ s.pc = r.pc /\ s.phase = r.phase /\ s.round = r.round /\ s.fixRound = r.fixRound
           /\ s.test = r.test /\ s.fix = r.fix /\ s.result = r.result /\ s.repair = r.repair
           /\ s.confirmed = r.confirmed /\ s.fixed = r.fixed /\ s.blocked = r.blocked
           /\ s.step = r.step /\ s.good = r.good
<1>1. PICK b \in {r.spent, TRUE} : s = [r EXCEPT !.spent = b]
  BY DEF TimeSpent
<1>2. b \in BOOLEAN
  BY DEF State
<1> QED
  BY <1>1, <1>2 DEF State

LEMMA FreshTyped == Fresh \in State
BY DEF Fresh, State, Places

-----------------------------------------------------------------------------
(* The steps of a run keep the first layer *)

\* Artifacts are replaced, never removed.
Grown == /\ disk.test # None => disk'.test # None
         /\ disk.fix # None => disk'.fix # None
         /\ disk.result # None => disk'.result # None
         /\ disk.repair # None => disk'.repair # None

LEMMA ShapeGrows ==
    ASSUME NEW s, Shape(s, disk), Grown
    PROVE  Shape(s, disk')
BY DEF Shape, Files, FixedShape, Grown

\* A step to a state that has its shape.
LEMMA Stepped ==
    ASSUME TypeInv, outcome = None, SandboxOK', call' = None,
           UNCHANGED <<restarted, mode>>, disk' \in Disk, Grown, DiskInv',
           NEW new \in State, Step(new), Shape(new, disk'), new.step = 0, ~new.good
    PROVE  TypeInv'
<1>1. /\ st' = new /\ saved' \in {new, saved} /\ outcome' = outcome
      /\ lag' \in 0..MaxLag
  BY DEF Step, TypeInv, RunTyped
<1>2. RunTyped'
  BY <1>1 DEF TypeInv, RunTyped
<1>3. Shape(saved, disk')
  BY ShapeGrows DEF TypeInv, PlaceInv
<1>4. Shape(st', disk') /\ Shape(saved', disk')
  BY <1>1, <1>3
<1>5. Shape(st, disk)' /\ Shape(saved, disk)'
  BY <1>4 DEF Shape
<1>6. saved'.step = 0 /\ ~saved'.good
  BY <1>1 DEF TypeInv, PlaceInv
<1>7. CallInv'
  BY DEF CallInv
<1> QED
  BY <1>1, <1>2, <1>5, <1>6, <1>7 DEF TypeInv, PlaceInv

LEMMA Ended ==
    ASSUME TypeInv, SandboxOK', call' = None, UNCHANGED <<restarted, mode>>,
           disk' \in Disk, DiskInv', NEW how \in Endings, End(how)
    PROVE  TypeInv'
<1>1. st' \in State
  BY DEF End, TypeInv, RunTyped, State, Places
<1>2. outcome' = how /\ how # None /\ saved' = st' /\ lag' = 0
  BY DEF End
<1> QED
  BY <1>1, <1>2 DEF TypeInv, RunTyped, PlaceInv

\* Where a node or a turn begins.
LEMMA AtPlace ==
    ASSUME TypeInv, NEW place, At(place)
    PROVE  /\ outcome = None /\ call = None /\ st.pc = place
           /\ st \in State /\ disk \in Disk /\ Shape(st, disk) /\ DiskInv
BY DEF At, TypeInv, RunTyped, PlaceInv

\* Where the answer to a call arrives.
LEMMA Concluding ==
    ASSUME TypeInv, outcome = None, Conclude
    PROVE  /\ SandboxOK' /\ call' = None
           /\ st \in State /\ disk \in Disk /\ Shape(st, disk) /\ DiskInv /\ CallInv
           /\ call # None
           /\ answer \in Results => call.request \in Requests
BY ConcludeOK, ConcludedVerdict DEF TypeInv, RunTyped, PlaceInv, Conclude, Conclusive

\* Nothing happens to the sandbox or to the artifacts.
LEMMA Quiet ==
    ASSUME TypeInv, UNCHANGED <<sandboxVars, disk>>
    PROVE  SandboxOK' /\ disk' \in Disk /\ Grown /\ DiskInv' /\ call' = call
BY DEF TypeInv, SandboxOK, SandboxTypeOK, SandboxInv, RunTyped, PlaceInv, DiskInv, Grown, sandboxVars

\* Nothing but the state of the thread moves.
LEMMA QuietStep ==
    ASSUME TypeInv, outcome = None, call = None,
           UNCHANGED <<sandboxVars, disk, restarted, mode>>,
           NEW new \in State, Step(new), Shape(new, disk), new.step = 0, ~new.good
    PROVE  TypeInv'
<1>1. Shape(new, disk')
  BY DEF Shape
<1> QED
  BY <1>1, Quiet, Stepped

LEMMA QuietEnd ==
    ASSUME TypeInv, call = None, UNCHANGED <<sandboxVars, disk, restarted, mode>>,
           NEW how \in Endings, End(how)
    PROVE  TypeInv'
BY Quiet, Ended

\* A call goes out; the run waits.
LEMMA CallOut ==
    ASSUME TypeInv, outcome = None, UNCHANGED <<st, saved, lag, disk, outcome, restarted, mode>>,
           NEW q \in Requests, NEW n \in 0..MaxRetries, NEW d \in BOOLEAN, Submit(q, n, d),
           \/ st.pc = "sandbox" /\ q = _job
           \/ st.pc = "validate" /\ q = FinalRequest(st.step + 1)
    PROVE  TypeInv'
<1>1. SandboxOK' /\ call' # None /\ call'.request = q
  BY SubmitOK DEF TypeInv
<1>2. CallInv'
  BY <1>1 DEF CallInv, _job, FinalRequest
<1>3. Shape(st, disk)' /\ Shape(saved, disk)'
  BY DEF Shape, TypeInv, PlaceInv
<1>4. DiskInv'
  BY DEF DiskInv, TypeInv, PlaceInv
<1> QED
  BY <1>1, <1>2, <1>3, <1>4 DEF TypeInv, RunTyped, PlaceInv

-----------------------------------------------------------------------------
(* The agent's steps *)

LEMMA ProbeOK ==
    ASSUME TypeInv, mode = "agent", UNCHANGED mode, Probe
    PROVE  TypeInv'
<1> DEFINE q == [job |-> <<"probe", 1>>, test |-> ProbePatch, fix |-> None]
<1>1. WriteTest(ProbePatch) /\ Submit(q, 0, FALSE)
      /\ UNCHANGED <<st, saved, lag, outcome, restarted>>
  BY DEF Probe
<1>2. ProbePatch \in Patches
  OBVIOUS
<1>3. disk \in Disk /\ outcome = None /\ st.pc = "probe" /\ Shape(st, disk) /\ DiskInv
      /\ Shape(saved, disk)
  BY AtPlace DEF Probe, TypeInv, PlaceInv, At
<1>4. disk' \in Disk /\ Grown /\ DiskInv' /\ disk'.test = ProbePatch
  BY <1>1, <1>2, <1>3, WriteTestTyped DEF Grown, DiskInv
<1>5. q \in Requests
  BY <1>2 DEF Requests
<1>6. SandboxOK' /\ call' # None /\ call'.request = q
  <2>1. 0 \in 0..MaxRetries /\ FALSE \in BOOLEAN
    OBVIOUS
  <2> QED
    BY <1>1, <1>5, <2>1, SubmitOK DEF TypeInv
<1>7. Shape(st, disk)' /\ Shape(saved, disk)'
  BY <1>1, <1>3, <1>4, ShapeGrows DEF Shape
<1>8. CallInv'
  BY <1>1, <1>3, <1>4, <1>6 DEF CallInv
<1> QED
  BY <1>1, <1>3, <1>4, <1>6, <1>7, <1>8 DEF TypeInv, RunTyped, PlaceInv

LEMMA LearnProbeOK ==
    ASSUME TypeInv, mode = "agent", UNCHANGED mode, LearnProbe
    PROVE  TypeInv'
<1>1. /\ outcome = None /\ st.pc = "probe" /\ Conclude /\ UNCHANGED restarted
  BY DEF LearnProbe
<1>2. /\ SandboxOK' /\ call' = None
      /\ st \in State /\ disk \in Disk /\ Shape(st, disk) /\ DiskInv /\ CallInv
      /\ call # None
      /\ answer \in Results => call.request \in Requests
  BY <1>1, Concluding
<1>3. CASE answer \notin Results
  <2>1. End("error") /\ UNCHANGED disk
    BY <1>3 DEF LearnProbe
  <2>2. DiskInv'
    BY <1>2, <2>1 DEF DiskInv
  <2> QED
    BY <1>1, <1>2, <2>1, <2>2, Ended DEF Endings
<1>4. CASE answer \in Results
  <2> DEFINE report == ClassifyReproduction(answer)
             found  == report = "reproduced"
             e      == Judged(call.request, answer, report)
  <2>1. WriteResult(e)
    BY <1>4 DEF LearnProbe
  <2>2. e \in Evidence /\ e.report = report /\ e.result = answer
    BY <1>2, <1>4, Classified, JudgedTyped
  <2>3. disk' \in Disk /\ disk'.result = e /\ e # None
        /\ disk'.test = disk.test /\ disk'.fix = disk.fix /\ disk'.repair = disk.repair
    BY <1>2, <2>1, <2>2, WriteResultTyped
  <2>4. disk.test # None
    BY <1>1, <1>2, <1>4 DEF CallInv, Requests
  <2>5. Grown /\ DiskInv'
    BY <2>2, <2>3, <2>4 DEF Grown, DiskInv
  <2>6. CASE End("error")
    BY <1>1, <1>2, <2>3, <2>5, <2>6, Ended DEF Endings
  <2>7. CASE \E s \in TimeSpent(st) :
                Step([s EXCEPT !.pc = "turn",
                               !.phase = IF found THEN "repairing" ELSE "reproducing",
                               !.round = IF found THEN 1 ELSE 0,
                               !.test = found, !.result = found, !.confirmed = found])
    <3>1. PICK s \in TimeSpent(st) :
                Step([s EXCEPT !.pc = "turn",
                               !.phase = IF found THEN "repairing" ELSE "reproducing",
                               !.round = IF found THEN 1 ELSE 0,
                               !.test = found, !.result = found, !.confirmed = found])
      BY <2>7
    <3>2. PICK f \in BOOLEAN : f = found
      OBVIOUS
    <3>3. PICK phase \in {"reproducing", "repairing"} :
                phase = IF f THEN "repairing" ELSE "reproducing"
      OBVIOUS
    <3>4. PICK n \in {0, 1} : n = IF f THEN 1 ELSE 0
      OBVIOUS
    <3> DEFINE new == [s EXCEPT !.pc = "turn", !.phase = phase, !.round = n,
                                !.test = f, !.result = f, !.confirmed = f]
    <3>5. Step(new)
      BY <3>1, <3>2, <3>3, <3>4
    <3>6. s \in State /\ s.fixRound = 0 /\ ~s.fix /\ ~s.repair /\ ~s.fixed /\ s.blocked = None
          /\ s.step = 0 /\ ~s.good
      BY <1>1, <1>2, TimeSpentTyped DEF Shape, AgentShape, Fresh
    <3>7. new \in State
      <4>1. n \in 0..MaxRounds
        OBVIOUS
      <4>2. "turn" \in Places
        BY DEF Places
      <4> QED
        BY <3>6, <4>1, <4>2 DEF State
    <3>8. /\ new.pc = "turn" /\ new.phase = phase /\ new.round = n
          /\ new.test = f /\ new.result = f /\ new.confirmed = f
          /\ ~new.fix /\ ~new.repair /\ ~new.fixed /\ new.blocked = None
          /\ new.step = 0 /\ ~new.good
      BY <3>6 DEF State
    <3> HIDE DEF new
    <3>9. Shape(new, disk')
      BY <2>3, <2>4, <3>3, <3>4, <3>8 DEF Shape, Files, AgentShape, Unblocked
    <3> QED
      BY <1>1, <1>2, <2>3, <2>5, <3>5, <3>7, <3>8, <3>9, Stepped
  <2> QED
    BY <1>4, <2>6, <2>7 DEF LearnProbe
<1> QED
  BY <1>3, <1>4

\* Where a model call begins, and the state it leaves.
LEMMA AtTurn ==
    ASSUME TypeInv, mode = "agent", Turn
    PROVE  /\ outcome = None /\ call = None /\ st.pc = "turn" /\ st.blocked = None
           /\ st \in State /\ disk \in Disk /\ DiskInv
           /\ Shape(st, disk) /\ Files(st, disk) /\ AgentShape(st)
           /\ st.step = 0 /\ ~st.good
           /\ Counted \in State /\ Counted = [st EXCEPT !.calls = st.calls + 1]
<1>1. /\ outcome = None /\ call = None /\ st.pc = "turn" /\ st \in State /\ disk \in Disk
      /\ Shape(st, disk) /\ DiskInv /\ st.calls < MaxModelCalls
  BY AtPlace DEF Turn
<1>2. Counted \in State
  BY <1>1 DEF Counted, State
<1> QED
  BY <1>1, <1>2 DEF Counted, Shape, AgentShape, Unblocked

\* The model calls and the premature answers of a state do not touch its shape.
LEMMA AnswerInTextOK ==
    ASSUME TypeInv, mode = "agent", UNCHANGED mode, AnswerInText
    PROVE  TypeInv'
<1> DEFINE new == [Counted EXCEPT !.texts = @ + 1]
<1>1. Turn /\ UNCHANGED <<sandboxVars, disk, restarted>>
  BY DEF AnswerInText
<1>2. CASE End("error")
  BY <1>1, <1>2, AtTurn, QuietEnd DEF Endings
<1>3. CASE st.texts # 2 /\ Step(new)
  <2>1. new \in State
    BY <1>1, <1>3, AtTurn DEF State
  <2>2. Shape(new, disk) /\ new.step = 0 /\ ~new.good
    BY <1>1, AtTurn DEF Shape, Files, AgentShape, Unblocked, State, Fresh
  <2> HIDE DEF new
  <2> QED
    BY <1>1, <1>3, <2>1, <2>2, AtTurn, QuietStep
<1> QED
  BY <1>2, <1>3 DEF AnswerInText

LEMMA FruitlessTurnOK ==
    ASSUME TypeInv, mode = "agent", UNCHANGED mode, FruitlessTurn
    PROVE  TypeInv'
<1>1. Turn /\ UNCHANGED <<sandboxVars, disk, restarted>>
  BY DEF FruitlessTurn
<1>2. CASE End("error")
  BY <1>1, <1>2, AtTurn, QuietEnd DEF Endings
<1>3. CASE Step(Counted)
  <2>1. Shape(Counted, disk) /\ Counted.step = 0 /\ ~Counted.good
    BY <1>1, AtTurn DEF Shape, Files, AgentShape, Unblocked, State, Fresh
  <2> QED
    BY <1>1, <1>3, <2>1, AtTurn, QuietStep
<1> QED
  BY <1>2, <1>3 DEF FruitlessTurn

LEMMA TurnFailsOK ==
    ASSUME TypeInv, mode = "agent", UNCHANGED mode, ModelCallLimit \/ ModelFails \/ ToolRaises
    PROVE  TypeInv'
BY QuietEnd DEF ModelCallLimit, ModelFails, ToolRaises, Turn, At, Endings

LEMMA SubmitTestEditsOK ==
    ASSUME TypeInv, mode = "agent", UNCHANGED mode, submit_test_edits
    PROVE  TypeInv'
<1>1. Turn /\ UNCHANGED <<sandboxVars, restarted>>
      /\ "submit_test_edits" \in _allowed_tool_names
  BY DEF submit_test_edits, Calls
<1>2. st.phase = "reproducing" /\ ~st.confirmed
  BY <1>1 DEF _allowed_tool_names, READ_ONLY_TOOLS
<1>3. CASE End("error") /\ UNCHANGED disk
  BY <1>1, <1>3, AtTurn, QuietEnd DEF Endings
<1>4. ASSUME st.round # MaxRounds, NEW p \in TestPatches, WriteTest(p),
             Step([Counted EXCEPT !.test = TRUE, !.round = @ + 1,
                                  !.confirmed = FALSE, !.result = FALSE])
      PROVE  TypeInv'
  <2> DEFINE new == [Counted EXCEPT !.test = TRUE, !.round = @ + 1,
                                    !.confirmed = FALSE, !.result = FALSE]
  <2>1. p \in Patches
    OBVIOUS
  <2>2. /\ disk' \in Disk /\ disk'.test = p /\ p # None
        /\ disk'.fix = disk.fix /\ disk'.result = disk.result /\ disk'.repair = disk.repair
    BY <1>1, <1>4, <2>1, AtTurn, WriteTestTyped
  <2>3. Grown /\ DiskInv'
    BY <1>1, <2>2, AtTurn DEF Grown, DiskInv
  <2>4. SandboxOK' /\ call' = None
    BY <1>1, AtTurn DEF TypeInv, SandboxOK, SandboxTypeOK, SandboxInv, sandboxVars
  <2>5. new \in State
    <3>1. st.round + 1 \in 0..MaxRounds /\ Counted.round = st.round
      BY <1>1, <1>4, AtTurn DEF State
    <3> QED
      BY <1>1, <3>1, AtTurn DEF State
  <2>6. Shape(new, disk') /\ new.step = 0 /\ ~new.good
    BY <1>1, <1>2, <2>2, AtTurn DEF Shape, Files, AgentShape, Unblocked, State, Fresh
  <2>7. Step(new)
    BY <1>4
  <2> HIDE DEF new
  <2> QED
    BY <1>1, <2>2, <2>3, <2>4, <2>5, <2>6, <2>7, AtTurn, Stepped
<1> QED
  BY <1>3, <1>4 DEF submit_test_edits

LEMMA SubmitFixEditsOK ==
    ASSUME TypeInv, mode = "agent", UNCHANGED mode, submit_fix_edits
    PROVE  TypeInv'
<1>1. Turn /\ UNCHANGED <<sandboxVars, restarted>>
      /\ "submit_fix_edits" \in _allowed_tool_names
  BY DEF submit_fix_edits, Calls
<1>2. st.phase = "repairing" /\ ~st.fixed
  BY <1>1, AtTurn DEF State, _allowed_tool_names, READ_ONLY_TOOLS
<1>3. CASE End("error") /\ UNCHANGED disk
  BY <1>1, <1>3, AtTurn, QuietEnd DEF Endings
<1>4. ASSUME st.fixRound # MaxRounds, NEW p \in FixPatches, WriteFix(p),
             Step([Counted EXCEPT !.fix = TRUE, !.fixRound = @ + 1,
                                  !.fixed = FALSE, !.repair = FALSE])
      PROVE  TypeInv'
  <2> DEFINE new == [Counted EXCEPT !.fix = TRUE, !.fixRound = @ + 1,
                                    !.fixed = FALSE, !.repair = FALSE]
  <2>1. p \in Patches
    OBVIOUS
  <2>2. /\ disk' \in Disk /\ disk'.fix = p /\ p # None
        /\ disk'.test = disk.test /\ disk'.result = disk.result /\ disk'.repair = disk.repair
    BY <1>1, <1>4, <2>1, AtTurn, WriteFixTyped
  <2>3. Grown /\ DiskInv'
    BY <1>1, <2>2, AtTurn DEF Grown, DiskInv
  <2>4. SandboxOK' /\ call' = None
    BY <1>1, AtTurn DEF TypeInv, SandboxOK, SandboxTypeOK, SandboxInv, sandboxVars
  <2>5. new \in State
    <3>1. st.fixRound + 1 \in 0..MaxRounds /\ Counted.fixRound = st.fixRound
      BY <1>1, <1>4, AtTurn DEF State
    <3> QED
      BY <1>1, <3>1, AtTurn DEF State
  <2>6. Shape(new, disk') /\ new.step = 0 /\ ~new.good
    BY <1>1, <1>2, <2>2, AtTurn DEF Shape, Files, AgentShape, Unblocked, State, Fresh
  <2>7. Step(new)
    BY <1>4
  <2> HIDE DEF new
  <2> QED
    BY <1>1, <2>2, <2>3, <2>4, <2>5, <2>6, <2>7, AtTurn, Stepped
<1> QED
  BY <1>3, <1>4 DEF submit_fix_edits

LEMMA RunSandboxOK ==
    ASSUME TypeInv, mode = "agent", UNCHANGED mode, run_sandbox
    PROVE  TypeInv'
<1> DEFINE new == [Counted EXCEPT !.pc = "sandbox"]
<1>1. Turn /\ UNCHANGED <<sandboxVars, disk, restarted>>
      /\ "run_sandbox" \in _allowed_tool_names
  BY DEF run_sandbox, Calls
<1>2. IF st.phase = "reproducing" THEN st.test /\ ~st.result ELSE st.fix /\ ~st.repair
  BY <1>1 DEF _allowed_tool_names, READ_ONLY_TOOLS
<1>3. CASE End("error")
  BY <1>1, <1>3, AtTurn, QuietEnd DEF Endings
<1>4. CASE Step(new)
  <2>1. "sandbox" \in Places
    BY DEF Places
  <2>2. new \in State
    BY <1>1, <2>1, AtTurn DEF State
  <2>3. Shape(new, disk) /\ new.step = 0 /\ ~new.good
    BY <1>1, <1>2, AtTurn DEF Shape, Files, AgentShape, Unblocked, State, Fresh
  <2> HIDE DEF new
  <2> QED
    BY <1>1, <1>4, <2>2, <2>3, AtTurn, QuietStep
<1> QED
  BY <1>3, <1>4 DEF run_sandbox

LEMMA SubmitJobOK ==
    ASSUME TypeInv, mode = "agent", UNCHANGED mode, SubmitJob
    PROVE  TypeInv'
<1>1. /\ outcome = None /\ st.pc = "sandbox" /\ st \in State /\ disk \in Disk
      /\ Files(st, disk) /\ AgentShape(st)
  BY AtPlace DEF SubmitJob, Shape
<1>2. disk.test \in Patches
  BY <1>1 DEF State, AgentShape, Unblocked, Files, Disk
<1>3. _job \in Requests
  <2>1. CASE st.phase = "reproducing"
    BY <1>1, <1>2, <2>1 DEF State, AgentShape, Files, Requests, _job
  <2>2. CASE st.phase = "repairing"
    BY <1>1, <1>2, <2>2 DEF State, AgentShape, Files, Requests, Disk, _job
  <2> QED
    BY <1>1, <2>1, <2>2 DEF State
<1>4. Submit(_job, MaxRetries, FALSE) /\ UNCHANGED <<st, saved, lag, disk, outcome, restarted>>
  BY DEF SubmitJob
<1>5. MaxRetries \in 0..MaxRetries /\ FALSE \in BOOLEAN
  OBVIOUS
<1> QED
  BY <1>1, <1>3, <1>4, <1>5, CallOut

LEMMA LearnResultOK ==
    ASSUME TypeInv, mode = "agent", UNCHANGED mode, LearnResult
    PROVE  TypeInv'
<1>1. /\ outcome = None /\ st.pc = "sandbox" /\ Conclude /\ UNCHANGED restarted
  BY DEF LearnResult
<1>2. /\ SandboxOK' /\ call' = None
      /\ st \in State /\ disk \in Disk /\ Shape(st, disk) /\ DiskInv
      /\ Files(st, disk) /\ AgentShape(st) /\ st.step = 0 /\ ~st.good
      /\ answer \in Results => call.request \in Requests
  BY <1>1, Concluding DEF Shape
<1>3. disk.test # None /\ "turn" \in Places
  BY <1>1, <1>2 DEF State, AgentShape, Unblocked, Files, Places
<1>4. CASE answer \notin Results
  <2>1. End("error") /\ UNCHANGED disk
    BY <1>4 DEF LearnResult
  <2>2. DiskInv'
    BY <1>2, <2>1 DEF DiskInv
  <2> QED
    BY <1>1, <1>2, <2>1, <2>2, Ended DEF Endings
<1>5. CASE answer \in Results /\ st.phase = "reproducing"
  <2> DEFINE report == ClassifyReproduction(answer)
             e      == Judged(call.request, answer, report)
  <2>1. PICK s \in TimeSpent(st) :
           /\ WriteResult(e)
           /\ Step([s EXCEPT !.pc = "turn", !.result = TRUE,
                             !.confirmed = report = "reproduced"])
    BY <1>5 DEF LearnResult
  <2>2. e \in Evidence /\ e.report = report /\ e.result = answer
    BY <1>2, <1>5, Classified, JudgedTyped
  <2>3. disk' \in Disk /\ disk'.result = e /\ e # None
        /\ disk'.test = disk.test /\ disk'.fix = disk.fix /\ disk'.repair = disk.repair
    BY <1>2, <2>1, <2>2, WriteResultTyped
  <2>4. Grown /\ DiskInv'
    BY <1>3, <2>2, <2>3 DEF Grown, DiskInv
  <2>5. PICK c \in BOOLEAN : c = (report = "reproduced")
    OBVIOUS
  <2> DEFINE new == [s EXCEPT !.pc = "turn", !.result = TRUE, !.confirmed = c]
  <2>6. Step(new)
    BY <2>1, <2>5
  <2>7. new \in State
    <3>1. s \in State
      BY <1>2, TimeSpentTyped
    <3> QED
      BY <1>3, <3>1 DEF State
  <2>8. Shape(new, disk') /\ new.step = 0 /\ ~new.good
    BY <1>1, <1>2, <1>5, <2>3, <2>7, TimeSpentTyped
    DEF Shape, Files, AgentShape, Unblocked, State
  <2> HIDE DEF new
  <2> QED
    BY <1>1, <1>2, <2>3, <2>4, <2>6, <2>7, <2>8, Stepped
<1>6. CASE answer \in Results /\ st.phase # "reproducing"
  <2> DEFINE report == ClassifyTarget(answer)
             e      == Judged(call.request, answer, report)
  <2>1. PICK s \in TimeSpent(st) :
           /\ WriteRepair(e)
           /\ Step([s EXCEPT !.pc = "turn", !.repair = TRUE,
                             !.fixed = report = "target_passed"])
    BY <1>6 DEF LearnResult
  <2>2. e \in Evidence
    BY <1>2, <1>6, Classified, JudgedTyped
  <2>3. disk' \in Disk /\ disk'.repair = e /\ e # None
        /\ disk'.test = disk.test /\ disk'.fix = disk.fix /\ disk'.result = disk.result
    BY <1>2, <2>1, <2>2, WriteRepairTyped
  <2>4. Grown /\ DiskInv'
    BY <1>2, <2>3 DEF Grown, DiskInv
  <2>5. PICK c \in BOOLEAN : c = (report = "target_passed")
    OBVIOUS
  <2> DEFINE new == [s EXCEPT !.pc = "turn", !.repair = TRUE, !.fixed = c]
  <2>6. Step(new)
    BY <2>1, <2>5
  <2>7. new \in State
    <3>1. s \in State
      BY <1>2, TimeSpentTyped
    <3> QED
      BY <1>3, <3>1 DEF State
  <2>8. Shape(new, disk') /\ new.step = 0 /\ ~new.good
    BY <1>1, <1>2, <1>6, <2>3, <2>7, TimeSpentTyped
    DEF Shape, Files, AgentShape, Unblocked, State
  <2> HIDE DEF new
  <2> QED
    BY <1>1, <1>2, <2>3, <2>4, <2>6, <2>7, <2>8, Stepped
<1> QED
  BY <1>4, <1>5, <1>6

LEMMA CompleteOK ==
    ASSUME TypeInv, mode = "agent", UNCHANGED mode, complete_reproduction \/ complete_repair
    PROVE  TypeInv'
<1>1. Turn /\ UNCHANGED <<sandboxVars, disk, restarted>>
  BY DEF complete_reproduction, complete_repair, Calls
<1>2. CASE complete_reproduction
  <2> DEFINE new == [Counted EXCEPT !.phase = "repairing"]
  <2>1. st.phase = "reproducing" /\ st.confirmed
    BY <1>1, <1>2, AtTurn
    DEF complete_reproduction, Calls, State, _allowed_tool_names, READ_ONLY_TOOLS
  <2>2. new \in State
    BY <1>1, AtTurn DEF State
  <2>3. Shape(new, disk) /\ new.step = 0 /\ ~new.good
    BY <1>1, <2>1, AtTurn DEF Shape, Files, AgentShape, Unblocked, State
  <2>4. Step(new)
    BY <1>2 DEF complete_reproduction
  <2> HIDE DEF new
  <2> QED
    BY <1>1, <2>2, <2>3, <2>4, AtTurn, QuietStep
<1>3. CASE complete_repair
  <2> DEFINE new == [Counted EXCEPT !.pc = "finish_reproduction"]
  <2>1. st.phase = "repairing" /\ st.fixed
    BY <1>1, <1>3, AtTurn
    DEF complete_repair, Calls, State, _allowed_tool_names, READ_ONLY_TOOLS
  <2>2. new \in State
    <3>1. "finish_reproduction" \in Places
      BY DEF Places
    <3> QED
      BY <1>1, <3>1, AtTurn DEF State
  <2>3. Shape(new, disk) /\ new.step = 0 /\ ~new.good
    BY <1>1, <2>1, AtTurn DEF Shape, Files, AgentShape, Unblocked, State
  <2>4. Step(new)
    BY <1>3 DEF complete_repair
  <2> HIDE DEF new
  <2> QED
    BY <1>1, <2>2, <2>3, <2>4, AtTurn, QuietStep
<1> QED
  BY <1>2, <1>3

LEMMA ReportBlockedOK ==
    ASSUME TypeInv, mode = "agent", UNCHANGED mode, report_blocked
    PROVE  TypeInv'
<1>1. Turn /\ UNCHANGED <<sandboxVars, restarted>>
  BY DEF report_blocked
<1>2. PICK code \in BlockedCodes :
         /\ Justified(code)
         /\ disk' = IF st.phase = "repairing" /\ code = "needs_human"
                    THEN [disk EXCEPT !.repair.report = "needs_human"] ELSE disk
         /\ Step([Counted EXCEPT !.blocked = code, !.pc = route_after_repair_agent(code)])
  BY DEF report_blocked
<1>3. PICK place \in {"finish_reproduction", "finish_agent_blocked"} :
         place = route_after_repair_agent(code)
  BY DEF route_after_repair_agent
<1> DEFINE new == [Counted EXCEPT !.blocked = code, !.pc = place]
<1>4. Step(new)
  BY <1>2, <1>3
<1>5. code # None /\ place \in Places
  BY DEF Places
<1>6. new \in State
  BY <1>1, <1>5, AtTurn DEF State
<1>7. /\ disk' \in Disk /\ Grown
      /\ disk'.test = disk.test /\ disk'.fix = disk.fix /\ disk'.result = disk.result
  <2>1. CASE disk' = disk
    BY <1>1, <2>1, AtTurn DEF Grown
  <2>2. CASE st.phase = "repairing" /\ code = "needs_human"
    <3>1. disk.repair \in Evidence
      BY <1>1, <1>2, <2>2, AtTurn DEF Justified, BlockedCodes, Files, Disk
    <3>2. [disk.repair EXCEPT !.report = "needs_human"] \in Evidence
      BY <3>1 DEF Evidence, Dispositions
    <3>3. disk' = [disk EXCEPT !.repair = [disk.repair EXCEPT !.report = "needs_human"]]
      BY <1>2, <2>2
    <3> QED
      BY <1>1, <3>2, <3>3, AtTurn DEF Disk, Grown
  <2> QED
    BY <1>2, <2>1, <2>2
<1>8. DiskInv'
  BY <1>1, <1>7, AtTurn DEF DiskInv
<1>9. SandboxOK' /\ call' = None
  BY <1>1, AtTurn DEF TypeInv, SandboxOK, SandboxTypeOK, SandboxInv, sandboxVars
<1>10. Files(new, disk') /\ new.step = 0 /\ ~new.good
  BY <1>1, <1>7, AtTurn DEF Grown, Files, State
<1>11. AgentShape(new)
  <2>1. code = "cannot_reproduce" => st.phase = "reproducing" /\ st.round = MaxRounds
    BY <1>2 DEF Justified
  <2>2. /\ place = "finish_reproduction" =>
              \/ st.phase = "repairing" /\ st.repair
              \/ code = "cannot_reproduce" /\ st.result
        /\ place = "finish_agent_blocked" => ~(code = "cannot_reproduce" /\ st.result)
    BY <1>3 DEF route_after_repair_agent
  <2> QED
    BY <1>1, <1>5, <2>1, <2>2, AtTurn DEF AgentShape, Unblocked, State
<1>12. Shape(new, disk')
  BY <1>10, <1>11 DEF Shape
<1> HIDE DEF new
<1> QED
  BY <1>1, <1>4, <1>6, <1>7, <1>8, <1>9, <1>10, <1>12, AtTurn, Stepped

LEMMA FinishAgentBlockedOK ==
    ASSUME TypeInv, mode = "agent", UNCHANGED mode, FinishAgentBlocked
    PROVE  TypeInv'
BY QuietEnd DEF FinishAgentBlocked, At, Endings

-----------------------------------------------------------------------------
(* The nodes both loops share *)

LEMMA FinishReproductionOK ==
    ASSUME TypeInv, UNCHANGED mode, NEW place, FinishReproduction(place),
           \/ mode = "agent" /\ place = route_after_agent_reproduction_finish
           \/ mode = "fixed" /\ place = "fix_edit"
    PROVE  TypeInv'
<1> DEFINE new == [st EXCEPT !.phase = "repairing", !.pc = place]
<1>1. /\ outcome = None /\ call = None /\ st.pc = "finish_reproduction"
      /\ st \in State /\ disk \in Disk /\ Shape(st, disk) /\ DiskInv
      /\ UNCHANGED <<sandboxVars, disk, restarted>>
  BY AtPlace DEF FinishReproduction
<1>2. CASE End("security_rejected") \/ End("cannot_reproduce")
  BY <1>1, <1>2, QuietEnd DEF Endings
<1>3. CASE ReproductionMade /\ Step(new)
  <2>1. new \in State
    <3>1. place \in Places
      BY DEF Places, route_after_agent_reproduction_finish
    <3> QED
      BY <1>1, <3>1 DEF State
  <2>2. /\ new.pc = place /\ new.phase = "repairing"
        /\ new.test = st.test /\ new.fix = st.fix /\ new.result = st.result
        /\ new.repair = st.repair /\ new.confirmed = st.confirmed /\ new.fixed = st.fixed
        /\ new.blocked = st.blocked /\ new.round = st.round /\ new.fixRound = st.fixRound
        /\ new.step = st.step /\ new.good = st.good
    BY <1>1 DEF State
  <2>3. Files(new, disk) /\ new.step = 0 /\ ~new.good
    BY <1>1, <2>2 DEF Shape, Files
  <2>4. CASE mode = "agent" /\ place = route_after_agent_reproduction_finish
    <3>1. AgentShape(new)
      BY <1>1, <2>2, <2>4
      DEF route_after_agent_reproduction_finish, Shape, AgentShape, Unblocked
    <3> HIDE DEF new
    <3> QED
      BY <1>1, <1>3, <2>1, <2>3, <2>4, <3>1, QuietStep DEF Shape
  <2>5. CASE mode = "fixed" /\ place = "fix_edit"
    <3>1. disk.test # None
      BY <1>1, <1>3, <2>5, Classified
      DEF ReproductionMade, DiskInv, Shape, Files, FixedShape, AllResults
    <3>2. FixedShape(new, disk)
      BY <1>1, <2>2, <2>5, <3>1 DEF Shape, FixedShape
    <3> HIDE DEF new
    <3> QED
      BY <1>1, <1>3, <2>1, <2>3, <2>5, <3>2, QuietStep DEF Shape
  <2> QED
    BY <2>4, <2>5
<1> QED
  BY <1>2, <1>3 DEF FinishReproduction

LEMMA FinishRepairSuccessOK ==
    ASSUME TypeInv, UNCHANGED mode, FinishRepairSuccess
    PROVE  TypeInv'
<1> DEFINE new == [st EXCEPT !.pc = "validate"]
<1>1. /\ outcome = None /\ call = None /\ st.pc = "finish_repair_success"
      /\ st \in State /\ disk \in Disk /\ Shape(st, disk)
      /\ UNCHANGED <<sandboxVars, disk, restarted>>
  BY AtPlace DEF FinishRepairSuccess
<1>2. CASE End("error")
  BY <1>1, <1>2, QuietEnd DEF Endings
<1>3. CASE Step(new)
  <2>1. "validate" \in Places
    BY DEF Places
  <2>2. new \in State
    BY <1>1, <2>1 DEF State
  <2>3. Shape(new, disk) /\ new.step = 0 /\ ~new.good
    BY <1>1, <2>2 DEF Shape, Files, AgentShape, FixedShape, Unblocked, State
  <2> HIDE DEF new
  <2> QED
    BY <1>1, <1>3, <2>2, <2>3, QuietStep
<1> QED
  BY <1>2, <1>3 DEF FinishRepairSuccess

LEMMA FinishRepairFailureOK ==
    ASSUME TypeInv, UNCHANGED mode, FinishRepairFailure
    PROVE  TypeInv'
<1> DEFINE how == IF ~st.repair THEN "error"
                  ELSE IF disk.repair.report \in {"needs_human", "security_rejected"}
                       THEN disk.repair.report ELSE "failed"
<1>1. how \in Endings
  BY DEF Endings
<1>2. call = None /\ End(how) /\ UNCHANGED <<sandboxVars, disk, restarted>>
  BY DEF FinishRepairFailure, At
<1> HIDE DEF how
<1> QED
  BY <1>1, <1>2, QuietEnd

LEMMA ValidationBudgetOK ==
    ASSUME TypeInv, UNCHANGED mode, ValidationBudget
    PROVE  TypeInv'
BY QuietEnd DEF ValidationBudget, At, Endings

\* A patch under validation has its test.
LEMMA TestToValidate ==
    ASSUME TypeInv, outcome = None, st.pc = "validate"
    PROVE  disk.test \in Patches /\ st.step + 1 \in 1..3
<1>1. mode = "agent" \/ mode = "fixed"
  BY DEF TypeInv
<1> QED
  BY <1>1 DEF TypeInv, RunTyped, PlaceInv, Shape, AgentShape, FixedShape, Files, State, Disk

LEMMA SubmitFinalOK ==
    ASSUME TypeInv, UNCHANGED mode, SubmitFinal
    PROVE  TypeInv'
<1>1. /\ outcome = None /\ st.pc = "validate" /\ disk \in Disk
      /\ UNCHANGED <<st, saved, lag, disk, outcome, restarted>>
      /\ Submit(FinalRequest(st.step + 1), MaxRetries, TRUE)
  BY AtPlace DEF SubmitFinal
<1>2. FinalRequest(st.step + 1) \in Requests
  BY <1>1, TestToValidate DEF FinalRequest, Requests, Disk
<1>3. MaxRetries \in 0..MaxRetries /\ TRUE \in BOOLEAN
  OBVIOUS
<1> QED
  BY <1>1, <1>2, <1>3, CallOut

LEMMA LearnFinalOK ==
    ASSUME TypeInv, UNCHANGED mode, LearnFinal
    PROVE  TypeInv'
<1>1. /\ outcome = None /\ st.pc = "validate" /\ Conclude /\ UNCHANGED <<disk, restarted>>
  BY DEF LearnFinal
<1>2. /\ SandboxOK' /\ call' = None /\ st \in State /\ disk' \in Disk
      /\ Shape(st, disk) /\ DiskInv'
  BY <1>1, Concluding DEF DiskInv
<1>3. ASSUME NEW how \in Endings, End(how)
      PROVE  TypeInv'
  BY <1>1, <1>2, <1>3, Ended
<1>4. CASE \E how \in Endings : End(how)
  BY <1>3, <1>4
<1>5. ASSUME NEW g \in BOOLEAN, NEW s \in TimeSpent([st EXCEPT !.step = st.step + 1, !.good = g]),
             st.step + 1 < 3, Within(s)
      PROVE  TypeInv'
  <2> DEFINE r == [st EXCEPT !.step = st.step + 1, !.good = g]
  <2>1. r \in State /\ r.pc = "validate"
    <3>1. st.step + 1 \in 0..3
      BY <1>2, <1>5 DEF State
    <3> QED
      BY <1>1, <1>2, <3>1 DEF State
  <2>2. Shape(r, disk)
    BY <1>1, <1>2, <1>5 DEF Shape, Files, AgentShape, FixedShape, Unblocked, State
  <2> HIDE DEF r
  <2>3. s \in TimeSpent(r)
    BY <1>5 DEF r
  <2>4. s \in State /\ Shape(s, disk) /\ s.pc = "validate"
    BY <2>1, <2>2, <2>3, TimeSpentTyped
    DEF Shape, Files, AgentShape, FixedShape, Unblocked, Fresh
  <2>5. st' = s /\ UNCHANGED <<saved, lag, outcome>>
    BY <1>5 DEF Within
  <2>6. Shape(st, disk)' /\ Shape(saved, disk)'
    BY <1>1, <2>4, <2>5 DEF Shape, TypeInv, PlaceInv
  <2> QED
    BY <1>1, <1>2, <2>4, <2>5, <2>6 DEF TypeInv, RunTyped, PlaceInv, CallInv
<1>6. CASE answer \notin Results
  BY <1>3, <1>6 DEF LearnFinal, Endings
<1>7. CASE answer \in Results
  <2> DEFINE k == st.step + 1
  <2>1. PICK g \in BOOLEAN : g = (Good(k, answer) /\ (k = 1 \/ st.good))
    OBVIOUS
  <2>2. PICK s \in TimeSpent([st EXCEPT !.step = k, !.good = g]) :
           IF k < 3 THEN Within(s)
           ELSE End(IF s.spent THEN "budget_exhausted"
                    ELSE IF g THEN "validated" ELSE "rejected")
    BY <1>7, <2>1 DEF LearnFinal
  <2>3. (IF s.spent THEN "budget_exhausted" ELSE IF g THEN "validated" ELSE "rejected")
            \in Endings
    BY DEF Endings
  <2> QED
    BY <1>3, <1>5, <2>2, <2>3
<1> QED
  BY <1>6, <1>7

LEMMA ProcessDiesOK ==
    ASSUME TypeInv, UNCHANGED mode, ProcessDies
    PROVE  TypeInv'
<1>1. SandboxOK' /\ call' = None
  BY CallerDiesOK DEF ProcessDies, TypeInv
<1>2. /\ outcome = None /\ restarted' = TRUE /\ st' = saved /\ lag' = 0
      /\ UNCHANGED <<saved, disk, outcome>>
  BY DEF ProcessDies
<1>3. Shape(st, disk)' /\ Shape(saved, disk)'
  BY <1>2 DEF Shape, TypeInv, PlaceInv
<1> QED
  BY <1>1, <1>2, <1>3 DEF TypeInv, RunTyped, PlaceInv, CallInv, DiskInv

LEMMA ServiceStepOK ==
    ASSUME TypeInv, UNCHANGED mode, ServiceStep
    PROVE  TypeInv'
<1>1. /\ SandboxOK'
      /\ call = None => call' = None
      /\ call # None => call' # None /\ call'.request = call.request
      /\ UNCHANGED <<st, saved, lag, disk, outcome, restarted>>
  BY ServiceOK DEF ServiceStep, TypeInv
<1>2. outcome = None => Shape(st, disk)' /\ Shape(saved, disk)'
  BY <1>1 DEF Shape, TypeInv, PlaceInv
<1>3. outcome = None => CallInv'
  BY <1>1 DEF CallInv, _job, FinalRequest, TypeInv, PlaceInv
<1> QED
  BY <1>1, <1>2, <1>3 DEF TypeInv, RunTyped, PlaceInv, DiskInv

-----------------------------------------------------------------------------
(* The fixed loop's steps *)

\* Where a node of the fixed loop begins.
LEMMA AtNode ==
    ASSUME TypeInv, mode = "fixed", NEW place, At(place), place # "validate"
    PROVE  /\ outcome = None /\ call = None /\ st.pc = place
           /\ st \in State /\ disk \in Disk /\ DiskInv
           /\ Files(st, disk) /\ FixedShape(st, disk) /\ st.step = 0 /\ ~st.good
BY AtPlace DEF Shape

LEMMA FixedHasShape ==
    ASSUME mode = "fixed", NEW s, NEW d, Files(s, d), FixedShape(s, d), s.step = 0, ~s.good
    PROVE  Shape(s, d)
BY DEF Shape

LEMMA SandboxQuiet ==
    ASSUME TypeInv, call = None, UNCHANGED sandboxVars
    PROVE  SandboxOK' /\ call' = None
BY DEF TypeInv, SandboxOK, SandboxTypeOK, SandboxInv, sandboxVars

LEMMA PlanReproductionOK ==
    ASSUME TypeInv, mode = "fixed", UNCHANGED mode, PlanReproduction
    PROVE  TypeInv'
<1> DEFINE new == [st EXCEPT !.pc = "test_edit"]
<1>1. /\ outcome = None /\ call = None /\ st.pc = "plan" /\ st \in State
      /\ Files(st, disk) /\ FixedShape(st, disk) /\ st.step = 0 /\ ~st.good
      /\ UNCHANGED <<sandboxVars, disk, restarted>>
  BY AtNode DEF PlanReproduction
<1>2. CASE End("error")
  BY <1>1, <1>2, QuietEnd DEF Endings
<1>3. CASE Step(new)
  <2>1. "test_edit" \in Places
    BY DEF Places
  <2>2. new \in State
    BY <1>1, <2>1 DEF State
  <2>3. Files(new, disk) /\ FixedShape(new, disk) /\ new.step = 0 /\ ~new.good
    BY <1>1 DEF Files, FixedShape, State
  <2> HIDE DEF new
  <2> QED
    BY <1>1, <1>3, <2>2, <2>3, FixedHasShape, QuietStep
<1> QED
  BY <1>2, <1>3 DEF PlanReproduction

LEMMA GenerateTestEditOK ==
    ASSUME TypeInv, mode = "fixed", UNCHANGED mode, GenerateTestEdit
    PROVE  TypeInv'
<1> DEFINE round == st.round + 1
<1>1. /\ outcome = None /\ call = None /\ st.pc = "test_edit" /\ st \in State /\ disk \in Disk
      /\ DiskInv /\ Files(st, disk) /\ FixedShape(st, disk) /\ st.step = 0 /\ ~st.good
      /\ UNCHANGED restarted /\ SandboxOK' /\ call' = None
  BY AtNode, SandboxQuiet DEF GenerateTestEdit
<1>2. round \in 0..MaxRounds /\ round > 0
  BY <1>1 DEF State, FixedShape
<1>3. CASE End("error") /\ UNCHANGED disk
  BY <1>1, <1>3, QuietEnd DEF Endings, GenerateTestEdit
<1>4. CASE TestSubmitted(round)
  <2> DEFINE new == [st EXCEPT !.pc = "sandbox", !.test = TRUE, !.round = round]
  <2>1. PICK p \in TestPatches : WriteTest(p) /\ Step(new)
    BY <1>4 DEF TestSubmitted, generate_reproduction_test
  <2>2. p \in Patches /\ "sandbox" \in Places
    BY DEF Places
  <2>3. /\ disk' \in Disk /\ disk'.test = p /\ p # None
        /\ disk'.fix = disk.fix /\ disk'.result = disk.result /\ disk'.repair = disk.repair
    BY <1>1, <2>1, <2>2, WriteTestTyped
  <2>4. Grown /\ DiskInv'
    BY <1>1, <2>3 DEF Grown, DiskInv
  <2>5. new \in State
    BY <1>1, <1>2, <2>2 DEF State
  <2>6. Files(new, disk') /\ FixedShape(new, disk') /\ new.step = 0 /\ ~new.good
    BY <1>1, <1>2, <2>3 DEF Files, FixedShape, State
  <2> HIDE DEF new, round
  <2> QED
    BY <1>1, <2>1, <2>3, <2>4, <2>5, <2>6, FixedHasShape, Stepped
<1>5. CASE TestRefused(round)
  <2>1. PICK report \in {"invalid_test", "security_rejected"} :
           /\ WriteResult(Synthetic(report))
           /\ Step([st EXCEPT !.pc = AfterReproduction(report, round), !.test = FALSE,
                              !.result = TRUE, !.round = round])
    BY <1>5 DEF TestRefused
  <2>2. PICK place \in {"test_edit", "finish_reproduction"} :
           /\ place = AfterReproduction(report, round)
           /\ place = "test_edit" => round < MaxRounds
    BY DEF AfterReproduction, Revise
  <2> DEFINE new == [st EXCEPT !.pc = place, !.test = FALSE, !.result = TRUE, !.round = round]
  <2>3. Step(new)
    BY <2>1, <2>2
  <2>4. Synthetic(report) \in Evidence /\ Synthetic(report).report # "reproduced"
        /\ Synthetic(report).result = None
    BY SyntheticTyped DEF Dispositions
  <2>5. /\ disk' \in Disk /\ disk'.result = Synthetic(report) /\ disk'.result # None
        /\ disk'.test = disk.test /\ disk'.fix = disk.fix /\ disk'.repair = disk.repair
    BY <1>1, <2>1, <2>4, WriteResultTyped
  <2>6. Grown /\ DiskInv'
    BY <1>1, <2>4, <2>5 DEF Grown, DiskInv
  <2>7. new \in State
    <3>1. place \in Places
      BY DEF Places
    <3> QED
      BY <1>1, <1>2, <3>1 DEF State
  <2>8. Files(new, disk') /\ FixedShape(new, disk') /\ new.step = 0 /\ ~new.good
    BY <1>1, <1>2, <2>2, <2>5 DEF Files, FixedShape, State
  <2> HIDE DEF new, round
  <2> QED
    BY <1>1, <2>3, <2>5, <2>6, <2>7, <2>8, FixedHasShape, Stepped
<1> QED
  BY <1>3, <1>4, <1>5 DEF GenerateTestEdit

LEMMA FixedSubmitOK ==
    ASSUME TypeInv, mode = "fixed", UNCHANGED mode, SubmitReproduction \/ SubmitTarget
    PROVE  TypeInv'
<1>1. /\ outcome = None /\ st.pc = "sandbox" /\ st \in State /\ disk \in Disk
      /\ Files(st, disk) /\ FixedShape(st, disk)
      /\ UNCHANGED <<st, saved, lag, disk, outcome, restarted>>
  BY AtNode DEF SubmitReproduction, SubmitTarget
<1>2. Submit(_job, MaxRetries, TRUE)
  BY DEF SubmitReproduction, SubmitTarget, _job
<1>3. disk.test \in Patches
  BY <1>1 DEF State, FixedShape, Files, Disk
<1>4. _job \in Requests
  <2>1. CASE st.phase = "reproducing"
    BY <1>1, <1>3, <2>1 DEF State, FixedShape, Files, Requests, _job
  <2>2. CASE st.phase = "repairing"
    BY <1>1, <1>3, <2>2 DEF State, FixedShape, Files, Requests, Disk, _job
  <2> QED
    BY <1>1, <2>1, <2>2 DEF State
<1>5. MaxRetries \in 0..MaxRetries /\ TRUE \in BOOLEAN
  OBVIOUS
<1> QED
  BY <1>1, <1>2, <1>4, <1>5, CallOut

LEMMA LearnReproductionOK ==
    ASSUME TypeInv, mode = "fixed", UNCHANGED mode, LearnReproduction
    PROVE  TypeInv'
<1>1. /\ outcome = None /\ st.pc = "sandbox" /\ st.phase = "reproducing" /\ Conclude
      /\ UNCHANGED restarted
  BY DEF LearnReproduction
<1>2. /\ SandboxOK' /\ call' = None
      /\ st \in State /\ disk \in Disk /\ DiskInv
      /\ Files(st, disk) /\ FixedShape(st, disk) /\ st.step = 0 /\ ~st.good
      /\ answer \in Results => call.request \in Requests
  BY <1>1, Concluding DEF Shape
<1>3. disk.test # None /\ "classify" \in Places /\ st.round > 0
  BY <1>1, <1>2 DEF State, FixedShape, Files, Places
<1>4. CASE answer \notin Results
  <2>1. End("error") /\ UNCHANGED disk
    BY <1>4 DEF LearnReproduction
  <2>2. DiskInv'
    BY <1>2, <2>1 DEF DiskInv
  <2> QED
    BY <1>1, <1>2, <2>1, <2>2, Ended DEF Endings
<1>5. CASE answer \in Results
  <2> DEFINE e   == Judged(call.request, answer, None)
             new == [st EXCEPT !.pc = "classify", !.result = TRUE]
  <2>1. WriteResult(e) /\ Step(new)
    BY <1>5 DEF LearnReproduction
  <2>2. e \in Evidence /\ e.report = None /\ e.result = answer
    BY <1>2, <1>5, JudgedTyped
  <2>3. disk' \in Disk /\ disk'.result = e /\ e # None
        /\ disk'.test = disk.test /\ disk'.fix = disk.fix /\ disk'.repair = disk.repair
    BY <1>2, <2>1, <2>2, WriteResultTyped
  <2>4. Grown /\ DiskInv'
    BY <1>3, <2>2, <2>3 DEF Grown, DiskInv, Dispositions
  <2>5. new \in State
    BY <1>2, <1>3 DEF State
  <2>6. Files(new, disk') /\ FixedShape(new, disk') /\ new.step = 0 /\ ~new.good
    BY <1>1, <1>2, <1>3, <2>3 DEF Files, FixedShape, State
  <2> HIDE DEF new
  <2> QED
    BY <1>1, <1>2, <2>1, <2>3, <2>4, <2>5, <2>6, FixedHasShape, Stepped
<1> QED
  BY <1>4, <1>5

LEMMA ClassifyReproductionResultOK ==
    ASSUME TypeInv, mode = "fixed", UNCHANGED mode, ClassifyReproductionResult
    PROVE  TypeInv'
<1> DEFINE report == ClassifyReproduction(disk.result.result)
           e      == [disk.result EXCEPT !.report = report]
<1>1. /\ outcome = None /\ call = None /\ st.pc = "classify" /\ st \in State /\ disk \in Disk
      /\ DiskInv /\ Files(st, disk) /\ FixedShape(st, disk) /\ st.step = 0 /\ ~st.good
      /\ UNCHANGED restarted /\ SandboxOK' /\ call' = None
  BY AtNode, SandboxQuiet DEF ClassifyReproductionResult
<1>2. PICK place \in {"test_edit", "finish_reproduction"} :
         /\ place = AfterReproduction(report, st.round)
         /\ place = "test_edit" => st.round < MaxRounds
  BY DEF AfterReproduction, Revise
<1> DEFINE new == [st EXCEPT !.pc = place]
<1>3. Step(new) /\ disk' = [disk EXCEPT !.result = e]
  BY <1>2 DEF ClassifyReproductionResult
<1>4. disk.result \in Evidence /\ report \in Dispositions
  BY <1>1, Classified DEF Files, FixedShape, Disk
<1>5. /\ e \in Evidence /\ e.result = disk.result.result /\ e.report = report
  BY <1>4 DEF Evidence
<1>6. /\ disk' \in Disk /\ disk'.result = e /\ e # None
      /\ disk'.test = disk.test /\ disk'.fix = disk.fix /\ disk'.repair = disk.repair
  BY <1>1, <1>3, <1>5 DEF Disk
<1>7. Grown /\ DiskInv'
  BY <1>1, <1>4, <1>5, <1>6 DEF Grown, DiskInv
<1>8. new \in State
  <2>1. place \in Places
    BY DEF Places
  <2> QED
    BY <1>1, <2>1 DEF State
<1>9. Files(new, disk') /\ FixedShape(new, disk') /\ new.step = 0 /\ ~new.good
  BY <1>1, <1>2, <1>6 DEF Files, FixedShape, State
<1> HIDE DEF new, e
<1> QED
  BY <1>1, <1>3, <1>6, <1>7, <1>8, <1>9, FixedHasShape, Stepped

LEMMA AfterTargetPlaces ==
    ASSUME NEW report, NEW round
    PROVE  /\ AfterTarget(report, round) \in
                 {"fix_edit", "finish_repair_success", "finish_repair_failure"}
           /\ AfterTarget(report, round) = "fix_edit" =>
                 round < MaxRounds /\ report # "target_passed"
           /\ AfterTarget(report, round) = "finish_repair_success" <=> report = "target_passed"
BY DEF AfterTarget, Revise

LEMMA GenerateFixEditOK ==
    ASSUME TypeInv, mode = "fixed", UNCHANGED mode, GenerateFixEdit
    PROVE  TypeInv'
<1> DEFINE round == st.fixRound + 1
<1>1. /\ outcome = None /\ call = None /\ st.pc = "fix_edit" /\ st \in State /\ disk \in Disk
      /\ DiskInv /\ Files(st, disk) /\ FixedShape(st, disk) /\ st.step = 0 /\ ~st.good
      /\ UNCHANGED restarted /\ SandboxOK' /\ call' = None
  BY AtNode, SandboxQuiet DEF GenerateFixEdit
<1>2. round \in 0..MaxRounds /\ round > 0
  BY <1>1 DEF State, FixedShape
<1>3. CASE (End("error") /\ UNCHANGED disk) \/ BudgetSpent
  BY <1>1, <1>3, QuietEnd DEF Endings, GenerateFixEdit, BudgetSpent
<1>4. CASE FixSubmitted(round)
  <2> DEFINE new == [st EXCEPT !.pc = "sandbox", !.fix = TRUE, !.repair = FALSE,
                               !.fixRound = round]
  <2>1. PICK p \in FixPatches : WriteFix(p) /\ Step(new)
    BY <1>4 DEF FixSubmitted, generate_fix
  <2>2. p \in Patches /\ "sandbox" \in Places
    BY DEF Places
  <2>3. /\ disk' \in Disk /\ disk'.fix = p /\ p # None
        /\ disk'.test = disk.test /\ disk'.result = disk.result /\ disk'.repair = disk.repair
    BY <1>1, <2>1, <2>2, WriteFixTyped
  <2>4. Grown /\ DiskInv'
    BY <1>1, <2>3 DEF Grown, DiskInv
  <2>5. new \in State
    BY <1>1, <1>2, <2>2 DEF State
  <2>6. Files(new, disk') /\ FixedShape(new, disk') /\ new.step = 0 /\ ~new.good
    BY <1>1, <1>2, <2>3 DEF Files, FixedShape, State
  <2> HIDE DEF new, round
  <2> QED
    BY <1>1, <2>1, <2>3, <2>4, <2>5, <2>6, FixedHasShape, Stepped
<1>5. CASE FixRefused(round)
  <2>1. PICK report \in {"invalid_result", "security_rejected", "needs_human"},
             p \in FixPatches \cup {disk.fix} :
           /\ disk' = [disk EXCEPT !.repair = Synthetic(report), !.fix = p]
           /\ Step([st EXCEPT !.pc = AfterTarget(report, round), !.fix = FALSE,
                              !.repair = TRUE, !.fixRound = round])
    BY <1>5 DEF FixRefused, generate_fix
  <2>2. PICK place \in {"fix_edit", "finish_repair_failure"} :
           /\ place = AfterTarget(report, round)
           /\ place = "fix_edit" => round < MaxRounds
    BY AfterTargetPlaces
  <2> DEFINE new == [st EXCEPT !.pc = place, !.fix = FALSE, !.repair = TRUE,
                               !.fixRound = round]
  <2>3. Step(new)
    BY <2>1, <2>2
  <2>4. Synthetic(report) \in Evidence
    BY SyntheticTyped DEF Dispositions
  <2>5. /\ disk' \in Disk /\ disk'.repair # None /\ disk'.fix \in FixPatches \cup {disk.fix}
        /\ disk'.test = disk.test /\ disk'.result = disk.result
    BY <1>1, <2>1, <2>4 DEF Disk
  <2>6. Grown /\ DiskInv'
    BY <1>1, <2>5 DEF Grown, DiskInv
  <2>7. new \in State
    <3>1. place \in Places
      BY DEF Places
    <3> QED
      BY <1>1, <1>2, <3>1 DEF State
  <2>8. Files(new, disk') /\ FixedShape(new, disk') /\ new.step = 0 /\ ~new.good
    BY <1>1, <1>2, <2>2, <2>5 DEF Files, FixedShape, State
  <2> HIDE DEF new, round
  <2> QED
    BY <1>1, <2>3, <2>5, <2>6, <2>7, <2>8, FixedHasShape, Stepped
<1> QED
  BY <1>3, <1>4, <1>5 DEF GenerateFixEdit

LEMMA TargetBudgetOK ==
    ASSUME TypeInv, mode = "fixed", UNCHANGED mode, TargetBudget
    PROVE  TypeInv'
BY QuietEnd DEF TargetBudget, At, BudgetSpent, Endings

LEMMA LearnTargetOK ==
    ASSUME TypeInv, mode = "fixed", UNCHANGED mode, LearnTarget
    PROVE  TypeInv'
<1>1. /\ outcome = None /\ st.pc = "sandbox" /\ st.phase = "repairing" /\ Conclude
      /\ UNCHANGED restarted
  BY DEF LearnTarget
<1>2. /\ SandboxOK' /\ call' = None
      /\ st \in State /\ disk \in Disk /\ DiskInv
      /\ Files(st, disk) /\ FixedShape(st, disk) /\ st.step = 0 /\ ~st.good
      /\ answer \in Results => call.request \in Requests
  BY <1>1, Concluding DEF Shape
<1>3. "classify_target" \in Places /\ st.fixRound > 0
  BY <1>1, <1>2 DEF State, FixedShape, Files, Places
<1>4. CASE answer \notin Results
  <2>1. End("error") /\ UNCHANGED disk
    BY <1>4 DEF LearnTarget
  <2>2. DiskInv'
    BY <1>2, <2>1 DEF DiskInv
  <2> QED
    BY <1>1, <1>2, <2>1, <2>2, Ended DEF Endings
<1>5. CASE answer \in Results
  <2> DEFINE e   == Judged(call.request, answer, None)
             new == [st EXCEPT !.pc = "classify_target", !.repair = TRUE]
  <2>1. WriteRepair(e) /\ (Step(new) \/ End("budget_exhausted"))
    BY <1>5 DEF LearnTarget
  <2>2. e \in Evidence
    BY <1>2, <1>5, JudgedTyped
  <2>3. disk' \in Disk /\ disk'.repair = e /\ e # None
        /\ disk'.test = disk.test /\ disk'.fix = disk.fix /\ disk'.result = disk.result
    BY <1>2, <2>1, <2>2, WriteRepairTyped
  <2>4. Grown /\ DiskInv'
    BY <1>2, <2>3 DEF Grown, DiskInv
  <2>5. new \in State
    BY <1>2, <1>3 DEF State
  <2>6. Files(new, disk') /\ FixedShape(new, disk') /\ new.step = 0 /\ ~new.good
    BY <1>1, <1>2, <1>3, <2>3 DEF Files, FixedShape, State
  <2> HIDE DEF new
  <2>7. CASE Step(new)
    BY <1>1, <1>2, <2>3, <2>4, <2>5, <2>6, <2>7, FixedHasShape, Stepped
  <2>8. CASE End("budget_exhausted")
    BY <1>1, <1>2, <2>3, <2>4, <2>8, Ended DEF Endings
  <2> QED
    BY <2>1, <2>7, <2>8
<1> QED
  BY <1>4, <1>5

LEMMA ClassifyTargetResultOK ==
    ASSUME TypeInv, mode = "fixed", UNCHANGED mode, ClassifyTargetResult
    PROVE  TypeInv'
<1> DEFINE report == ClassifyTarget(disk.repair.result)
           e      == [disk.repair EXCEPT !.report = report]
           place  == AfterTarget(report, st.fixRound)
           new    == [st EXCEPT !.pc = place]
<1>1. /\ outcome = None /\ call = None /\ st.pc = "classify_target"
      /\ st \in State /\ disk \in Disk
      /\ DiskInv /\ Files(st, disk) /\ FixedShape(st, disk) /\ st.step = 0 /\ ~st.good
      /\ UNCHANGED restarted /\ SandboxOK' /\ call' = None
  BY AtNode, SandboxQuiet DEF ClassifyTargetResult
<1>2. Step(new) /\ disk' = [disk EXCEPT !.repair = e]
  BY DEF ClassifyTargetResult
<1>3. /\ place \in {"fix_edit", "finish_repair_success", "finish_repair_failure"}
      /\ place = "fix_edit" => st.fixRound < MaxRounds
      /\ place \in Places
  BY AfterTargetPlaces DEF Places
<1>4. disk.repair \in Evidence /\ report \in Dispositions
  BY <1>1, Classified DEF Files, FixedShape, Disk
<1>5. e \in Evidence
  BY <1>4 DEF Evidence
<1>6. /\ disk' \in Disk /\ disk'.repair # None
      /\ disk'.test = disk.test /\ disk'.fix = disk.fix /\ disk'.result = disk.result
  BY <1>1, <1>2, <1>5 DEF Disk
<1>7. Grown /\ DiskInv'
  BY <1>1, <1>6 DEF Grown, DiskInv
<1> HIDE DEF place, e
<1>8. new \in State
  BY <1>1, <1>3 DEF State
<1>9. Files(new, disk') /\ FixedShape(new, disk') /\ new.step = 0 /\ ~new.good
  BY <1>1, <1>3, <1>6 DEF Files, FixedShape, State
<1> HIDE DEF new
<1> QED
  BY <1>1, <1>2, <1>6, <1>7, <1>8, <1>9, FixedHasShape, Stepped

-----------------------------------------------------------------------------
(* The first layer holds *)

LEMMA TypeInvInit == Init => TypeInv
<1> SUFFICES ASSUME Init PROVE TypeInv
  OBVIOUS
<1>1. mode \in {"agent", "fixed"}
  BY DEF Init
<1> DEFINE place == IF mode = "agent" THEN "probe" ELSE "plan"
<1>2. place \in Places
  BY DEF Places
<1>3. st = [Fresh EXCEPT !.pc = place] /\ saved = st
  BY DEF Init
<1> HIDE DEF place
<1>4. st \in State
  BY <1>2, <1>3, FreshTyped DEF State
<1>5. SandboxOK
  BY DEF Init, SandboxInit, SandboxOK, SandboxTypeOK, SandboxInv
<1>6. RunTyped
  <2>1. disk \in Disk
    BY DEF Init, Disk
  <2>2. lag = 0 /\ outcome = None /\ restarted = FALSE
    BY DEF Init
  <2>3. restarted \in BOOLEAN
    BY <2>2
  <2>4. lag \in 0..MaxLag
    BY <2>2
  <2> QED
    BY <1>3, <1>4, <2>1, <2>2, <2>3, <2>4, Zenon DEF RunTyped
<1>7. Shape(st, disk) /\ st.step = 0 /\ ~st.good
  <2>1. /\ st.pc = place /\ st.phase = "reproducing" /\ st.round = 0 /\ st.fixRound = 0
        /\ ~st.test /\ ~st.fix /\ ~st.result /\ ~st.repair /\ ~st.confirmed /\ ~st.fixed
        /\ st.blocked = None /\ st.step = 0 /\ ~st.good
    BY <1>3 DEF Fresh
  <2>2. CASE mode = "agent"
    <3>1. st = Fresh
      BY <1>3, <2>2 DEF place, Fresh
    <3> QED
      BY <2>1, <2>2, <3>1 DEF place, Shape, Files, AgentShape, Unblocked
  <2>3. CASE mode = "fixed"
    BY <2>1, <2>3 DEF place, Shape, Files, FixedShape
  <2> QED
    BY <1>1, <2>2, <2>3
<1> QED
  BY <1>3, <1>5, <1>6, <1>7 DEF Init, SandboxInit, TypeInv, PlaceInv, CallInv, DiskInv

LEMMA TypeInvStep == TypeInv /\ [Next]_vars => TypeInv'
<1> SUFFICES ASSUME TypeInv, [Next]_vars PROVE TypeInv'
  OBVIOUS
<1>1. CASE UNCHANGED vars
  BY <1>1 DEF vars, sandboxVars, TypeInv, SandboxOK, SandboxTypeOK, SandboxInv, RunTyped,
              PlaceInv, Shape, CallInv, _job, FinalRequest, DiskInv
<1>2. CASE mode = "agent" /\ AgentStep /\ UNCHANGED mode
  BY <1>2, ProbeOK, LearnProbeOK, TurnFailsOK, AnswerInTextOK, FruitlessTurnOK,
     SubmitTestEditsOK, SubmitFixEditsOK, RunSandboxOK, SubmitJobOK, LearnResultOK,
     CompleteOK, ReportBlockedOK, FinishReproductionOK, FinishAgentBlockedOK
  DEF AgentStep
<1>3. CASE mode = "fixed" /\ FixedStep /\ UNCHANGED mode
  BY <1>3, PlanReproductionOK, GenerateTestEditOK, FixedSubmitOK, LearnReproductionOK,
     ClassifyReproductionResultOK, FinishReproductionOK, GenerateFixEditOK, TargetBudgetOK,
     LearnTargetOK, ClassifyTargetResultOK
  DEF FixedStep
<1>4. CASE SharedStep /\ UNCHANGED mode
  BY <1>4, FinishRepairSuccessOK, FinishRepairFailureOK, SubmitFinalOK, ValidationBudgetOK,
     LearnFinalOK, ProcessDiesOK
  DEF SharedStep
<1>5. CASE ServiceStep /\ UNCHANGED mode
  BY <1>5, ServiceStepOK
<1> QED
  BY <1>1, <1>2, <1>3, <1>4, <1>5 DEF Next

LEMMA TypeInvHolds == Spec => []TypeInv
<1>1. Init => TypeInv
  BY TypeInvInit
<1>2. TypeInv /\ [Next]_vars => TypeInv'
  BY TypeInvStep
<1> QED
  BY <1>1, <1>2, PTL DEF Spec

\* Every record of the run, the caller and the worker has its shape; rounds, model
\* calls, retries and the lag of the checkpoint stay within their limits, for every
\* limit (worker.py, client.py, runtime.py, tools.py).
THEOREM RepairTyped == Spec => []TypeOK
<1>1. TypeInv => TypeOK
  BY DEF TypeInv, TypeOK, RepairTypeOK, SandboxOK, RunTyped, Disk
<1> QED
  BY <1>1, TypeInvHolds, PTL

-----------------------------------------------------------------------------
(* The regression test is frozen *)

\* Only the probe and the phase that is still reproducing write the test.
LEMMA TestKept ==
    ASSUME TypeInv, Next, st.phase = "repairing"
    PROVE  disk'.test = disk.test
<1>1. disk \in Disk /\ st \in State
  BY DEF TypeInv, RunTyped
<1>2. CASE UNCHANGED disk
  BY <1>2
<1>3. CASE mode = "agent" /\ AgentStep
  <2>1. CASE Probe
    BY <2>1, <1>3, AtPlace DEF Probe, Shape, AgentShape, Fresh
  <2>2. CASE LearnProbe
    BY <1>1, <1>2, <2>2 DEF LearnProbe, WriteResult, Disk
  <2>3. CASE submit_test_edits
    BY <2>3 DEF submit_test_edits, Calls, _allowed_tool_names, READ_ONLY_TOOLS
  <2>4. CASE submit_fix_edits
    BY <1>1, <1>2, <2>4 DEF submit_fix_edits, WriteFix, Disk
  <2>5. CASE LearnResult
    BY <1>1, <1>2, <2>5 DEF LearnResult, WriteResult, WriteRepair, Disk
  <2>6. CASE report_blocked
    BY <1>1, <1>2, <2>6 DEF report_blocked, Disk
  <2> QED
    BY <1>2, <1>3, <2>1, <2>2, <2>3, <2>4, <2>5, <2>6
    DEF AgentStep, ModelCallLimit, ModelFails, AnswerInText, FruitlessTurn, ToolRaises,
        run_sandbox, SubmitJob, complete_reproduction, complete_repair, FinishReproduction,
        FinishAgentBlocked
<1>4. CASE mode = "fixed" /\ FixedStep
  <2>1. CASE GenerateTestEdit
    BY <2>1, <1>4, AtPlace DEF GenerateTestEdit, Shape, FixedShape
  <2>2. CASE GenerateFixEdit
    BY <1>1, <1>2, <2>2 DEF GenerateFixEdit, FixSubmitted, FixRefused, BudgetSpent, WriteFix, Disk
  <2>3. CASE LearnReproduction \/ LearnTarget
    BY <1>1, <1>2, <2>3 DEF LearnReproduction, LearnTarget, WriteResult, WriteRepair, Disk
  <2>4. CASE ClassifyReproductionResult \/ ClassifyTargetResult
    BY <1>1, <2>4 DEF ClassifyReproductionResult, ClassifyTargetResult, Disk
  <2> QED
    BY <1>2, <1>4, <2>1, <2>2, <2>3, <2>4
    DEF FixedStep, PlanReproduction, SubmitReproduction, FinishReproduction, SubmitTarget,
        TargetBudget, BudgetSpent
<1>5. CASE SharedStep \/ ServiceStep
  BY <1>2, <1>5 DEF SharedStep, FinishRepairSuccess, FinishRepairFailure, SubmitFinal,
                    ValidationBudget, LearnFinal, ProcessDies, ServiceStep
<1> QED
  BY <1>3, <1>4, <1>5 DEF Next

\* Whatever the model asks for and whenever the process is restarted, no step of a run
\* that repairs writes test.patch (middleware.py _allowed_tool_names, graph.py).
THEOREM TestStaysFrozen == Spec => TestFrozenWhileRepairing
<1>1. TypeInv /\ [Next]_vars =>
         [st.phase = "repairing" /\ st'.phase = "repairing" => disk'.test = disk.test]_vars
  BY TestKept
<1> QED
  BY <1>1, TypeInvHolds, PTL DEF Spec, TestFrozenWhileRepairing

-----------------------------------------------------------------------------
(* The sandbox and the run's use of it implement VerdictOnce *)

Executing == IF running = None THEN None ELSE running.request.job

Given == {verdicts[j] : j \in Jobs} \ {None}

\* What may become of an artifact e in a step: it stays, at most its report changes; it
\* holds no execution; or it is the verdict of the call that ends.
Learned(e, new) ==
    \/ new = e
    \/ e # None /\ new # None /\ new.request = e.request /\ new.result = e.result
    \/ new # None /\ new.request = None
    \/ new # None /\ Verdict(new.request, new.result) \in Given

LEMMA LearnedVerdict ==
    ASSUME TypeInv, outcome = None, Conclude, answer \in Results,
           NEW report \in Dispositions \cup {None}, NEW e
    PROVE  LET new == Judged(call.request, answer, report)
           IN  new \in Evidence /\ Learned(e, new)
<1>1. call.request \in Requests /\ verdicts[call.request.job] = Verdict(call.request, answer)
  BY ConcludedVerdict DEF TypeInv
<1>2. call.request.job \in Jobs /\ Verdict(call.request, answer) # None
  BY <1>1 DEF Requests, Verdict, Verdicts
<1>3. Judged(call.request, answer, report) \in Evidence
      /\ Judged(call.request, answer, report).request = call.request
      /\ Judged(call.request, answer, report).result = answer
  BY <1>1, JudgedTyped
<1> QED
  BY <1>1, <1>2, <1>3 DEF Learned, Given

LEMMA ArtifactsLearned ==
    ASSUME TypeInv, Next
    PROVE  Learned(disk.result, disk'.result) /\ Learned(disk.repair, disk'.repair)
<1>1. disk \in Disk
  BY DEF TypeInv, RunTyped
<1>2. CASE UNCHANGED disk
  BY <1>2 DEF Learned
<1>3. ASSUME NEW p, WriteTest(p) \/ WriteFix(p)
      PROVE  disk'.result = disk.result /\ disk'.repair = disk.repair
  BY <1>1, <1>3 DEF WriteTest, WriteFix, Disk
<1>4. ASSUME outcome = None, Conclude, answer \in Results,
             NEW report \in Dispositions \cup {None},
             \/ WriteResult(Judged(call.request, answer, report))
             \/ WriteRepair(Judged(call.request, answer, report))
      PROVE  Learned(disk.result, disk'.result) /\ Learned(disk.repair, disk'.repair)
  <2>1. /\ Judged(call.request, answer, report) \in Evidence
        /\ \A e : Learned(e, Judged(call.request, answer, report))
    BY <1>4, LearnedVerdict
  <2>2. \A e : Learned(e, e)
    BY DEF Learned
  <2> QED
    BY <1>1, <1>4, <2>1, <2>2, WriteResultTyped, WriteRepairTyped
<1>5. CASE mode = "agent" /\ AgentStep
  <2>1. CASE Probe \/ submit_test_edits \/ submit_fix_edits
    BY <1>2, <1>3, <2>1 DEF Probe, submit_test_edits, submit_fix_edits, Learned
  <2>2. CASE LearnProbe \/ LearnResult
    BY <1>2, <1>4, <2>2, Classified DEF LearnProbe, LearnResult
  <2>3. CASE report_blocked
    <3>1. CASE disk' = [disk EXCEPT !.repair.report = "needs_human"]
               /\ st.phase = "repairing" /\ st.repair
      <4>1. disk.repair \in Evidence
        BY <1>5, <2>3, <3>1, AtTurn DEF report_blocked, Files, Disk
      <4>2. [disk.repair EXCEPT !.report = "needs_human"] \in Evidence
            /\ [disk.repair EXCEPT !.report = "needs_human"].request = disk.repair.request
            /\ [disk.repair EXCEPT !.report = "needs_human"].result = disk.repair.result
        BY <4>1 DEF Evidence, Dispositions
      <4>3. disk' = [disk EXCEPT !.repair = [disk.repair EXCEPT !.report = "needs_human"]]
        BY <3>1
      <4> QED
        BY <1>1, <4>1, <4>2, <4>3 DEF Learned, Disk
    <3> QED
      BY <1>2, <2>3, <3>1 DEF report_blocked, Justified
  <2> QED
    BY <1>2, <1>5, <2>1, <2>2, <2>3
    DEF AgentStep, ModelCallLimit, ModelFails, AnswerInText, FruitlessTurn, ToolRaises,
        run_sandbox, SubmitJob, complete_reproduction, complete_repair, FinishReproduction,
        FinishAgentBlocked
<1>6. CASE mode = "fixed" /\ FixedStep
  <2>1. CASE GenerateTestEdit
    <3>1. ASSUME NEW report \in {"invalid_test", "security_rejected"},
                 WriteResult(Synthetic(report))
          PROVE  Learned(disk.result, disk'.result) /\ Learned(disk.repair, disk'.repair)
      BY <1>1, <3>1, WriteResultTyped, SyntheticTyped DEF Dispositions, Learned, Synthetic
    <3> QED
      BY <1>2, <1>3, <2>1, <3>1 DEF GenerateTestEdit, TestSubmitted, TestRefused, Learned
  <2>2. CASE GenerateFixEdit
    <3>1. ASSUME NEW report \in {"invalid_result", "security_rejected", "needs_human"}, NEW p,
                 disk' = [disk EXCEPT !.repair = Synthetic(report), !.fix = p]
          PROVE  Learned(disk.result, disk'.result) /\ Learned(disk.repair, disk'.repair)
      BY <1>1, <3>1, SyntheticTyped DEF Dispositions, Learned, Synthetic, Disk
    <3> QED
      BY <1>2, <1>3, <2>2, <3>1
      DEF GenerateFixEdit, FixSubmitted, FixRefused, BudgetSpent, Learned
  <2>3. CASE LearnReproduction \/ LearnTarget
    BY <1>2, <1>4, <2>3 DEF LearnReproduction, LearnTarget
  <2>4. CASE ClassifyReproductionResult
    <3>1. disk.result \in Evidence
      BY <1>1, <1>6, <2>4, AtNode DEF ClassifyReproductionResult, Files, FixedShape, Disk
    <3> QED
      BY <1>1, <2>4, <3>1, Classified DEF ClassifyReproductionResult, Learned, Disk, Evidence
  <2>5. CASE ClassifyTargetResult
    <3>1. disk.repair \in Evidence
      BY <1>1, <1>6, <2>5, AtNode DEF ClassifyTargetResult, Files, FixedShape, Disk
    <3> QED
      BY <1>1, <2>5, <3>1, Classified DEF ClassifyTargetResult, Learned, Disk, Evidence
  <2> QED
    BY <1>2, <1>6, <2>1, <2>2, <2>3, <2>4, <2>5
    DEF FixedStep, PlanReproduction, SubmitReproduction, FinishReproduction, SubmitTarget,
        TargetBudget, BudgetSpent
<1>7. CASE SharedStep \/ ServiceStep
  BY <1>2, <1>7 DEF SharedStep, FinishRepairSuccess, FinishRepairFailure, SubmitFinal,
                    ValidationBudget, LearnFinal, ProcessDies, ServiceStep
<1> QED
  BY <1>5, <1>6, <1>7 DEF Next

LEMMA HeldIsLearned ==
    ASSUME Learned(disk.result, disk'.result), Learned(disk.repair, disk'.repair)
    PROVE  HeldEvidence' \subseteq HeldEvidence \cup Given
<1> SUFFICES ASSUME NEW x \in {disk'.result, disk'.repair} \ {None}, x.request # None
             PROVE  Verdict(x.request, x.result) \in HeldEvidence \cup Given
  BY DEF HeldEvidence, Verdict
<1>1. PICK e \in {disk.result, disk.repair} : Learned(e, x)
  OBVIOUS
<1>2. CASE e # None /\ x.request = e.request /\ x.result = e.result
  BY <1>1, <1>2 DEF HeldEvidence
<1> QED
  BY <1>1, <1>2 DEF Learned

\* A step that gives no verdict and starts nothing.
LEMMA LearnsOnly ==
    ASSUME TypeInv, Next, UNCHANGED verdicts, Executing' = Executing
    PROVE  Once!Next
<1>1. HeldEvidence' \subseteq HeldEvidence \cup Given
  BY ArtifactsLearned, HeldIsLearned
<1> QED
  BY <1>1 DEF Once!Next, Once!Learn, Executing, Given

LEMMA RunLearns ==
    ASSUME TypeInv, Next, ~ServiceStep
    PROVE  Once!Next
<1>1. AgentStep \/ FixedStep \/ SharedStep
  BY DEF Next
<1>2. CASE UNCHANGED <<verdicts, running>>
  BY <1>2, LearnsOnly DEF Executing
<1>3. CASE ProcessDies
  <2>1. Executing' = Executing
    BY <1>3, UnheardOK DEF ProcessDies, CallerDies, Executing, TypeInv
  <2> QED
    BY <1>3, <2>1, LearnsOnly DEF ProcessDies, CallerDies
<1>4. AgentStep => UNCHANGED <<verdicts, running>>
  BY DEF AgentStep, Probe, LearnProbe, ModelCallLimit, ModelFails, AnswerInText, FruitlessTurn,
         ToolRaises, submit_test_edits, submit_fix_edits, run_sandbox, SubmitJob, LearnResult,
         complete_reproduction, complete_repair, report_blocked, FinishReproduction,
         FinishAgentBlocked, Submit, Conclude, sandboxVars, worker
<1>5. FixedStep => UNCHANGED <<verdicts, running>>
  BY DEF FixedStep, PlanReproduction, GenerateTestEdit, SubmitReproduction, LearnReproduction,
         ClassifyReproductionResult, FinishReproduction, GenerateFixEdit, SubmitTarget,
         TargetBudget, LearnTarget, ClassifyTargetResult, Submit, Conclude, sandboxVars, worker
<1>6. SharedStep => UNCHANGED <<verdicts, running>> \/ ProcessDies
  BY DEF SharedStep, FinishRepairSuccess, FinishRepairFailure, SubmitFinal, ValidationBudget,
         LearnFinal, Submit, Conclude, sandboxVars, worker
<1> QED
  BY <1>1, <1>2, <1>3, <1>4, <1>5, <1>6

LEMMA ServiceDecides ==
    ASSUME TypeInv, Next, ServiceStep
    PROVE  [Once!Next]_(Once!vars)
<1>1. SandboxTypeOK /\ SandboxInv /\ HeldEvidence' = HeldEvidence
  BY DEF TypeInv, SandboxOK, ServiceStep, HeldEvidence
<1>2. CASE UNCHANGED verdicts /\ Executing' = Executing
  BY <1>2, LearnsOnly
<1>3. CASE TakeRequest
  <2>1. PICK m \in inbox : AnswerFromStore(m) \/ RefuseExpired(m) \/ Begin(m)
    BY <1>3 DEF TakeRequest
  <2>2. CASE AnswerFromStore(m) \/ RefuseExpired(m)
    BY <1>2, <1>3, <2>2 DEF AnswerFromStore, RefuseExpired, TakeRequest, Executing
  <2>3. CASE Begin(m)
    <3>1. m.request \in Requests /\ m.request.job \in Jobs /\ m.heard \in BOOLEAN
      BY <1>1 DEF SandboxTypeOK, Requests
    <3>2. running' # None /\ running'.request = m.request
      <4>1. (~NameTaken(m.request.job)) \in BOOLEAN
        BY DEF NameTaken
      <4>2. PICK own \in BOOLEAN :
               running' = [request |-> m.request, heard |-> m.heard, own |-> own]
        BY <2>3, <4>1 DEF Begin
      <4> QED
        BY <3>1, <4>2 DEF Executions
    <3>3. Executing = None /\ Executing' = m.request.job /\ verdicts[m.request.job] = None
          /\ UNCHANGED verdicts
      BY <1>3, <2>3, <3>2 DEF TakeRequest, Begin, Executing
    <3> QED
      BY <1>1, <3>1, <3>3 DEF Once!Next, Once!Start, Executing
  <2> QED
    BY <2>1, <2>2, <2>3
<1>4. CASE Finish
  <2>1. /\ running # None /\ running' = None /\ running.request \in Requests
        /\ running.request.job \in Jobs /\ verdicts[running.request.job] = None
    BY <1>1, <1>4 DEF Finish, SandboxTypeOK, SandboxInv, Executions, Requests
  <2>2. Executing = running.request.job /\ Executing # None /\ Executing' = None
    BY <2>1 DEF Executing
  <2>3. CASE UNCHANGED verdicts
    BY <1>1, <2>2, <2>3 DEF Once!Next, Once!Abort, Executing
  <2>4. ASSUME NEW r \in Outcomes(running),
               verdicts' = [verdicts EXCEPT ![running.request.job] = Verdict(running.request, r)]
        PROVE  Once!Decide
    <3>1. r \in Results /\ Verdict(running.request, r) # None
          /\ Verdict(running.request, r).request = running.request
      BY <2>1 DEF Outcomes, Verdict, Verdicts
    <3>2. \A j \in Jobs : verdicts'[j] = IF j = Executing THEN Verdict(running.request, r)
                                                          ELSE verdicts[j]
      BY <1>1, <2>1, <2>2, <2>4 DEF SandboxTypeOK
    <3> QED
      BY <1>1, <2>1, <2>2, <3>1, <3>2 DEF Once!Decide, Executing
  <2> QED
    BY <1>4, <2>3, <2>4 DEF Finish, Once!Next
<1>5. CASE WorkerDies
  <2>1. UNCHANGED verdicts /\ Executing' = None
    BY <1>5 DEF WorkerDies, Executing
  <2>2. CASE Executing = None
    BY <1>2, <2>1, <2>2
  <2>3. CASE Executing # None
    BY <1>1, <2>1, <2>3 DEF Once!Next, Once!Abort, Executing
  <2> QED
    BY <2>2, <2>3
<1>6. CASE StopWaiting
  BY <1>2, <1>6, UnheardOK DEF StopWaiting, Executing, TypeInv
<1>7. CASE Retry \/ \E j \in Jobs : OrphanExits(j)
  BY <1>2, <1>7 DEF Retry, OrphanExits, Executing
<1> QED
  BY <1>3, <1>4, <1>5, <1>6, <1>7 DEF ServiceStep, SandboxStep

\* A job is executed while it has no verdict, it is given at most one, for ever, and
\* what the run keeps as evidence are verdicts, whatever is lost, asked again or
\* replayed after a restart (worker.py execute, client.py submit, artifacts.py).
THEOREM VerdictsImplementOnce == Spec => VerdictIsGivenOnce
<1>1. Init => Once!Init
  BY DEF Init, SandboxInit, Once!Init, HeldEvidence
<1>2. TypeInv /\ [Next]_vars => [Once!Next]_(Once!vars)
  <2> SUFFICES ASSUME TypeInv, [Next]_vars PROVE [Once!Next]_(Once!vars)
    OBVIOUS
  <2>1. CASE UNCHANGED vars
    BY <2>1 DEF vars, sandboxVars, Once!vars, HeldEvidence
  <2>2. CASE Next
    BY <2>2, RunLearns, ServiceDecides
  <2> QED
    BY <2>1, <2>2
<1> QED
  BY <1>1, <1>2, TypeInvHolds, PTL DEF Spec, VerdictIsGivenOnce, Once!Spec

-----------------------------------------------------------------------------
(* The second and the third layer: what a run may conclude.  The evidence it  *)
(* claims is on disk and is about the patches on disk, a reproduction is not  *)
(* dismissed, and a job id is used for other patches only after a restart.  A *)
(* restart puts the checkpoint in the place of the state but leaves the       *)
(* artifacts, so the induction carries the claims of both, and how far one    *)
(* may be behind the other.                                                   *)


Settled == {"finish_repair_success", "validate"}

ReproducedOnDisk == ClassifyReproduction(disk.result.result) = "reproduced"
PassedOnDisk     == ClassifyTarget(disk.repair.result) = "target_passed"

\* The checkpoint t is behind the state s, and what was settled stays settled.
Behind(t, s) ==
    /\ t.phase = "repairing" => s.phase = "repairing"
    /\ t.confirmed => s.confirmed
    /\ t.fixed => s.fixed
    /\ t.round <= s.round /\ t.fixRound <= s.fixRound
    /\ mode = "agent" /\ t.round = s.round /\ t.result =>
          s.result /\ s.confirmed = t.confirmed
    /\ mode = "fixed" =>
          /\ t.pc = "finish_reproduction" =>
                s.pc = "finish_reproduction" \/ s.phase = "repairing"
          /\ t.pc \in Settled => s.pc \in Settled

\* The agent's state s: a result of the last round that confirmed nothing is none.
AgentClaims(s, d) ==
    s.result /\ s.round = MaxRounds /\ ~s.confirmed /\ s.phase = "reproducing" =>
        d.result.report # "reproduced"

\* A place of the fixed loop: what is still to be concluded from a result is about the
\* patches on disk.
FixedClaims(s, reproduced, passed, test, fix) ==
    /\ s.pc \in {"classify", "finish_reproduction"} /\ reproduced => test
    /\ s.pc = "classify_target" /\ passed => fix
    /\ s.pc \in Settled => fix

\* A result that the checkpoint t has still to classify was classified by s before: had
\* it settled the matter, s would not be in a later round.
NotSettled(t, s, reproduced, passed) ==
    /\ t.pc = "classify" /\ s.phase = "reproducing" /\ s.pc \in {"test_edit", "sandbox"}
          => ~reproduced
    /\ t.pc = "classify_target" /\ s.pc \in {"fix_edit", "sandbox"} => ~passed

FinalsSoFar == \A k \in 1..3 : k <= st.step =>
    /\ verdicts[<<"final", k>>] # None
    /\ verdicts[<<"final", k>>].request = FinalRequest(k)
    /\ st.good => Good(k, verdicts[<<"final", k>>].result)

ClaimsInv ==
    /\ Behind(saved, st)
    /\ st.confirmed \/ st.phase = "repairing" => TestIsEvident
    /\ st.fixed => FixIsEvident
    /\ mode = "agent" => AgentClaims(st, disk) /\ AgentClaims(saved, disk)
    /\ mode = "fixed" =>
          /\ FixedClaims(st, ReproducedOnDisk, PassedOnDisk, TestIsEvident, FixIsEvident)
          /\ FixedClaims(saved, ReproducedOnDisk, PassedOnDisk, TestIsEvident, FixIsEvident)
          /\ NotSettled(saved, st, ReproducedOnDisk, PassedOnDisk)
    /\ FinalsSoFar

EvidenceInv ==
    /\ outcome = None => ClaimsInv
    /\ outcome = "validated" => TestIsEvident /\ FixIsEvident /\ FinalIsEvident
    /\ ReproducedIsNotDismissed

-----------------------------------------------------------------------------
(* A run that was never resumed *)

\* A state s will not ask for the job j any more.
Past(s, j) ==
    \/ j[1] = "probe" /\ s.pc # "probe"
    \/ /\ j[1] = "reproduction"
       /\ \/ j[2] < s.round
          \/ /\ j[2] = s.round
             /\ IF mode = "agent" THEN s.result
                ELSE ~(s.pc = "sandbox" /\ s.phase = "reproducing")
    \/ /\ j[1] = "repair"
       /\ \/ j[2] < s.fixRound
          \/ j[2] = s.fixRound /\ s.repair
    \/ j[1] = "final" /\ s.pc = "validate" /\ j[2] <= s.step

Expected(q) == (call # None /\ q = call.request) \/ Past(st, q.job)

AllExpected == /\ \A m \in inbox : Expected(m.request)
               /\ running # None => Expected(running.request)
               /\ \A j \in Jobs : verdicts[j] # None => Expected(verdicts[j].request)

RestartInv == /\ answer = "conflict" => restarted
              /\ ~restarted /\ outcome = None => AllExpected

-----------------------------------------------------------------------------
(* Findings and verdicts from one state to the next *)

\* A verdict is for ever.
LEMMA VerdictsStay ==
    ASSUME TypeInv, [Next]_vars
    PROVE  \A j \in Jobs : verdicts[j] # None => verdicts'[j] = verdicts[j]
<1>1. CASE UNCHANGED vars
  BY <1>1 DEF vars, sandboxVars
<1>2. CASE Next
  <2>1. [Once!Next]_(Once!vars)
    BY <1>2, RunLearns, ServiceDecides
  <2> QED
    BY <2>1 DEF Once!Next, Once!vars, Once!Start, Once!Decide, Once!Abort, Once!Learn
<1> QED
  BY <1>1, <1>2

LEMMA StoredStays ==
    ASSUME TypeInv, [Next]_vars, NEW e \in Evidence, NEW f \in Evidence,
           f.request = e.request, f.result = e.result, e.result \in Results, Stored(e)
    PROVE  /\ f # None /\ f.request # None
           /\ verdicts'[f.request.job] = Verdict(f.request, f.result)
<1>1. e.request \in Requests /\ e.request.job \in Jobs
  BY DEF Stored, Evidence, Requests
<1>2. verdicts[e.request.job] # None
  BY <1>1 DEF Stored, Verdict, Verdicts
<1> QED
  BY <1>1, <1>2, VerdictsStay DEF Stored

\* The reproduction stays evident while neither the test nor the finding changes.
LEMMA TestStays ==
    ASSUME TypeInv, TypeInv', [Next]_vars, TestIsEvident, disk'.test = disk.test,
           \/ disk'.result = disk.result
           \/ /\ disk'.result # None /\ disk'.result.request = disk.result.request
              /\ disk'.result.result = disk.result.result
    PROVE  TestIsEvident'
<1>1. disk.result # None /\ disk.result.result = "failed_as_planned"
  BY Classified DEF TestIsEvident, Stored
<1>2. disk.result \in Evidence /\ disk'.result \in Evidence
  BY <1>1 DEF TypeInv, RunTyped, Disk
<1>3. disk.result.result \in Results
  BY <1>1, <1>2 DEF Evidence, AllResults
<1>4. disk'.result.request = disk.result.request /\ disk'.result.result = disk.result.result
  OBVIOUS
<1> QED
  BY <1>2, <1>3, <1>4, StoredStays DEF TestIsEvident, Stored

\* The repair stays evident while neither patch nor the finding changes.
LEMMA FixStays ==
    ASSUME TypeInv, TypeInv', [Next]_vars, FixIsEvident,
           disk'.test = disk.test, disk'.fix = disk.fix,
           \/ disk'.repair = disk.repair
           \/ /\ disk'.repair # None /\ disk'.repair.request = disk.repair.request
              /\ disk'.repair.result = disk.repair.result
    PROVE  FixIsEvident'
<1>1. disk.repair # None /\ disk.repair.result = "passed"
  BY Classified DEF FixIsEvident, Stored
<1>2. disk.repair \in Evidence /\ disk'.repair \in Evidence
  BY <1>1 DEF TypeInv, RunTyped, Disk
<1>3. disk.repair.result \in Results
  BY <1>1, <1>2 DEF Evidence, AllResults
<1>4. disk'.repair.request = disk.repair.request /\ disk'.repair.result = disk.repair.result
  OBVIOUS
<1> QED
  BY <1>2, <1>3, <1>4, StoredStays DEF FixIsEvident, Stored

\* An answer about the test on disk is a finding about it.
LEMMA NewTestFinding ==
    ASSUME TypeInv, Conclude, answer \in Results, NEW report \in Dispositions \cup {None},
           WriteResult(Judged(call.request, answer, report)),
           call.request.test = disk.test, call.request.fix = None
    PROVE  /\ disk'.result.result = answer /\ disk'.result.report = report
           /\ ClassifyReproduction(answer) = "reproduced" => TestIsEvident'
<1> DEFINE e == Judged(call.request, answer, report)
<1>1. call.request \in Requests /\ verdicts[call.request.job] = Verdict(call.request, answer)
  BY ConcludedVerdict DEF TypeInv
<1>2. e \in Evidence /\ e.request = call.request /\ e.result = answer /\ e.report = report
  BY <1>1, JudgedTyped
<1>3. disk'.result = e /\ e # None /\ disk'.test = disk.test
  BY <1>2, WriteResultTyped DEF TypeInv, RunTyped
<1>4. UNCHANGED verdicts
  BY DEF Conclude, worker
<1>5. Stored(disk.result)'
  BY <1>1, <1>2, <1>3, <1>4 DEF Stored
<1> QED
  BY <1>2, <1>3, <1>5 DEF TestIsEvident

LEMMA NewFixFinding ==
    ASSUME TypeInv, Conclude, answer \in Results, NEW report \in Dispositions \cup {None},
           WriteRepair(Judged(call.request, answer, report)),
           call.request.test = disk.test, call.request.fix = disk.fix
    PROVE  /\ disk'.repair.result = answer
           /\ ClassifyTarget(answer) = "target_passed" => FixIsEvident'
<1> DEFINE e == Judged(call.request, answer, report)
<1>1. call.request \in Requests /\ verdicts[call.request.job] = Verdict(call.request, answer)
  BY ConcludedVerdict DEF TypeInv
<1>2. e \in Evidence /\ e.request = call.request /\ e.result = answer
  BY <1>1, JudgedTyped
<1>3. disk'.repair = e /\ e # None /\ disk'.test = disk.test /\ disk'.fix = disk.fix
  BY <1>2, WriteRepairTyped DEF TypeInv, RunTyped
<1>4. UNCHANGED verdicts
  BY DEF Conclude, worker
<1>5. Stored(disk.repair)'
  BY <1>1, <1>2, <1>3, <1>4 DEF Stored
<1> QED
  BY <1>2, <1>3, <1>5 DEF FixIsEvident

-----------------------------------------------------------------------------
(* What a step has to show *)

\* The claims of the state the run goes to, and of the checkpoint it leaves behind.
LEMMA Advanced ==
    ASSUME TypeInv, EvidenceInv, outcome = None, UNCHANGED mode,
           NEW new \in State, Step(new), new.step = 0, Behind(saved, new),
           new.confirmed \/ new.phase = "repairing" => TestIsEvident',
           new.fixed => FixIsEvident',
           mode = "agent" => AgentClaims(new, disk') /\ AgentClaims(saved, disk'),
           mode = "fixed" =>
              /\ FixedClaims(new, ReproducedOnDisk', PassedOnDisk', TestIsEvident', FixIsEvident')
              /\ FixedClaims(saved, ReproducedOnDisk', PassedOnDisk',
                             TestIsEvident', FixIsEvident')
              /\ NotSettled(saved, new, ReproducedOnDisk', PassedOnDisk')
    PROVE  EvidenceInv'
<1>1. st' = new /\ saved' \in {new, saved} /\ outcome' = None
  BY DEF Step
<1>2. Behind(new, new)
  BY DEF Behind, State
<1>3. Behind(saved, st)'
  BY <1>1, <1>2 DEF Behind
<1>4. FinalsSoFar'
  BY <1>1 DEF FinalsSoFar
<1>5. mode = "agent" => AgentClaims(st, disk)' /\ AgentClaims(saved, disk)'
  BY <1>1 DEF AgentClaims
<1>6. mode = "fixed" =>
         /\ FixedClaims(st, ReproducedOnDisk, PassedOnDisk, TestIsEvident, FixIsEvident)'
         /\ FixedClaims(saved, ReproducedOnDisk, PassedOnDisk, TestIsEvident, FixIsEvident)'
         /\ NotSettled(saved, st, ReproducedOnDisk, PassedOnDisk)'
  BY <1>1 DEF FixedClaims, NotSettled
<1>7. ClaimsInv'
  BY <1>1, <1>3, <1>4, <1>5, <1>6 DEF ClaimsInv
<1> QED
  BY <1>1, <1>7 DEF EvidenceInv, ReproducedIsNotDismissed, Endings

\* The end of a run that neither validates a patch nor dismisses a reproduction.
LEMMA EndedWithout ==
    ASSUME TypeInv, NEW how \in Endings, End(how), how # "validated",
           how = "cannot_reproduce" => ~(st.result /\ ReproductionMade')
    PROVE  EvidenceInv'
<1>1. outcome' = how /\ how # None /\ st'.result = st.result
  BY DEF End, TypeInv, RunTyped, State
<1> QED
  BY <1>1 DEF EvidenceInv, ReproducedIsNotDismissed

\* The run waits, the worker works.
LEMMA WaitingKeeps ==
    ASSUME TypeInv, TypeInv', EvidenceInv, [Next]_vars,
           UNCHANGED <<st, saved, disk, outcome, mode>>
    PROVE  EvidenceInv'
<1>1. TestIsEvident => TestIsEvident'
  BY TestStays
<1>2. FixIsEvident => FixIsEvident'
  BY FixStays
<1>3. \A k \in 1..3 : /\ <<"final", k>> \in Jobs
                      /\ verdicts[<<"final", k>>] # None =>
                            verdicts'[<<"final", k>>] = verdicts[<<"final", k>>]
  BY VerdictsStay
<1>4. FinalsSoFar => FinalsSoFar'
  BY <1>3 DEF FinalsSoFar, FinalRequest
<1>5. FinalIsEvident => FinalIsEvident'
  BY <1>3 DEF FinalIsEvident, FinalRequest
<1>6. ReproducedIsNotDismissed'
  BY DEF EvidenceInv, ReproducedIsNotDismissed, ReproductionMade
<1>7. ASSUME ClaimsInv PROVE ClaimsInv'
  <2>1. Behind(saved, st)'
    BY <1>7 DEF ClaimsInv, Behind
  <2>2. mode = "agent" => AgentClaims(st, disk)' /\ AgentClaims(saved, disk)'
    BY <1>7 DEF ClaimsInv, AgentClaims
  <2>3. mode = "fixed" =>
         /\ FixedClaims(st, ReproducedOnDisk, PassedOnDisk, TestIsEvident, FixIsEvident)'
         /\ FixedClaims(saved, ReproducedOnDisk, PassedOnDisk, TestIsEvident, FixIsEvident)'
         /\ NotSettled(saved, st, ReproducedOnDisk, PassedOnDisk)'
    BY <1>1, <1>2, <1>7 DEF ClaimsInv, FixedClaims, NotSettled, ReproducedOnDisk, PassedOnDisk
  <2> QED
    BY <1>1, <1>2, <1>4, <1>7, <2>1, <2>2, <2>3 DEF ClaimsInv
<1> QED
  BY <1>1, <1>2, <1>5, <1>6, <1>7 DEF EvidenceInv

-----------------------------------------------------------------------------
(* The agent *)

\* A turn that changes neither the findings nor what they are about, except that the
\* repair may begin once there is evidence of the bug.
LEMMA AgentMovesOn ==
    ASSUME TypeInv, TypeInv', EvidenceInv, Next, mode = "agent", UNCHANGED mode,
           outcome = None, NEW new \in State, Step(new), new.step = 0,
           disk'.test = disk.test, disk'.fix = disk.fix, disk'.result = disk.result,
           \/ disk'.repair = disk.repair
           \/ /\ disk'.repair # None /\ disk'.repair.request = disk.repair.request
              /\ disk'.repair.result = disk.repair.result,
           new.round = st.round, new.fixRound = st.fixRound, new.result = st.result,
           new.confirmed = st.confirmed, new.fixed = st.fixed,
           \/ new.phase = st.phase
           \/ new.phase = "repairing" /\ TestIsEvident
    PROVE  EvidenceInv'
<1>1. ClaimsInv
  BY DEF EvidenceInv
<1>2. new.confirmed \/ new.phase = "repairing" => TestIsEvident'
  BY <1>1, TestStays DEF ClaimsInv
<1>3. new.fixed => FixIsEvident'
  BY <1>1, FixStays DEF ClaimsInv
<1>4. Behind(saved, new)
  BY <1>1 DEF ClaimsInv, Behind
<1>5. AgentClaims(new, disk') /\ AgentClaims(saved, disk')
  BY <1>1 DEF ClaimsInv, AgentClaims
<1> QED
  BY <1>2, <1>3, <1>4, <1>5, Advanced

LEMMA ProbeClaims ==
    ASSUME TypeInv, TypeInv', EvidenceInv, Next, mode = "agent", UNCHANGED mode, Probe
    PROVE  EvidenceInv'
<1>1. /\ outcome = None /\ WriteTest(ProbePatch) /\ UNCHANGED <<st, saved, lag, outcome>>
  BY DEF Probe, At
<1>2. ClaimsInv /\ st = Fresh /\ disk \in Disk
  BY <1>1, AtPlace DEF EvidenceInv, Probe, Shape, AgentShape
<1>3. disk'.result = disk.result
  BY <1>1, <1>2, WriteTestTyped
<1>4. ClaimsInv'
  BY <1>1, <1>2, <1>3 DEF ClaimsInv, Behind, AgentClaims, FinalsSoFar, Fresh
<1> QED
  BY <1>1, <1>4 DEF EvidenceInv, ReproducedIsNotDismissed, Endings

LEMMA LearnProbeClaims ==
    ASSUME TypeInv, TypeInv', EvidenceInv, Next, mode = "agent", UNCHANGED mode, LearnProbe
    PROVE  EvidenceInv'
<1> DEFINE report == ClassifyReproduction(answer)
           found  == report = "reproduced"
<1>1. outcome = None /\ st.pc = "probe" /\ Conclude
  BY DEF LearnProbe
<1>2. ClaimsInv /\ st = Fresh /\ saved \in State
  BY <1>1, Concluding DEF EvidenceInv, Shape, AgentShape, TypeInv, RunTyped
<1>3. CASE End("error")
  BY <1>3, EndedWithout DEF Endings
<1>4. ASSUME answer \in Results, WriteResult(Judged(call.request, answer, report)),
             NEW s \in TimeSpent(st), NEW f \in BOOLEAN, f = found,
             Step([s EXCEPT !.pc = "turn",
                            !.phase = IF f THEN "repairing" ELSE "reproducing",
                            !.round = IF f THEN 1 ELSE 0,
                            !.test = f, !.result = f, !.confirmed = f])
      PROVE  EvidenceInv'
  <2> DEFINE new == [s EXCEPT !.pc = "turn",
                              !.phase = IF f THEN "repairing" ELSE "reproducing",
                              !.round = IF f THEN 1 ELSE 0,
                              !.test = f, !.result = f, !.confirmed = f]
  <2>1. call.request.test = disk.test /\ call.request.fix = None
    BY <1>1, Concluding DEF CallInv
  <2>2. found => TestIsEvident'
    BY <1>1, <1>4, <2>1, Classified, NewTestFinding
  <2>3. Step(new) /\ new = st'
    BY <1>4 DEF Step
  <2>4. s \in State /\ s.step = 0 /\ ~s.fixed /\ s.fixRound = 0 /\ new \in State
    BY <1>2, <1>4, <2>3, TimeSpentTyped, FreshTyped DEF Fresh, TypeInv, RunTyped
  <2>5. /\ new.step = 0 /\ ~new.fixed /\ new.fixRound = 0
        /\ new.confirmed = f /\ new.result = f
        /\ new.phase = IF f THEN "repairing" ELSE "reproducing"
        /\ new.round = IF f THEN 1 ELSE 0
    BY <2>4 DEF State
  <2>6. /\ saved.phase # "repairing" /\ ~saved.confirmed /\ ~saved.fixed
        /\ saved.round = 0 /\ saved.fixRound = 0
    BY <1>2 DEF ClaimsInv, Behind, Fresh, State
  <2>7. ~saved.result
    BY <1>1, <2>6 DEF TypeInv, PlaceInv, Shape, Files
  <2> HIDE DEF new
  <2>8. Behind(saved, new)
    BY <2>5, <2>6, <2>7 DEF Behind
  <2>9. AgentClaims(new, disk') /\ AgentClaims(saved, disk')
    BY <1>4, <2>5, <2>7 DEF AgentClaims
  <2> QED
    BY <1>1, <1>4, <2>2, <2>3, <2>4, <2>5, <2>8, <2>9, Advanced
<1>5. PICK f \in BOOLEAN : f = found
  OBVIOUS
<1> QED
  BY <1>3, <1>4, <1>5 DEF LearnProbe

LEMMA QuietTurnClaims ==
    ASSUME TypeInv, TypeInv', EvidenceInv, Next, mode = "agent", UNCHANGED mode,
           AnswerInText \/ FruitlessTurn \/ run_sandbox
    PROVE  EvidenceInv'
<1>1. Turn /\ UNCHANGED disk
  BY DEF AnswerInText, FruitlessTurn, run_sandbox, Calls
<1>2. CASE End("error")
  BY <1>2, EndedWithout DEF Endings
<1>3. ASSUME NEW new, Step(new), new \in {Counted, [Counted EXCEPT !.texts = @ + 1],
                                          [Counted EXCEPT !.pc = "sandbox"]}
      PROVE  EvidenceInv'
  <2>1. new \in State
    BY <1>3 DEF Step, TypeInv, RunTyped
  <2>2. /\ new.step = 0 /\ new.round = st.round /\ new.fixRound = st.fixRound
        /\ new.result = st.result /\ new.confirmed = st.confirmed
        /\ new.fixed = st.fixed /\ new.phase = st.phase
    BY <1>1, <1>3, AtTurn DEF State
  <2> QED
    BY <1>1, <1>3, <2>1, <2>2, AtTurn, AgentMovesOn
<1> QED
  BY <1>2, <1>3 DEF AnswerInText, FruitlessTurn, run_sandbox

LEMMA AgentFailsClaims ==
    ASSUME TypeInv, EvidenceInv, ModelCallLimit \/ ModelFails \/ ToolRaises
    PROVE  EvidenceInv'
BY EndedWithout DEF ModelCallLimit, ModelFails, ToolRaises, Endings

LEMMA SubmitTestEditsClaims ==
    ASSUME TypeInv, TypeInv', EvidenceInv, Next, mode = "agent", UNCHANGED mode,
           submit_test_edits
    PROVE  EvidenceInv'
<1>1. Turn /\ "submit_test_edits" \in _allowed_tool_names
  BY DEF submit_test_edits, Calls
<1>2. st.phase = "reproducing" /\ ~st.confirmed /\ ~st.fixed
  BY <1>1, AtTurn DEF _allowed_tool_names, READ_ONLY_TOOLS, AgentShape
<1>3. CASE End("error")
  BY <1>3, EndedWithout DEF Endings
<1>4. ASSUME NEW p \in TestPatches, WriteTest(p), st.round # MaxRounds,
             Step([Counted EXCEPT !.test = TRUE, !.round = @ + 1,
                                  !.confirmed = FALSE, !.result = FALSE])
      PROVE  EvidenceInv'
  <2> DEFINE new == [Counted EXCEPT !.test = TRUE, !.round = @ + 1,
                                    !.confirmed = FALSE, !.result = FALSE]
  <2>1. Step(new) /\ new \in State
    BY <1>4 DEF Step, TypeInv, RunTyped
  <2>2. /\ new.step = 0 /\ new.round = st.round + 1 /\ new.fixRound = st.fixRound
        /\ new.phase = "reproducing" /\ ~new.result /\ ~new.confirmed /\ ~new.fixed
    BY <1>1, <1>2, AtTurn DEF State
  <2>3. disk'.result = disk.result
    BY <1>1, <1>4, AtTurn, WriteTestTyped
  <2>4. ClaimsInv /\ saved \in State /\ st \in State
    BY <1>1, AtTurn DEF EvidenceInv, TypeInv, RunTyped
  <2> HIDE DEF new
  <2>5. Behind(saved, new)
    BY <1>2, <2>2, <2>4 DEF ClaimsInv, Behind, State
  <2>6. AgentClaims(new, disk') /\ AgentClaims(saved, disk')
    BY <2>2, <2>3, <2>4 DEF ClaimsInv, AgentClaims
  <2> QED
    BY <1>1, <2>1, <2>2, <2>5, <2>6, AtTurn, Advanced
<1> QED
  BY <1>3, <1>4 DEF submit_test_edits

LEMMA SubmitFixEditsClaims ==
    ASSUME TypeInv, TypeInv', EvidenceInv, Next, mode = "agent", UNCHANGED mode,
           submit_fix_edits
    PROVE  EvidenceInv'
<1>1. Turn /\ "submit_fix_edits" \in _allowed_tool_names
  BY DEF submit_fix_edits, Calls
<1>2. st.phase = "repairing" /\ ~st.fixed
  BY <1>1, AtTurn DEF _allowed_tool_names, READ_ONLY_TOOLS, State
<1>3. CASE End("error")
  BY <1>3, EndedWithout DEF Endings
<1>4. ASSUME NEW p \in FixPatches, WriteFix(p), st.fixRound # MaxRounds,
             Step([Counted EXCEPT !.fix = TRUE, !.fixRound = @ + 1,
                                  !.fixed = FALSE, !.repair = FALSE])
      PROVE  EvidenceInv'
  <2> DEFINE new == [Counted EXCEPT !.fix = TRUE, !.fixRound = @ + 1,
                                    !.fixed = FALSE, !.repair = FALSE]
  <2>1. Step(new) /\ new \in State
    BY <1>4 DEF Step, TypeInv, RunTyped
  <2>2. /\ new.step = 0 /\ new.round = st.round /\ new.fixRound = st.fixRound + 1
        /\ new.phase = "repairing" /\ new.result = st.result
        /\ new.confirmed = st.confirmed /\ ~new.fixed
    BY <1>1, <1>2, AtTurn DEF State
  <2>3. disk'.result = disk.result /\ disk'.test = disk.test
    BY <1>1, <1>4, AtTurn, WriteFixTyped
  <2>4. ClaimsInv /\ saved \in State /\ st \in State
    BY <1>1, AtTurn DEF EvidenceInv, TypeInv, RunTyped
  <2>5. TestIsEvident'
    BY <1>2, <2>3, <2>4, TestStays DEF ClaimsInv
  <2> HIDE DEF new
  <2>6. Behind(saved, new)
    BY <1>2, <2>2, <2>4 DEF ClaimsInv, Behind, State
  <2>7. AgentClaims(new, disk') /\ AgentClaims(saved, disk')
    BY <2>2, <2>3, <2>4 DEF ClaimsInv, AgentClaims
  <2> QED
    BY <1>1, <2>1, <2>2, <2>5, <2>6, <2>7, AtTurn, Advanced
<1> QED
  BY <1>3, <1>4 DEF submit_fix_edits

LEMMA LearnResultClaims ==
    ASSUME TypeInv, TypeInv', EvidenceInv, Next, mode = "agent", UNCHANGED mode, LearnResult
    PROVE  EvidenceInv'
<1>1. /\ outcome = None /\ st.pc = "sandbox" /\ Conclude
  BY DEF LearnResult
<1>2. /\ ClaimsInv /\ st \in State /\ saved \in State /\ disk \in Disk
      /\ AgentShape(st) /\ call.request = _job /\ st.step = 0
  BY <1>1, Concluding DEF EvidenceInv, Shape, TypeInv, RunTyped, CallInv
<1>3. CASE answer \notin Results
  BY <1>3, EndedWithout DEF LearnResult, Endings
<1>4. CASE answer \in Results /\ st.phase = "reproducing"
  <2> DEFINE report == ClassifyReproduction(answer)
  <2>1. PICK s \in TimeSpent(st), c \in BOOLEAN :
           /\ WriteResult(Judged(call.request, answer, report))
           /\ Step([s EXCEPT !.pc = "turn", !.result = TRUE, !.confirmed = c])
           /\ c = (report = "reproduced")
    BY <1>4 DEF LearnResult
  <2> DEFINE new == [s EXCEPT !.pc = "turn", !.result = TRUE, !.confirmed = c]
  <2>2. Step(new) /\ new \in State /\ s \in State
    BY <1>2, <2>1, TimeSpentTyped DEF Step, TypeInv, RunTyped
  <2>3. /\ new.step = 0 /\ new.round = st.round /\ new.fixRound = st.fixRound
        /\ new.phase = "reproducing" /\ new.result /\ new.confirmed = c
        /\ ~new.fixed
    BY <1>2, <1>4, <2>2, TimeSpentTyped DEF State, AgentShape
  <2>4. /\ disk'.result.report = report
        /\ c => TestIsEvident'
    <3>1. call.request.test = disk.test /\ call.request.fix = None
      BY <1>2, <1>4 DEF _job
    <3>2. report \in Dispositions \cup {None}
      BY Classified
    <3> QED
      BY <1>1, <1>4, <2>1, <3>1, <3>2, NewTestFinding
  <2>5. ~st.result /\ ~st.confirmed /\ ~st.fixed
    BY <1>1, <1>2, <1>4 DEF AgentShape
  <2>6. saved.round = st.round => ~saved.result
    BY <1>2, <2>5 DEF ClaimsInv, Behind
  <2> HIDE DEF new
  <2>7. Behind(saved, new)
    BY <1>2, <1>4, <2>3, <2>5, <2>6 DEF ClaimsInv, Behind
  <2>8. AgentClaims(new, disk') /\ AgentClaims(saved, disk')
    <3>1. saved.round = MaxRounds => saved.round = st.round
      BY <1>2 DEF ClaimsInv, Behind, State
    <3> QED
      BY <2>1, <2>3, <2>4, <2>6, <3>1 DEF AgentClaims
  <2> QED
    BY <1>1, <2>2, <2>3, <2>4, <2>7, <2>8, Advanced
<1>5. CASE answer \in Results /\ st.phase # "reproducing"
  <2> DEFINE report == ClassifyTarget(answer)
  <2>1. PICK s \in TimeSpent(st), c \in BOOLEAN :
           /\ WriteRepair(Judged(call.request, answer, report))
           /\ Step([s EXCEPT !.pc = "turn", !.repair = TRUE, !.fixed = c])
           /\ c = (report = "target_passed")
    BY <1>5 DEF LearnResult
  <2> DEFINE new == [s EXCEPT !.pc = "turn", !.repair = TRUE, !.fixed = c]
  <2>2. Step(new) /\ new \in State /\ s \in State
    BY <1>2, <2>1, TimeSpentTyped DEF Step, TypeInv, RunTyped
  <2>3. /\ new.step = 0 /\ new.round = st.round /\ new.fixRound = st.fixRound
        /\ new.phase = "repairing" /\ new.result = st.result
        /\ new.confirmed = st.confirmed /\ new.fixed = c /\ st.phase = "repairing"
    BY <1>2, <1>5, <2>2, TimeSpentTyped DEF State
  <2>4. c => FixIsEvident'
    <3>1. call.request.test = disk.test /\ call.request.fix = disk.fix
      BY <1>2, <1>5 DEF _job
    <3>2. report \in Dispositions \cup {None}
      BY Classified
    <3> QED
      BY <1>1, <1>5, <2>1, <3>1, <3>2, NewFixFinding
  <2>5. disk'.test = disk.test /\ disk'.result = disk.result
    <3>1. Judged(call.request, answer, report) \in Evidence
      BY <1>1, <1>5, Classified, Concluding, JudgedTyped
    <3> QED
      BY <1>2, <2>1, <3>1, WriteRepairTyped
  <2>6. TestIsEvident'
    BY <1>2, <2>3, <2>5, TestStays DEF ClaimsInv
  <2>7. ~st.fixed
    BY <1>1, <1>2, <1>5 DEF AgentShape
  <2> HIDE DEF new
  <2>8. Behind(saved, new)
    BY <1>2, <2>3, <2>7 DEF ClaimsInv, Behind
  <2>9. AgentClaims(new, disk') /\ AgentClaims(saved, disk')
    BY <1>2, <2>3, <2>5 DEF AgentClaims, ClaimsInv
  <2> QED
    BY <1>1, <2>2, <2>3, <2>4, <2>6, <2>8, <2>9, Advanced
<1> QED
  BY <1>3, <1>4, <1>5

LEMMA CompleteClaims ==
    ASSUME TypeInv, TypeInv', EvidenceInv, Next, mode = "agent", UNCHANGED mode,
           complete_reproduction \/ complete_repair
    PROVE  EvidenceInv'
<1>1. Turn /\ UNCHANGED disk /\ ClaimsInv
  BY AtTurn DEF complete_reproduction, complete_repair, Calls, EvidenceInv
<1>2. CASE complete_reproduction
  <2> DEFINE new == [Counted EXCEPT !.phase = "repairing"]
  <2>1. Step(new) /\ new \in State
    BY <1>2 DEF complete_reproduction, Step, TypeInv, RunTyped
  <2>2. st.phase = "reproducing" /\ st.confirmed
    BY <1>1, <1>2, AtTurn
    DEF complete_reproduction, Calls, State, _allowed_tool_names, READ_ONLY_TOOLS
  <2>3. /\ new.step = 0 /\ new.round = st.round /\ new.fixRound = st.fixRound
        /\ new.result = st.result /\ new.confirmed = st.confirmed
        /\ new.fixed = st.fixed /\ new.phase = "repairing"
    BY <1>1, AtTurn DEF State
  <2>4. TestIsEvident
    BY <1>1, <2>2 DEF ClaimsInv
  <2> QED
    BY <1>1, <2>1, <2>3, <2>4, AtTurn, AgentMovesOn
<1>3. CASE complete_repair
  <2> DEFINE new == [Counted EXCEPT !.pc = "finish_reproduction"]
  <2>1. Step(new) /\ new \in State
    BY <1>3 DEF complete_repair, Step, TypeInv, RunTyped
  <2>2. /\ new.step = 0 /\ new.round = st.round /\ new.fixRound = st.fixRound
        /\ new.result = st.result /\ new.confirmed = st.confirmed
        /\ new.fixed = st.fixed /\ new.phase = st.phase
    BY <1>1, AtTurn DEF State
  <2> QED
    BY <1>1, <2>1, <2>2, AtTurn, AgentMovesOn
<1> QED
  BY <1>2, <1>3

LEMMA ReportBlockedClaims ==
    ASSUME TypeInv, TypeInv', EvidenceInv, Next, mode = "agent", UNCHANGED mode,
           report_blocked
    PROVE  EvidenceInv'
<1>1. PICK code \in BlockedCodes :
         /\ Turn /\ Justified(code)
         /\ disk' = IF st.phase = "repairing" /\ code = "needs_human"
                    THEN [disk EXCEPT !.repair.report = "needs_human"] ELSE disk
         /\ Step([Counted EXCEPT !.blocked = code, !.pc = route_after_repair_agent(code)])
  BY DEF report_blocked
<1> DEFINE new == [Counted EXCEPT !.blocked = code, !.pc = route_after_repair_agent(code)]
<1>2. Step(new) /\ new \in State
  BY <1>1 DEF Step, TypeInv, RunTyped
<1>3. /\ new.step = 0 /\ new.round = st.round /\ new.fixRound = st.fixRound
      /\ new.result = st.result /\ new.confirmed = st.confirmed
      /\ new.fixed = st.fixed /\ new.phase = st.phase
  BY <1>1, AtTurn DEF State
<1>4. /\ disk'.test = disk.test /\ disk'.fix = disk.fix /\ disk'.result = disk.result
      /\ \/ disk'.repair = disk.repair
         \/ /\ disk'.repair # None /\ disk'.repair.request = disk.repair.request
            /\ disk'.repair.result = disk.repair.result
  <2>1. CASE st.phase = "repairing" /\ code = "needs_human"
    <3>1. disk \in Disk /\ disk.repair \in Evidence
      BY <1>1, <2>1, AtTurn DEF Justified, BlockedCodes, Files, Disk
    <3>2. [disk.repair EXCEPT !.report = "needs_human"] \in Evidence
          /\ [disk.repair EXCEPT !.report = "needs_human"].request = disk.repair.request
          /\ [disk.repair EXCEPT !.report = "needs_human"].result = disk.repair.result
      BY <3>1 DEF Evidence, Dispositions
    <3>3. disk' = [disk EXCEPT !.repair = [disk.repair EXCEPT !.report = "needs_human"]]
      BY <1>1, <2>1
    <3> QED
      BY <3>1, <3>2, <3>3 DEF Disk
  <2> QED
    BY <1>1, <2>1
<1> HIDE DEF new
<1> QED
  BY <1>1, <1>2, <1>3, <1>4, AtTurn, AgentMovesOn

LEMMA FinishAgentBlockedClaims ==
    ASSUME TypeInv, mode = "agent", FinishAgentBlocked
    PROVE  EvidenceInv'
<1>1. AgentShape(st) /\ st.pc = "finish_agent_blocked"
  BY AtPlace DEF FinishAgentBlocked, Shape
<1>2. PICK how \in {"cannot_reproduce", "needs_human"} :
         how = (IF st.blocked = "cannot_reproduce" THEN "cannot_reproduce" ELSE "needs_human")
  OBVIOUS
<1>3. End(how) /\ how \in Endings /\ how # "validated"
      /\ (how = "cannot_reproduce" => ~st.result)
  BY <1>1, <1>2 DEF FinishAgentBlocked, AgentShape, Endings
<1> QED
  BY <1>3, EndedWithout

-----------------------------------------------------------------------------
(* The fixed loop *)

\* What is known of the state and of its checkpoint while the fixed loop runs.
LEMMA FixedKnows ==
    ASSUME TypeInv, EvidenceInv, mode = "fixed", outcome = None
    PROVE  /\ st \in State /\ saved \in State /\ disk \in Disk /\ DiskInv
           /\ FixedShape(st, disk) /\ FixedShape(saved, disk)
           /\ Files(st, disk) /\ Files(saved, disk)
           /\ ClaimsInv /\ Behind(saved, st)
           /\ st.phase = "repairing" => TestIsEvident
           /\ FixedClaims(st, ReproducedOnDisk, PassedOnDisk, TestIsEvident, FixIsEvident)
           /\ FixedClaims(saved, ReproducedOnDisk, PassedOnDisk, TestIsEvident, FixIsEvident)
           /\ NotSettled(saved, st, ReproducedOnDisk, PassedOnDisk)
           /\ st.pc # "validate" => st.step = 0
BY DEF TypeInv, RunTyped, PlaceInv, Shape, EvidenceInv, ClaimsInv

LEMMA PlanReproductionClaims ==
    ASSUME TypeInv, TypeInv', EvidenceInv, Next, mode = "fixed", UNCHANGED mode,
           PlanReproduction
    PROVE  EvidenceInv'
<1> DEFINE new == [st EXCEPT !.pc = "test_edit"]
<1>1. outcome = None /\ st.pc = "plan" /\ UNCHANGED disk
  BY DEF PlanReproduction, At
<1>2. CASE End("error")
  BY <1>2, EndedWithout DEF Endings
<1>3. CASE Step(new)
  <2>0. new \in State
    BY <1>3 DEF Step, TypeInv, RunTyped
  <2>1. /\ new.pc = "test_edit" /\ new.phase = "reproducing"
        /\ new.round = 0 /\ new.fixRound = 0
        /\ ~new.confirmed /\ ~new.fixed /\ new.step = 0
    BY <1>1, FixedKnows DEF State, FixedShape
  <2>2. saved.pc \notin {"classify", "classify_target", "finish_reproduction"} \cup Settled
        /\ saved.phase = "reproducing"
    BY <1>1, FixedKnows DEF Behind, FixedShape, Files, State, Settled
  <2> HIDE DEF new
  <2>3. Behind(saved, new)
    BY <1>1, <2>1, <2>2, FixedKnows DEF Behind, FixedShape
  <2> QED
    BY <1>1, <1>3, <2>0, <2>1, <2>2, <2>3, Advanced DEF FixedClaims, NotSettled, Settled
<1> QED
  BY <1>2, <1>3 DEF PlanReproduction

LEMMA GenerateTestEditClaims ==
    ASSUME TypeInv, TypeInv', EvidenceInv, Next, mode = "fixed", UNCHANGED mode,
           GenerateTestEdit
    PROVE  EvidenceInv'
<1> DEFINE round == st.round + 1
<1>1. outcome = None /\ st.pc = "test_edit" /\ st.phase = "reproducing"
  BY FixedKnows DEF GenerateTestEdit, At, FixedShape
<1>2. /\ saved.pc \notin {"classify_target", "finish_reproduction"} \cup Settled
      /\ saved.phase = "reproducing"
      /\ saved.pc = "classify" => ~ReproducedOnDisk
  BY <1>1, FixedKnows DEF Behind, FixedShape, State, NotSettled, Settled
<1>3. CASE End("error")
  BY <1>3, EndedWithout DEF Endings
<1>4. CASE TestSubmitted(round)
  <2> DEFINE new == [st EXCEPT !.pc = "sandbox", !.test = TRUE, !.round = round]
  <2>1. PICK p \in TestPatches : WriteTest(p) /\ Step(new)
    BY <1>4 DEF TestSubmitted, generate_reproduction_test
  <2>2. disk'.result = disk.result /\ disk'.repair = disk.repair
    BY <1>1, <2>1, FixedKnows, WriteTestTyped
  <2>3. new \in State
    BY <2>1 DEF Step, TypeInv, RunTyped
  <2>4. /\ new.pc = "sandbox" /\ new.phase = "reproducing"
        /\ new.round = st.round + 1 /\ new.fixRound = st.fixRound
        /\ ~new.confirmed /\ ~new.fixed /\ new.step = 0
    BY <1>1, FixedKnows DEF State, FixedShape
  <2> HIDE DEF new
  <2>5. Behind(saved, new)
    BY <1>1, <1>2, <2>4, FixedKnows DEF Behind, FixedShape, State
  <2>6. ReproducedOnDisk' = ReproducedOnDisk
    BY <2>2 DEF ReproducedOnDisk
  <2> QED
    BY <1>1, <1>2, <2>1, <2>3, <2>4, <2>5, <2>6, Advanced DEF FixedClaims, NotSettled, Settled
<1>5. CASE TestRefused(round)
  <2>1. PICK report \in {"invalid_test", "security_rejected"} :
           /\ WriteResult(Synthetic(report))
           /\ Step([st EXCEPT !.pc = AfterReproduction(report, round), !.test = FALSE,
                              !.result = TRUE, !.round = round])
    BY <1>5 DEF TestRefused
  <2> DEFINE new == [st EXCEPT !.pc = AfterReproduction(report, round), !.test = FALSE,
                               !.result = TRUE, !.round = round]
  <2>2. ~ReproducedOnDisk'
    <3>1. Synthetic(report) \in Evidence /\ Synthetic(report).result = None
      BY SyntheticTyped DEF Dispositions
    <3>2. disk'.result = Synthetic(report)
      BY <1>1, <2>1, <3>1, FixedKnows, WriteResultTyped
    <3> QED
      BY <3>1, <3>2, Classified DEF ReproducedOnDisk, AllResults
  <2>3. Step(new) /\ new \in State
    BY <2>1 DEF Step, TypeInv, RunTyped
  <2>4. /\ new.pc \in {"test_edit", "finish_reproduction"} /\ new.phase = "reproducing"
        /\ new.round = st.round + 1 /\ new.fixRound = st.fixRound
        /\ ~new.confirmed /\ ~new.fixed /\ new.step = 0
    BY <1>1, FixedKnows DEF State, FixedShape, AfterReproduction
  <2> HIDE DEF new
  <2>5. Behind(saved, new)
    BY <1>1, <1>2, <2>4, FixedKnows DEF Behind, FixedShape, State
  <2> QED
    BY <1>1, <1>2, <2>2, <2>3, <2>4, <2>5, Advanced DEF FixedClaims, NotSettled, Settled
<1> QED
  BY <1>3, <1>4, <1>5 DEF GenerateTestEdit

LEMMA LearnReproductionClaims ==
    ASSUME TypeInv, TypeInv', EvidenceInv, Next, mode = "fixed", UNCHANGED mode,
           LearnReproduction
    PROVE  EvidenceInv'
<1>1. outcome = None /\ st.pc = "sandbox" /\ st.phase = "reproducing" /\ Conclude
  BY DEF LearnReproduction
<1>2. CASE answer \notin Results
  BY <1>2, EndedWithout DEF LearnReproduction, Endings
<1>3. CASE answer \in Results
  <2> DEFINE new == [st EXCEPT !.pc = "classify", !.result = TRUE]
  <2>1. WriteResult(Judged(call.request, answer, None)) /\ Step(new)
    BY <1>3 DEF LearnReproduction
  <2>2. new \in State
    BY <2>1 DEF Step, TypeInv, RunTyped
  <2>3. /\ new.pc = "classify" /\ new.phase = "reproducing"
        /\ new.round = st.round /\ new.fixRound = st.fixRound
        /\ ~new.confirmed /\ ~new.fixed /\ new.step = 0
    BY <1>1, FixedKnows DEF State, FixedShape
  <2>4. ReproducedOnDisk' => TestIsEvident'
    <3>1. call.request.test = disk.test /\ call.request.fix = None
      BY <1>1, Concluding DEF CallInv, _job
    <3> QED
      BY <1>1, <1>3, <2>1, <3>1, NewTestFinding DEF ReproducedOnDisk
  <2>5. saved.pc \notin {"classify_target", "finish_reproduction"} \cup Settled
        /\ saved.phase = "reproducing"
    BY <1>1, FixedKnows DEF Behind, FixedShape, State, Settled
  <2> HIDE DEF new
  <2>6. Behind(saved, new)
    BY <1>1, <2>3, <2>5, FixedKnows DEF Behind, FixedShape, Settled
  <2> QED
    BY <1>1, <2>1, <2>2, <2>3, <2>4, <2>5, <2>6, Advanced DEF FixedClaims, NotSettled, Settled
<1> QED
  BY <1>2, <1>3

LEMMA ClassifyReproductionResultClaims ==
    ASSUME TypeInv, TypeInv', EvidenceInv, Next, mode = "fixed", UNCHANGED mode,
           ClassifyReproductionResult
    PROVE  EvidenceInv'
<1> DEFINE report == ClassifyReproduction(disk.result.result)
           new    == [st EXCEPT !.pc = AfterReproduction(report, st.round)]
<1>1. outcome = None /\ st.pc = "classify" /\ Step(new)
      /\ disk' = [disk EXCEPT !.result.report = report]
  BY DEF ClassifyReproductionResult, At
<1>2. new \in State
  BY <1>1 DEF Step, TypeInv, RunTyped
<1>3. /\ new.pc \in {"test_edit", "finish_reproduction"} /\ new.phase = "reproducing"
      /\ new.pc = "test_edit" => ~ReproducedOnDisk
      /\ new.round = st.round /\ new.fixRound = st.fixRound
      /\ ~new.confirmed /\ ~new.fixed /\ new.step = 0 /\ st.phase = "reproducing"
  BY <1>1, FixedKnows DEF State, FixedShape, AfterReproduction, ReproducedOnDisk
<1>4. /\ disk'.test = disk.test
      /\ disk'.result # None /\ disk'.result.request = disk.result.request
      /\ disk'.result.result = disk.result.result
  <2>1. disk \in Disk /\ disk.result \in Evidence
    BY <1>1, FixedKnows DEF FixedShape, Files, Disk
  <2>2. report \in Dispositions
    BY Classified
  <2>3. [disk.result EXCEPT !.report = report] \in Evidence
        /\ [disk.result EXCEPT !.report = report].request = disk.result.request
        /\ [disk.result EXCEPT !.report = report].result = disk.result.result
    BY <2>1, <2>2 DEF Evidence
  <2>4. disk' = [disk EXCEPT !.result = [disk.result EXCEPT !.report = report]]
    BY <1>1
  <2> QED
    BY <2>1, <2>3, <2>4 DEF Disk
<1>5. ReproducedOnDisk' = ReproducedOnDisk
  BY <1>4 DEF ReproducedOnDisk
<1>6. ReproducedOnDisk' => TestIsEvident'
  BY <1>1, <1>4, <1>5, FixedKnows, TestStays DEF FixedClaims
<1>7. saved.pc \notin {"classify_target", "finish_reproduction"} \cup Settled
      /\ saved.phase = "reproducing"
  BY <1>1, <1>3, FixedKnows DEF Behind, FixedShape, State, Settled
<1> HIDE DEF new
<1>8. Behind(saved, new)
  BY <1>1, <1>3, <1>7, FixedKnows DEF Behind, FixedShape, Settled
<1> QED
  BY <1>1, <1>2, <1>3, <1>5, <1>6, <1>7, <1>8, Advanced DEF FixedClaims, NotSettled, Settled

LEMMA GenerateFixEditClaims ==
    ASSUME TypeInv, TypeInv', EvidenceInv, Next, mode = "fixed", UNCHANGED mode,
           GenerateFixEdit
    PROVE  EvidenceInv'
<1> DEFINE round == st.fixRound + 1
<1>1. outcome = None /\ st.pc = "fix_edit" /\ st.phase = "repairing"
  BY FixedKnows DEF GenerateFixEdit, At, FixedShape
<1>2. /\ saved.pc \notin Settled
      /\ saved.pc = "classify_target" => ~PassedOnDisk
  BY <1>1, FixedKnows DEF Behind, NotSettled, Settled
<1>3. CASE End("error") \/ End("budget_exhausted")
  BY <1>3, EndedWithout DEF Endings
<1>4. ASSUME NEW new, Step(new), disk'.test = disk.test, disk'.result = disk.result,
             new.pc \in {"sandbox", "fix_edit", "finish_repair_failure"},
             new.phase = "repairing", new.round = st.round, new.fixRound = round,
             ~new.confirmed, ~new.fixed, new.step = 0,
             saved.pc = "classify_target" => ~PassedOnDisk'
      PROVE  EvidenceInv'
  <2>1. new \in State
    BY <1>4 DEF Step, TypeInv, RunTyped
  <2>2. TestIsEvident' /\ ReproducedOnDisk' = ReproducedOnDisk
    BY <1>1, <1>4, FixedKnows, TestStays DEF ReproducedOnDisk
  <2>3. Behind(saved, new)
    BY <1>1, <1>2, <1>4, FixedKnows DEF Behind, FixedShape, State
  <2> QED
    BY <1>1, <1>2, <1>4, <2>1, <2>2, <2>3, FixedKnows, Advanced
    DEF FixedClaims, NotSettled, Settled
<1>5. CASE FixSubmitted(round)
  <2> DEFINE new == [st EXCEPT !.pc = "sandbox", !.fix = TRUE, !.repair = FALSE,
                               !.fixRound = round]
  <2>1. PICK p \in FixPatches : WriteFix(p) /\ Step(new)
    BY <1>5 DEF FixSubmitted, generate_fix
  <2>2. disk'.test = disk.test /\ disk'.result = disk.result /\ disk'.repair = disk.repair
    BY <1>1, <2>1, FixedKnows, WriteFixTyped
  <2>3. PassedOnDisk' = PassedOnDisk
    BY <2>2 DEF PassedOnDisk
  <2>4. /\ new.pc = "sandbox" /\ new.phase = "repairing"
        /\ new.round = st.round /\ new.fixRound = round
        /\ ~new.confirmed /\ ~new.fixed /\ new.step = 0
    BY <1>1, FixedKnows DEF State, FixedShape
  <2> HIDE DEF new, round
  <2> QED
    BY <1>2, <1>4, <2>1, <2>2, <2>3, <2>4
<1>6. CASE FixRefused(round)
  <2>1. PICK report \in {"invalid_result", "security_rejected", "needs_human"},
             p \in FixPatches \cup {disk.fix} :
           /\ disk' = [disk EXCEPT !.repair = Synthetic(report), !.fix = p]
           /\ Step([st EXCEPT !.pc = AfterTarget(report, round), !.fix = FALSE,
                              !.repair = TRUE, !.fixRound = round])
    BY <1>6 DEF FixRefused, generate_fix
  <2> DEFINE new == [st EXCEPT !.pc = AfterTarget(report, round), !.fix = FALSE,
                               !.repair = TRUE, !.fixRound = round]
  <2>2. Synthetic(report).result = None
    BY SyntheticTyped DEF Dispositions
  <2>3. disk'.test = disk.test /\ disk'.result = disk.result /\ disk'.repair = Synthetic(report)
    BY <1>1, <2>1, FixedKnows DEF Disk
  <2>4. ~PassedOnDisk'
    BY <2>2, <2>3, Classified DEF PassedOnDisk, AllResults
  <2>5. AfterTarget(report, round) \in {"fix_edit", "finish_repair_failure"}
    BY AfterTargetPlaces
  <2>6. /\ new.pc = AfterTarget(report, round) /\ new.phase = "repairing"
        /\ new.round = st.round /\ new.fixRound = round
        /\ ~new.confirmed /\ ~new.fixed /\ new.step = 0
    BY <1>1, FixedKnows DEF State, FixedShape
  <2> HIDE DEF new, round
  <2> QED
    BY <1>4, <2>1, <2>3, <2>4, <2>5, <2>6 DEF new
<1> QED
  BY <1>3, <1>5, <1>6 DEF GenerateFixEdit, BudgetSpent

LEMMA LearnTargetClaims ==
    ASSUME TypeInv, TypeInv', EvidenceInv, Next, mode = "fixed", UNCHANGED mode, LearnTarget
    PROVE  EvidenceInv'
<1>1. outcome = None /\ st.pc = "sandbox" /\ st.phase = "repairing" /\ Conclude
  BY DEF LearnTarget
<1>2. CASE End("error") \/ End("budget_exhausted")
  BY <1>2, EndedWithout DEF Endings
<1> DEFINE new == [st EXCEPT !.pc = "classify_target", !.repair = TRUE]
<1>3. CASE answer \in Results /\ Step(new)
           /\ WriteRepair(Judged(call.request, answer, None))
  <2>1. new \in State
    BY <1>3 DEF Step, TypeInv, RunTyped
  <2>2. /\ new.pc = "classify_target" /\ new.phase = "repairing"
        /\ new.round = st.round /\ new.fixRound = st.fixRound
        /\ ~new.confirmed /\ ~new.fixed /\ new.step = 0
    BY <1>1, FixedKnows DEF State, FixedShape
  <2>3. PassedOnDisk' => FixIsEvident'
    <3>1. call.request.test = disk.test /\ call.request.fix = disk.fix
      BY <1>1, Concluding DEF CallInv, _job
    <3> QED
      BY <1>1, <1>3, <3>1, NewFixFinding DEF PassedOnDisk
  <2>4. disk'.test = disk.test /\ disk'.result = disk.result
    <3>1. Judged(call.request, answer, None) \in Evidence
      BY <1>1, <1>3, Concluding, JudgedTyped
    <3> QED
      BY <1>1, <1>3, <3>1, FixedKnows, WriteRepairTyped
  <2>5. TestIsEvident' /\ ReproducedOnDisk' = ReproducedOnDisk
    BY <1>1, <2>4, FixedKnows, TestStays DEF ReproducedOnDisk
  <2>6. saved.pc \notin Settled
    BY <1>1, FixedKnows DEF Behind, Settled
  <2> HIDE DEF new
  <2>7. Behind(saved, new)
    BY <1>1, <2>2, <2>6, FixedKnows DEF Behind, FixedShape
  <2> QED
    BY <1>1, <1>3, <2>1, <2>2, <2>3, <2>5, <2>6, <2>7, FixedKnows, Advanced
    DEF FixedClaims, NotSettled, Settled
<1> QED
  BY <1>2, <1>3 DEF LearnTarget

LEMMA ClassifyTargetResultClaims ==
    ASSUME TypeInv, TypeInv', EvidenceInv, Next, mode = "fixed", UNCHANGED mode,
           ClassifyTargetResult
    PROVE  EvidenceInv'
<1> DEFINE report == ClassifyTarget(disk.repair.result)
           place  == AfterTarget(report, st.fixRound)
           new    == [st EXCEPT !.pc = place]
<1>1. outcome = None /\ st.pc = "classify_target" /\ Step(new)
      /\ disk' = [disk EXCEPT !.repair.report = report]
  BY DEF ClassifyTargetResult, At
<1>2. new \in State
  BY <1>1 DEF Step, TypeInv, RunTyped
<1>3. /\ place \in {"fix_edit", "finish_repair_success", "finish_repair_failure"}
      /\ place = "fix_edit" => ~PassedOnDisk
      /\ place = "finish_repair_success" => PassedOnDisk
  BY AfterTargetPlaces DEF PassedOnDisk
<1>4. /\ disk'.test = disk.test /\ disk'.fix = disk.fix /\ disk'.result = disk.result
      /\ disk'.repair # None /\ disk'.repair.request = disk.repair.request
      /\ disk'.repair.result = disk.repair.result
  <2>1. disk \in Disk /\ disk.repair \in Evidence
    BY <1>1, FixedKnows DEF FixedShape, Files, Disk
  <2>2. report \in Dispositions
    BY Classified
  <2>3. [disk.repair EXCEPT !.report = report] \in Evidence
        /\ [disk.repair EXCEPT !.report = report].request = disk.repair.request
        /\ [disk.repair EXCEPT !.report = report].result = disk.repair.result
    BY <2>1, <2>2 DEF Evidence
  <2>4. disk' = [disk EXCEPT !.repair = [disk.repair EXCEPT !.report = report]]
    BY <1>1
  <2> QED
    BY <2>1, <2>3, <2>4 DEF Disk
<1>5. PassedOnDisk' = PassedOnDisk /\ ReproducedOnDisk' = ReproducedOnDisk
  BY <1>4 DEF PassedOnDisk, ReproducedOnDisk
<1>6. PassedOnDisk' => FixIsEvident'
  BY <1>1, <1>4, <1>5, FixedKnows, FixStays DEF FixedClaims
<1>7. TestIsEvident'
  BY <1>1, <1>4, FixedKnows, TestStays DEF FixedShape
<1> HIDE DEF place
<1>8. /\ new.pc = place /\ new.phase = "repairing"
      /\ new.round = st.round /\ new.fixRound = st.fixRound
      /\ ~new.confirmed /\ ~new.fixed /\ new.step = 0
  BY <1>1, FixedKnows DEF State, FixedShape
<1>9. saved.pc \notin Settled
  BY <1>1, FixedKnows DEF Behind, Settled
<1> HIDE DEF new
<1>10. Behind(saved, new)
  BY <1>1, <1>8, <1>9, FixedKnows DEF Behind, FixedShape
<1> QED
  BY <1>1, <1>2, <1>3, <1>5, <1>6, <1>7, <1>8, <1>9, <1>10, FixedKnows, Advanced
  DEF FixedClaims, NotSettled, Settled

-----------------------------------------------------------------------------
(* The nodes both loops share *)

LEMMA FinishReproductionClaims ==
    ASSUME TypeInv, TypeInv', EvidenceInv, Next, UNCHANGED mode,
           NEW place, FinishReproduction(place),
           \/ mode = "agent" /\ place = route_after_agent_reproduction_finish
           \/ mode = "fixed" /\ place = "fix_edit"
    PROVE  EvidenceInv'
<1> DEFINE new == [st EXCEPT !.phase = "repairing", !.pc = place]
<1>1. /\ outcome = None /\ st.pc = "finish_reproduction"
      /\ st \in State /\ Shape(st, disk) /\ DiskInv /\ UNCHANGED disk /\ ClaimsInv
  BY AtPlace DEF FinishReproduction, EvidenceInv
<1>2. CASE End("security_rejected")
  BY <1>2, EndedWithout DEF Endings
<1>3. CASE ~ReproductionMade /\ End("cannot_reproduce")
  <2>1. ~ReproductionMade'
    BY <1>1, <1>3 DEF ReproductionMade
  <2> QED
    BY <1>3, <2>1, EndedWithout DEF Endings
<1>4. CASE ReproductionMade /\ Step(new)
  <2>1. new \in State
    BY <1>4 DEF Step, TypeInv, RunTyped
  <2>2. /\ new.pc = place /\ new.phase = "repairing" /\ new.result = st.result
        /\ new.confirmed = st.confirmed /\ new.fixed = st.fixed
        /\ new.round = st.round /\ new.fixRound = st.fixRound /\ new.step = 0
    BY <1>1 DEF State, Shape
  <2>3. CASE mode = "agent"
    <3>1. st.confirmed \/ st.phase = "repairing"
      BY <1>1, <1>4, <2>3 DEF Shape, AgentShape, ClaimsInv, AgentClaims, ReproductionMade, State
    <3>2. TestIsEvident
      BY <1>1, <3>1 DEF ClaimsInv
    <3> HIDE DEF new
    <3> QED
      BY <1>1, <1>4, <2>1, <2>2, <2>3, <3>2, AgentMovesOn
  <2>4. CASE mode = "fixed" /\ place = "fix_edit"
    <3>1. ReproducedOnDisk
      BY <1>1, <1>4, <2>4 DEF ReproductionMade, ReproducedOnDisk, DiskInv, Shape, FixedShape, Files
    <3>2. TestIsEvident' /\ ReproducedOnDisk' = ReproducedOnDisk
      BY <1>1, <2>4, <3>1, FixedKnows, TestStays DEF FixedClaims, ReproducedOnDisk
    <3>3. saved.phase = "reproducing" /\ saved.pc \notin {"classify_target"} \cup Settled
      BY <1>1, <2>4, FixedKnows DEF Behind, FixedShape, State, Settled
    <3> HIDE DEF new
    <3>4. Behind(saved, new)
      BY <1>1, <2>2, <2>4, <3>3, FixedKnows DEF Behind, FixedShape
    <3>5. ~new.confirmed /\ ~new.fixed
      BY <1>1, <2>2, <2>4, FixedKnows DEF FixedShape
    <3> QED
      BY <1>1, <1>4, <2>1, <2>2, <2>4, <3>2, <3>3, <3>4, <3>5, Advanced
      DEF FixedClaims, NotSettled, Settled
  <2> QED
    BY <2>3, <2>4
<1> QED
  BY <1>2, <1>3, <1>4 DEF FinishReproduction

LEMMA FinishRepairSuccessClaims ==
    ASSUME TypeInv, TypeInv', EvidenceInv, Next, UNCHANGED mode, FinishRepairSuccess
    PROVE  EvidenceInv'
<1> DEFINE new == [st EXCEPT !.pc = "validate"]
<1>1. /\ outcome = None /\ st.pc = "finish_repair_success"
      /\ st \in State /\ Shape(st, disk) /\ UNCHANGED <<disk, verdicts>> /\ ClaimsInv
  BY AtPlace DEF FinishRepairSuccess, EvidenceInv, sandboxVars
<1>2. CASE End("error")
  BY <1>2, EndedWithout DEF Endings
<1>3. CASE Step(new)
  <2>1. new \in State
    BY <1>3 DEF Step, TypeInv, RunTyped
  <2>2. /\ new.pc = "validate" /\ new.phase = st.phase /\ new.result = st.result
        /\ new.confirmed = st.confirmed /\ new.fixed = st.fixed
        /\ new.round = st.round /\ new.fixRound = st.fixRound /\ new.step = 0
    BY <1>1 DEF State, Shape
  <2> HIDE DEF new
  <2>3. CASE mode = "agent"
    BY <1>1, <1>3, <2>1, <2>2, <2>3, AgentMovesOn
  <2>4. CASE mode = "fixed"
    <3>1. st.phase = "repairing" /\ TestIsEvident /\ FixIsEvident
      BY <1>1, <2>4, FixedKnows DEF FixedShape, FixedClaims, Settled
    <3>2. /\ TestIsEvident' /\ FixIsEvident'
          /\ ReproducedOnDisk' = ReproducedOnDisk /\ PassedOnDisk' = PassedOnDisk
      BY <1>1, <3>1, TestStays, FixStays DEF ReproducedOnDisk, PassedOnDisk
    <3>3. Behind(saved, new)
      BY <1>1, <2>2, <2>4, <3>1, FixedKnows DEF Behind, FixedShape, Settled
    <3>4. ~new.confirmed /\ ~new.fixed
      BY <1>1, <2>2, <2>4, FixedKnows DEF FixedShape
    <3> QED
      BY <1>1, <1>3, <2>1, <2>2, <2>4, <3>1, <3>2, <3>3, <3>4, FixedKnows, Advanced
      DEF FixedClaims, NotSettled, Settled
  <2> QED
    BY <2>3, <2>4 DEF TypeInv
<1> QED
  BY <1>2, <1>3 DEF FinishRepairSuccess

LEMMA FinishRepairFailureClaims ==
    ASSUME TypeInv, FinishRepairFailure
    PROVE  EvidenceInv'
<1> DEFINE how == IF ~st.repair THEN "error"
                  ELSE IF disk.repair.report \in {"needs_human", "security_rejected"}
                       THEN disk.repair.report ELSE "failed"
<1>1. how \in Endings /\ how \notin {"validated", "cannot_reproduce"}
  BY DEF Endings
<1>2. End(how)
  BY DEF FinishRepairFailure
<1> HIDE DEF how
<1> QED
  BY <1>1, <1>2, EndedWithout

\* A run whose budget is used up.
LEMMA BudgetClaims ==
    ASSUME TypeInv, ValidationBudget \/ TargetBudget
    PROVE  EvidenceInv'
BY EndedWithout DEF ValidationBudget, TargetBudget, BudgetSpent, Endings

LEMMA WaitsClaims ==
    ASSUME TypeInv, TypeInv', EvidenceInv, Next, UNCHANGED mode,
           SubmitJob \/ SubmitReproduction \/ SubmitTarget \/ SubmitFinal \/ ServiceStep
    PROVE  EvidenceInv'
BY WaitingKeeps DEF SubmitJob, SubmitReproduction, SubmitTarget, SubmitFinal, ServiceStep

\* What has been executed anew of the validation, once one more answer arrived.
LEMMA OneMoreFinal ==
    ASSUME TypeInv, outcome = None, ClaimsInv, st.pc = "validate", Conclude, answer \in Results,
           NEW g \in BOOLEAN, g = (Good(st.step + 1, answer) /\ (st.step + 1 = 1 \/ st.good))
    PROVE  \A k \in 1..3 : k <= st.step + 1 =>
              /\ verdicts[<<"final", k>>] # None
              /\ verdicts[<<"final", k>>].request = FinalRequest(k)
              /\ g => Good(k, verdicts[<<"final", k>>].result)
<1>1. st \in State /\ st.step <= 2
  BY Concluding DEF Shape
<1>2. /\ call.request \in Requests
      /\ verdicts[call.request.job] = Verdict(call.request, answer)
  BY ConcludedVerdict DEF TypeInv
<1>3. call.request = FinalRequest(st.step + 1) /\ call.request.job = <<"final", st.step + 1>>
  BY Concluding DEF CallInv, FinalRequest
<1>4. verdicts[call.request.job] # None
  BY <1>2 DEF Verdict, Verdicts
<1> SUFFICES ASSUME NEW k \in 1..3, k <= st.step + 1
             PROVE  /\ verdicts[<<"final", k>>] # None
                    /\ verdicts[<<"final", k>>].request = FinalRequest(k)
                    /\ g => Good(k, verdicts[<<"final", k>>].result)
  OBVIOUS
<1>5. CASE k = st.step + 1
  <2>1. verdicts[<<"final", k>>].request = FinalRequest(k)
        /\ verdicts[<<"final", k>>].result = answer
    BY <1>2, <1>3, <1>5 DEF Verdict
  <2> QED
    BY <1>3, <1>4, <1>5, <2>1
<1>6. CASE k <= st.step
  <2>1. st.step + 1 # 1 /\ g => st.good
    BY <1>1, <1>6 DEF State
  <2> QED
    BY <1>1, <1>6, <2>1 DEF ClaimsInv, FinalsSoFar, State
<1> QED
  BY <1>1, <1>5, <1>6 DEF State

LEMMA LearnFinalClaims ==
    ASSUME TypeInv, TypeInv', EvidenceInv, Next, UNCHANGED mode, LearnFinal
    PROVE  EvidenceInv'
<1>1. /\ outcome = None /\ st.pc = "validate" /\ Conclude /\ UNCHANGED <<disk, verdicts>>
      /\ st \in State /\ Shape(st, disk) /\ ClaimsInv
  BY Concluding DEF LearnFinal, EvidenceInv, Conclude, worker
<1>2. CASE answer \notin Results
  BY <1>2, EndedWithout DEF LearnFinal, Endings
<1>3. CASE answer \in Results
  <2> DEFINE k == st.step + 1
  <2>1. PICK g \in BOOLEAN : g = (Good(k, answer) /\ (k = 1 \/ st.good))
    OBVIOUS
  <2>2. PICK s \in TimeSpent([st EXCEPT !.step = k, !.good = g]) :
           IF k < 3 THEN Within(s)
           ELSE End(IF s.spent THEN "budget_exhausted"
                    ELSE IF g THEN "validated" ELSE "rejected")
    BY <1>3, <2>1 DEF LearnFinal
  <2>3. \A j \in 1..3 : j <= k =>
           /\ verdicts[<<"final", j>>] # None
           /\ verdicts[<<"final", j>>].request = FinalRequest(j)
           /\ g => Good(j, verdicts[<<"final", j>>].result)
    BY <1>1, <1>3, <2>1, OneMoreFinal
  <2>4. TestIsEvident /\ FixIsEvident
    <3>1. CASE mode = "agent"
      BY <1>1, <3>1 DEF Shape, AgentShape, ClaimsInv
    <3>2. CASE mode = "fixed"
      BY <1>1, <3>2, FixedKnows DEF FixedShape, FixedClaims, Settled
    <3> QED
      BY <3>1, <3>2 DEF TypeInv
  <2>5. TestIsEvident' /\ FixIsEvident'
    BY <1>1, <2>4, TestStays, FixStays
  <2>6. CASE k < 3
    <3> DEFINE r == [st EXCEPT !.step = k, !.good = g]
    <3>1. r \in State /\ r.step = k /\ r.good = g /\ r.pc = st.pc /\ r.phase = st.phase
          /\ r.round = st.round /\ r.fixRound = st.fixRound /\ r.result = st.result
          /\ r.confirmed = st.confirmed /\ r.fixed = st.fixed
      <4>1. k \in 0..3
        BY <1>1, <2>6 DEF State
      <4> QED
        BY <1>1, <4>1 DEF State
    <3> HIDE DEF r
    <3>2. /\ s.step = k /\ s.good = g /\ s.pc = st.pc /\ s.phase = st.phase
          /\ s.round = st.round /\ s.fixRound = st.fixRound /\ s.result = st.result
          /\ s.confirmed = st.confirmed /\ s.fixed = st.fixed
      BY <2>2, <3>1, TimeSpentTyped DEF r
    <3>3. st' = s /\ saved' = saved /\ outcome' = None
      BY <1>1, <2>2, <2>6 DEF Within
    <3>4. FinalsSoFar'
      BY <1>1, <2>3, <3>2, <3>3 DEF FinalsSoFar, FinalRequest
    <3>5. Behind(saved, st)'
      BY <1>1, <3>2, <3>3 DEF ClaimsInv, Behind
    <3>6. mode = "agent" => AgentClaims(st, disk)' /\ AgentClaims(saved, disk)'
      BY <1>1, <3>2, <3>3 DEF ClaimsInv, AgentClaims
    <3>7. mode = "fixed" =>
             /\ FixedClaims(st, ReproducedOnDisk, PassedOnDisk, TestIsEvident, FixIsEvident)'
             /\ FixedClaims(saved, ReproducedOnDisk, PassedOnDisk, TestIsEvident, FixIsEvident)'
             /\ NotSettled(saved, st, ReproducedOnDisk, PassedOnDisk)'
      BY <1>1, <2>5, <3>2, <3>3 DEF ClaimsInv, FixedClaims, NotSettled, ReproducedOnDisk, PassedOnDisk
    <3>8. ClaimsInv'
      BY <2>5, <3>4, <3>5, <3>6, <3>7 DEF ClaimsInv
    <3> QED
      BY <3>3, <3>8 DEF EvidenceInv, ReproducedIsNotDismissed, Endings
  <2>7. CASE ~(k < 3)
    <3>1. k = 3
      BY <1>1, <2>7 DEF Shape, State
    <3>2. CASE End("validated") /\ g
      <4>1. FinalIsEvident'
        BY <1>1, <2>3, <3>1, <3>2 DEF FinalIsEvident, FinalRequest
      <4> QED
        BY <2>5, <3>2, <4>1 DEF End, EvidenceInv, ReproducedIsNotDismissed, Endings
    <3>3. CASE End("budget_exhausted") \/ End("rejected")
      BY <3>3, EndedWithout DEF Endings
    <3> QED
      BY <2>2, <2>7, <3>2, <3>3
  <2> QED
    BY <2>6, <2>7
<1> QED
  BY <1>2, <1>3

\* The restarted run claims what its checkpoint did.
LEMMA ProcessDiesClaims ==
    ASSUME TypeInv, TypeInv', EvidenceInv, Next, UNCHANGED mode, ProcessDies
    PROVE  EvidenceInv'
<1>1. /\ outcome = None /\ outcome' = None /\ st' = saved
      /\ UNCHANGED <<saved, disk, verdicts>> /\ ClaimsInv
      /\ saved \in State /\ saved.step = 0
  BY DEF ProcessDies, CallerDies, EvidenceInv, TypeInv, RunTyped, PlaceInv
<1>2. /\ TestIsEvident' = TestIsEvident /\ FixIsEvident' = FixIsEvident
      /\ ReproducedOnDisk' = ReproducedOnDisk /\ PassedOnDisk' = PassedOnDisk
  BY <1>1 DEF TestIsEvident, FixIsEvident, Stored, ReproducedOnDisk, PassedOnDisk
<1>3. Behind(saved, st)'
  BY <1>1 DEF Behind, State
<1>4. FinalsSoFar'
  BY <1>1 DEF FinalsSoFar
<1>5. saved.confirmed \/ saved.phase = "repairing" => TestIsEvident
  BY <1>1 DEF ClaimsInv, Behind
<1>6. saved.fixed => FixIsEvident
  BY <1>1 DEF ClaimsInv, Behind
<1>7. mode = "agent" => AgentClaims(st, disk)' /\ AgentClaims(saved, disk)'
  BY <1>1 DEF ClaimsInv, AgentClaims
<1>8. mode = "fixed" =>
         /\ FixedClaims(st, ReproducedOnDisk, PassedOnDisk, TestIsEvident, FixIsEvident)'
         /\ FixedClaims(saved, ReproducedOnDisk, PassedOnDisk, TestIsEvident, FixIsEvident)'
         /\ NotSettled(saved, st, ReproducedOnDisk, PassedOnDisk)'
  BY <1>1, <1>2 DEF ClaimsInv, FixedClaims, NotSettled
<1>9. ClaimsInv'
  BY <1>1, <1>2, <1>3, <1>4, <1>5, <1>6, <1>7, <1>8 DEF ClaimsInv
<1> QED
  BY <1>1, <1>9 DEF EvidenceInv, ReproducedIsNotDismissed, Endings

-----------------------------------------------------------------------------
(* The second layer holds *)

LEMMA EvidenceInit == Init => EvidenceInv
<1> SUFFICES ASSUME Init PROVE EvidenceInv
  OBVIOUS
<1>1. outcome = None /\ saved = st /\ TypeInv
  BY TypeInvInit DEF Init
<1>2. st \in State /\ disk \in Disk
  BY <1>1 DEF TypeInv, RunTyped
<1>3. \E place \in {"probe", "plan"} : st = [Fresh EXCEPT !.pc = place]
  BY DEF Init
<1>4. /\ st.phase = "reproducing" /\ ~st.confirmed /\ ~st.fixed /\ ~st.result /\ st.step = 0
      /\ st.pc \in {"probe", "plan"}
  BY <1>3 DEF Fresh
<1>5. Behind(saved, st)
  BY <1>1, <1>2 DEF Behind, State
<1>6. FinalsSoFar
  BY <1>4 DEF FinalsSoFar
<1>7. ClaimsInv
  BY <1>1, <1>4, <1>5, <1>6 DEF ClaimsInv, AgentClaims, FixedClaims, NotSettled, Settled
<1> QED
  BY <1>1, <1>7 DEF EvidenceInv, ReproducedIsNotDismissed, Endings

LEMMA EvidenceStep == TypeInv /\ TypeInv' /\ EvidenceInv /\ [Next]_vars => EvidenceInv'
<1> SUFFICES ASSUME TypeInv, TypeInv', EvidenceInv, [Next]_vars PROVE EvidenceInv'
  OBVIOUS
<1>1. CASE UNCHANGED vars
  BY <1>1, WaitingKeeps DEF vars
<1>2. CASE Next /\ mode = "agent" /\ AgentStep
  <2>1. UNCHANGED mode
    BY <1>2 DEF Next
  <2> QED
    BY <1>2, <2>1, ProbeClaims, LearnProbeClaims, QuietTurnClaims, AgentFailsClaims,
       SubmitTestEditsClaims, SubmitFixEditsClaims, WaitsClaims, LearnResultClaims,
       CompleteClaims, ReportBlockedClaims, FinishReproductionClaims, FinishAgentBlockedClaims
    DEF AgentStep
<1>3. CASE Next /\ mode = "fixed" /\ FixedStep
  <2>1. UNCHANGED mode
    BY <1>3 DEF Next
  <2> QED
    BY <1>3, <2>1, PlanReproductionClaims, GenerateTestEditClaims, WaitsClaims,
       LearnReproductionClaims, ClassifyReproductionResultClaims, FinishReproductionClaims,
       GenerateFixEditClaims, BudgetClaims, LearnTargetClaims, ClassifyTargetResultClaims
    DEF FixedStep
<1>4. CASE Next /\ SharedStep
  <2>1. UNCHANGED mode
    BY <1>4 DEF Next
  <2> QED
    BY <1>4, <2>1, FinishRepairSuccessClaims, FinishRepairFailureClaims, WaitsClaims,
       BudgetClaims, LearnFinalClaims, ProcessDiesClaims
    DEF SharedStep
<1>5. CASE Next /\ ServiceStep
  BY <1>5, WaitsClaims DEF Next
<1> QED
  BY <1>1, <1>2, <1>3, <1>4, <1>5 DEF Next

LEMMA EvidenceHolds == Spec => [](TypeInv /\ EvidenceInv)
<1>1. Init => TypeInv /\ EvidenceInv
  BY TypeInvInit, EvidenceInit
<1>2. TypeInv /\ EvidenceInv /\ [Next]_vars => (TypeInv /\ EvidenceInv)'
  BY TypeInvStep, EvidenceStep
<1> QED
  BY <1>1, <1>2, PTL DEF Spec

\* A reproduction, a repair and a validation are claimed only on the sandbox's verdict
\* about the very patches in the artifact directory, for any number of rounds, however
\* far the checkpoint lags and however often the process dies (graph.py validate_final,
\* tools.py _run_reproduction and _run_repair).
THEOREM EvidenceIsOfThePatch == Spec => []EvidenceMatchesPatch
<1>1. TypeInv /\ EvidenceInv => EvidenceMatchesPatch
  <2> SUFFICES ASSUME TypeInv, EvidenceInv PROVE EvidenceMatchesPatch
    OBVIOUS
  <2>1. ASSUME outcome = None, st.fixed \/ st.pc \in Settled
        PROVE  FixIsEvident
    <3>1. Shape(st, disk) /\ ClaimsInv /\ mode \in {"agent", "fixed"}
      BY <2>1 DEF TypeInv, PlaceInv, EvidenceInv
    <3>2. CASE mode = "agent"
      BY <2>1, <3>1, <3>2 DEF Shape, AgentShape, ClaimsInv, Settled
    <3>3. CASE mode = "fixed"
      BY <2>1, <3>1, <3>3 DEF ClaimsInv, FixedClaims
    <3> QED
      BY <3>1, <3>2, <3>3
  <2> QED
    BY <2>1 DEF EvidenceInv, ClaimsInv, EvidenceMatchesPatch, Settled
<1> QED
  BY <1>1, EvidenceHolds, PTL

\* An agent that gives up after a reproduction, in whatever round and after whatever
\* restart, does not close the feedback as one that cannot be reproduced (graph.py
\* route_after_repair_agent, finish_reproduction).
THEOREM ReproductionStands == Spec => []ReproducedIsNotDismissed
<1>1. EvidenceInv => ReproducedIsNotDismissed
  BY DEF EvidenceInv
<1> QED
  BY <1>1, EvidenceHolds, PTL

-----------------------------------------------------------------------------
(* A run that was never resumed asks for each job once *)

\* t comes after s: what s will not ask for, t will not either.
Later(s, t) ==
    /\ s.pc # "probe" => t.pc # "probe"
    /\ s.round <= t.round
    /\ s.round = t.round =>
          IF mode = "agent" THEN s.result => t.result
          ELSE t.pc = "sandbox" /\ t.phase = "reproducing" =>
                  s.pc = "sandbox" /\ s.phase = "reproducing"
    /\ s.fixRound <= t.fixRound
    /\ s.fixRound = t.fixRound /\ s.repair => t.repair
    /\ s.pc = "validate" => t.pc = "validate" /\ s.step <= t.step

\* The job the run asks for is none it has done with.
LEMMA AskedForIsNotPast ==
    ASSUME TypeInv, outcome = None, call # None
    PROVE  ~Past(st, call.request.job)
<1>1. st \in State /\ Shape(st, disk) /\ CallInv /\ mode \in {"agent", "fixed"}
  BY DEF TypeInv, RunTyped, PlaceInv
<1>2. CASE st.pc = "probe"
  BY <1>1, <1>2 DEF CallInv, Past
<1>3. CASE st.pc = "sandbox"
  BY <1>1, <1>3 DEF CallInv, _job, Past, Shape, AgentShape, FixedShape, State
<1>4. CASE st.pc = "validate"
  BY <1>1, <1>4 DEF CallInv, FinalRequest, Past, State
<1> QED
  BY <1>1, <1>2, <1>3, <1>4 DEF CallInv

LEMMA PastStays ==
    ASSUME NEW s \in State, NEW t \in State, Later(s, t), NEW j \in Jobs, Past(s, j)
    PROVE  Past(t, j)
<1>1. j[2] \in Nat
  OBVIOUS
<1>2. s.round \in Nat /\ t.round \in Nat /\ s.fixRound \in Nat /\ t.fixRound \in Nat
      /\ s.step \in Nat /\ t.step \in Nat
  BY DEF State
<1>3. CASE j[1] = "probe" /\ s.pc # "probe"
  BY <1>3 DEF Past, Later
<1>4. CASE /\ j[1] = "reproduction"
           /\ \/ j[2] < s.round
              \/ /\ j[2] = s.round
                 /\ IF mode = "agent" THEN s.result
                    ELSE ~(s.pc = "sandbox" /\ s.phase = "reproducing")
  <2>1. CASE j[2] < t.round
    BY <1>4, <2>1 DEF Past
  <2>2. CASE j[2] = t.round
    <3>1. j[2] = s.round /\ s.round = t.round
      BY <1>1, <1>2, <1>4, <2>2 DEF Later
    <3>2. IF mode = "agent" THEN t.result ELSE ~(t.pc = "sandbox" /\ t.phase = "reproducing")
      BY <1>1, <1>2, <1>4, <3>1 DEF Later
    <3> QED
      BY <1>4, <2>2, <3>2 DEF Past
  <2> QED
    BY <1>1, <1>2, <1>4, <2>1, <2>2 DEF Later
<1>5. CASE /\ j[1] = "repair"
           /\ \/ j[2] < s.fixRound
              \/ j[2] = s.fixRound /\ s.repair
  BY <1>1, <1>2, <1>5 DEF Past, Later
<1>6. CASE j[1] = "final" /\ s.pc = "validate" /\ j[2] <= s.step
  BY <1>1, <1>2, <1>6 DEF Past, Later
<1> QED
  BY <1>3, <1>4, <1>5, <1>6 DEF Past

\* A step of the run that does not end it: it goes on, and is done with the job whose
\* answer it takes.
Advances == /\ Later(st, st')
            /\ call # None => Past(st', call.request.job)

LEMMA LearnProbeAdvances ==
    ASSUME TypeInv, mode = "agent", LearnProbe, outcome' = None
    PROVE  Advances
<1>1. /\ outcome = None /\ st.pc = "probe" /\ st \in State /\ st = Fresh
      /\ call # None /\ call.request.job = <<"probe", 1>>
  BY Concluding DEF LearnProbe, Shape, AgentShape, CallInv
<1>2. ~End("error")
  BY DEF End, Endings
<1>3. PICK s \in TimeSpent(st), found \in BOOLEAN :
         st' = [s EXCEPT !.pc = "turn", !.phase = IF found THEN "repairing" ELSE "reproducing",
                         !.round = IF found THEN 1 ELSE 0,
                         !.test = found, !.result = found, !.confirmed = found]
  <2> DEFINE found == ClassifyReproduction(answer) = "reproduced"
  <2>1. found \in BOOLEAN
    OBVIOUS
  <2>2. \E s \in TimeSpent(st) :
           Step([s EXCEPT !.pc = "turn", !.phase = IF found THEN "repairing" ELSE "reproducing",
                          !.round = IF found THEN 1 ELSE 0,
                          !.test = found, !.result = found, !.confirmed = found])
    BY <1>2 DEF LearnProbe
  <2> HIDE DEF found
  <2> QED
    BY <2>1, <2>2 DEF Step
<1>4. s \in State /\ s.fixRound = 0 /\ s.repair = st.repair
  <2>1. st.fixRound = 0
    BY <1>1 DEF Fresh
  <2> QED
    BY <1>1, <1>3, <2>1, TimeSpentTyped
<1>5. /\ st'.pc = "turn" /\ st'.round \in {0, 1} /\ st'.fixRound = 0
      /\ st'.repair = st.repair
  BY <1>3, <1>4 DEF State
<1>6. Later(st, st')
  BY <1>1, <1>5 DEF Later, Fresh
<1> QED
  BY <1>1, <1>5, <1>6 DEF Advances, Past

\* A step after no call that changes neither a round nor a result.
LEMMA KeepsOn ==
    ASSUME TypeInv, call = None, st.pc # "validate", st'.pc # "probe",
           st'.round = st.round, st'.fixRound = st.fixRound,
           st'.result = st.result, st'.repair = st.repair,
           mode = "fixed" => ~(st'.pc = "sandbox" /\ st'.phase = "reproducing")
    PROVE  Advances
<1>1. st \in State /\ mode \in {"agent", "fixed"}
  BY DEF TypeInv, RunTyped
<1> QED
  BY <1>1 DEF Advances, Later, State

LEMMA AgentTurnAdvances ==
    ASSUME TypeInv, mode = "agent", outcome' = None, Turn,
           \/ AnswerInText \/ FruitlessTurn \/ run_sandbox
           \/ complete_reproduction \/ complete_repair \/ report_blocked
    PROVE  Advances
<1>1. st \in State /\ st.pc = "turn" /\ call = None
  BY AtPlace DEF Turn
<1>2. \A how \in Endings : ~End(how)
  BY DEF End
<1>3. /\ Counted.pc = "turn" /\ Counted.round = st.round /\ Counted.fixRound = st.fixRound
      /\ Counted.result = st.result /\ Counted.repair = st.repair
      /\ DOMAIN Counted = DOMAIN st
  BY <1>1 DEF Counted, State
<1>4. /\ st'.pc \in {"turn", "sandbox", "finish_reproduction", "finish_agent_blocked"}
      /\ st'.round = st.round /\ st'.fixRound = st.fixRound
      /\ st'.result = st.result /\ st'.repair = st.repair
  <2>1. CASE st' = [Counted EXCEPT !.texts = @ + 1] \/ st' = Counted
    BY <1>1, <1>3, <2>1 DEF State
  <2>2. CASE st' = [Counted EXCEPT !.pc = "sandbox"] \/ st' = [Counted EXCEPT !.phase = "repairing"]
             \/ st' = [Counted EXCEPT !.pc = "finish_reproduction"]
    BY <1>1, <1>3, <2>2 DEF State
  <2>3. ASSUME NEW code, st' = [Counted EXCEPT !.blocked = code,
                                               !.pc = route_after_repair_agent(code)]
        PROVE  <1>4
    BY <1>1, <1>3, <2>3 DEF State, route_after_repair_agent
  <2> QED
    BY <1>2, <2>1, <2>2, <2>3
    DEF AnswerInText, FruitlessTurn, run_sandbox, complete_reproduction, complete_repair,
        report_blocked, Step, Endings
<1> QED
  BY <1>1, <1>4, KeepsOn

LEMMA AgentSubmitAdvances ==
    ASSUME TypeInv, mode = "agent", outcome' = None, submit_test_edits \/ submit_fix_edits
    PROVE  Advances
<1>1. st \in State /\ st.pc = "turn" /\ call = None
  BY AtPlace DEF submit_test_edits, submit_fix_edits, Calls, Turn
<1>2. ~End("error")
  BY DEF End, Endings
<1>3. CASE submit_test_edits
  <2>1. Step([Counted EXCEPT !.test = TRUE, !.round = @ + 1,
                             !.confirmed = FALSE, !.result = FALSE])
    BY <1>2, <1>3 DEF submit_test_edits
  <2>2. /\ st'.pc = "turn" /\ st'.round = st.round + 1 /\ st'.fixRound = st.fixRound
        /\ st'.repair = st.repair
    BY <1>1, <2>1 DEF Step, Counted, State
  <2> QED
    BY <1>1, <2>2 DEF Advances, Later, State
<1>4. CASE submit_fix_edits
  <2>1. Step([Counted EXCEPT !.fix = TRUE, !.fixRound = @ + 1,
                             !.fixed = FALSE, !.repair = FALSE])
    BY <1>2, <1>4 DEF submit_fix_edits
  <2>2. /\ st'.pc = "turn" /\ st'.round = st.round /\ st'.fixRound = st.fixRound + 1
        /\ st'.result = st.result
    BY <1>1, <2>1 DEF Step, Counted, State
  <2> QED
    BY <1>1, <2>2 DEF Advances, Later, State
<1> QED
  BY <1>3, <1>4

LEMMA LearnResultAdvances ==
    ASSUME TypeInv, mode = "agent", outcome' = None, LearnResult
    PROVE  Advances
<1>1. /\ outcome = None /\ st.pc = "sandbox" /\ st \in State
      /\ call # None /\ call.request = _job
  BY Concluding DEF LearnResult, CallInv
<1>2. ~End("error")
  BY DEF End, Endings
<1>3. PICK s \in TimeSpent(st) :
         IF st.phase = "reproducing"
         THEN \E b \in BOOLEAN : st' = [s EXCEPT !.pc = "turn", !.result = TRUE, !.confirmed = b]
         ELSE \E b \in BOOLEAN : st' = [s EXCEPT !.pc = "turn", !.repair = TRUE, !.fixed = b]
  BY <1>2 DEF LearnResult, Step
<1>4. /\ s \in State /\ s.round = st.round /\ s.fixRound = st.fixRound
      /\ s.result = st.result /\ s.repair = st.repair
  BY <1>1, <1>3, TimeSpentTyped
<1>5. CASE st.phase = "reproducing"
  <2>1. PICK b \in BOOLEAN : st' = [s EXCEPT !.pc = "turn", !.result = TRUE, !.confirmed = b]
    BY <1>3, <1>5
  <2>2. /\ st'.pc = "turn" /\ st'.round = st.round /\ st'.fixRound = st.fixRound
        /\ st'.result = TRUE /\ st'.repair = st.repair
    BY <1>4, <2>1 DEF State
  <2>3. call.request.job = <<"reproduction", st.round>>
    BY <1>1, <1>5 DEF _job
  <2> QED
    BY <1>1, <2>2, <2>3 DEF Advances, Later, Past, State
<1>6. CASE st.phase # "reproducing"
  <2>1. PICK b \in BOOLEAN : st' = [s EXCEPT !.pc = "turn", !.repair = TRUE, !.fixed = b]
    BY <1>3, <1>6
  <2>2. /\ st'.pc = "turn" /\ st'.round = st.round /\ st'.fixRound = st.fixRound
        /\ st'.result = st.result /\ st'.repair = TRUE
    BY <1>4, <2>1 DEF State
  <2>3. call.request.job = <<"repair", st.fixRound>>
    BY <1>1, <1>6 DEF _job
  <2> QED
    BY <1>1, <2>2, <2>3 DEF Advances, Later, Past, State
<1> QED
  BY <1>5, <1>6

LEMMA FinishReproductionAdvances ==
    ASSUME TypeInv, outcome' = None, NEW place, place \notin {"probe", "sandbox"},
           FinishReproduction(place)
    PROVE  Advances
<1>1. st \in State /\ st.pc = "finish_reproduction" /\ call = None
  BY AtPlace DEF FinishReproduction
<1>2. st' = [st EXCEPT !.phase = "repairing", !.pc = place]
  BY DEF FinishReproduction, End, Endings, Step
<1>3. /\ st'.pc = place /\ st'.round = st.round /\ st'.fixRound = st.fixRound
      /\ st'.result = st.result /\ st'.repair = st.repair
  BY <1>1, <1>2 DEF State
<1> QED
  BY <1>1, <1>3, KeepsOn

\* The run stays where it is, and nothing was asked.
LEMMA StaysAdvances ==
    ASSUME TypeInv, call = None, UNCHANGED st
    PROVE  Advances
<1>1. st \in State
  BY DEF TypeInv, RunTyped
<1> QED
  BY <1>1 DEF Advances, Later, State

LEMMA AgentAdvances ==
    ASSUME TypeInv, mode = "agent", AgentStep, outcome' = None
    PROVE  Advances
<1>1. \A how \in Endings : ~End(how)
  BY DEF End
<1>2. ~ModelCallLimit /\ ~ModelFails /\ ~ToolRaises /\ ~FinishAgentBlocked
  BY <1>1 DEF ModelCallLimit, ModelFails, ToolRaises, FinishAgentBlocked, Endings
<1>3. CASE Probe \/ SubmitJob
  BY <1>3, StaysAdvances DEF Probe, SubmitJob, At
<1>4. CASE \/ AnswerInText \/ FruitlessTurn \/ run_sandbox
           \/ complete_reproduction \/ complete_repair \/ report_blocked
  BY <1>4, AgentTurnAdvances
  DEF AnswerInText, FruitlessTurn, run_sandbox, complete_reproduction, complete_repair,
      report_blocked, Calls
<1> QED
  BY <1>2, <1>3, <1>4, LearnProbeAdvances, AgentSubmitAdvances, LearnResultAdvances,
     FinishReproductionAdvances
  DEF AgentStep, route_after_agent_reproduction_finish

\* Another round of the fixed loop, or the next place of this one.
LEMMA FixedAdvances ==
    ASSUME TypeInv, mode = "fixed", FixedStep, outcome' = None
    PROVE  Advances
<1>1. \A how \in Endings : ~End(how)
  BY DEF End
<1>2. ~End("error") /\ ~End("budget_exhausted")
  BY <1>1 DEF Endings
<1>3. st \in State
  BY DEF TypeInv, RunTyped
<1>4. CASE PlanReproduction
  <2>1. call = None /\ st.pc = "plan" /\ st' = [st EXCEPT !.pc = "test_edit"]
    BY <1>2, <1>4 DEF PlanReproduction, At, Step
  <2>2. /\ st'.pc = "test_edit" /\ st'.round = st.round /\ st'.fixRound = st.fixRound
        /\ st'.result = st.result /\ st'.repair = st.repair
    BY <1>3, <2>1 DEF State
  <2> QED
    BY <2>1, <2>2, KeepsOn
<1>5. CASE GenerateTestEdit
  <2>1. call = None /\ st.pc = "test_edit"
    BY <1>5 DEF GenerateTestEdit, At
  <2>2. /\ st'.pc # "probe" /\ st'.round = st.round + 1 /\ st'.fixRound = st.fixRound
        /\ st'.repair = st.repair
    <3>1. CASE TestSubmitted(st.round + 1)
      BY <1>3, <3>1 DEF TestSubmitted, Step, State
    <3>2. CASE TestRefused(st.round + 1)
      BY <1>3, <3>2 DEF TestRefused, Step, State, AfterReproduction
    <3> QED
      BY <1>2, <1>5, <3>1, <3>2 DEF GenerateTestEdit
  <2> QED
    BY <1>3, <2>1, <2>2 DEF Advances, Later, State
<1>6. CASE SubmitReproduction \/ SubmitTarget
  BY <1>6, StaysAdvances DEF SubmitReproduction, SubmitTarget, At
<1>7. CASE LearnReproduction
  <2>1. /\ st.pc = "sandbox" /\ st.phase = "reproducing"
        /\ call.request.job = <<"reproduction", st.round>>
    BY <1>7, Concluding DEF LearnReproduction, CallInv, _job
  <2>2. st' = [st EXCEPT !.pc = "classify", !.result = TRUE]
    BY <1>2, <1>7 DEF LearnReproduction, Step
  <2>3. /\ st'.pc = "classify" /\ st'.round = st.round /\ st'.fixRound = st.fixRound
        /\ st'.repair = st.repair
    BY <1>3, <2>2 DEF State
  <2> QED
    BY <1>3, <2>1, <2>3 DEF Advances, Later, Past, State
<1>8. CASE ClassifyReproductionResult
  <2>1. call = None /\ st.pc = "classify"
    BY <1>8 DEF ClassifyReproductionResult, At
  <2>2. PICK place \in {"test_edit", "finish_reproduction"} : st' = [st EXCEPT !.pc = place]
    BY <1>8 DEF ClassifyReproductionResult, AfterReproduction, Step
  <2>3. /\ st'.pc = place /\ st'.round = st.round /\ st'.fixRound = st.fixRound
        /\ st'.result = st.result /\ st'.repair = st.repair
    BY <1>3, <2>2 DEF State
  <2> QED
    BY <2>1, <2>3, KeepsOn
<1>9. CASE FinishReproduction("fix_edit")
  BY <1>9, FinishReproductionAdvances
<1>10. CASE GenerateFixEdit
  <2>1. call = None /\ st.pc = "fix_edit"
    BY <1>10 DEF GenerateFixEdit, At
  <2>2. st.phase = "repairing"
    BY <1>10, AtNode DEF GenerateFixEdit, FixedShape
  <2>3. /\ st'.pc # "probe" /\ st'.round = st.round /\ st'.fixRound = st.fixRound + 1
        /\ st'.phase = st.phase
    <3>1. CASE FixSubmitted(st.fixRound + 1)
      BY <1>3, <3>1 DEF FixSubmitted, Step, State
    <3>2. CASE FixRefused(st.fixRound + 1)
      BY <1>3, <3>2 DEF FixRefused, Step, State, AfterTarget
    <3> QED
      BY <1>2, <1>10, <3>1, <3>2 DEF GenerateFixEdit, BudgetSpent
  <2> QED
    BY <1>3, <2>1, <2>2, <2>3 DEF Advances, Later, State
<1>11. CASE LearnTarget
  <2>1. /\ st.pc = "sandbox" /\ st.phase = "repairing"
        /\ call.request.job = <<"repair", st.fixRound>>
    BY <1>11, Concluding DEF LearnTarget, CallInv, _job
  <2>2. st' = [st EXCEPT !.pc = "classify_target", !.repair = TRUE]
    BY <1>2, <1>11 DEF LearnTarget, Step
  <2>3. /\ st'.pc = "classify_target" /\ st'.round = st.round /\ st'.fixRound = st.fixRound
        /\ st'.repair = TRUE
    BY <1>3, <2>2 DEF State
  <2> QED
    BY <1>3, <2>1, <2>3 DEF Advances, Later, Past, State
<1>12. CASE ClassifyTargetResult
  <2>1. call = None /\ st.pc = "classify_target"
    BY <1>12 DEF ClassifyTargetResult, At
  <2>2. PICK place \in {"fix_edit", "finish_repair_success", "finish_repair_failure"} :
           st' = [st EXCEPT !.pc = place]
    BY <1>12 DEF ClassifyTargetResult, AfterTarget, Step
  <2>3. /\ st'.pc = place /\ st'.round = st.round /\ st'.fixRound = st.fixRound
        /\ st'.result = st.result /\ st'.repair = st.repair
    BY <1>3, <2>2 DEF State
  <2> QED
    BY <2>1, <2>3, KeepsOn
<1> QED
  BY <1>2, <1>4, <1>5, <1>6, <1>7, <1>8, <1>9, <1>10, <1>11, <1>12
  DEF FixedStep, TargetBudget, BudgetSpent

LEMMA SharedAdvances ==
    ASSUME TypeInv, outcome' = None,
           \/ FinishRepairSuccess \/ FinishRepairFailure
           \/ SubmitFinal \/ ValidationBudget \/ LearnFinal
    PROVE  Advances
<1>1. \A how \in Endings : ~End(how)
  BY DEF End
<1>2. st \in State /\ mode \in {"agent", "fixed"}
  BY DEF TypeInv, RunTyped
<1>3. ~FinishRepairFailure /\ ~ValidationBudget
  BY <1>1 DEF FinishRepairFailure, ValidationBudget, Endings
<1>4. CASE FinishRepairSuccess
  <2>1. call = None /\ st.pc = "finish_repair_success" /\ st' = [st EXCEPT !.pc = "validate"]
    BY <1>1, <1>4 DEF FinishRepairSuccess, At, Step, Endings
  <2>2. /\ st'.pc = "validate" /\ st'.round = st.round /\ st'.fixRound = st.fixRound
        /\ st'.result = st.result /\ st'.repair = st.repair
    BY <1>2, <2>1 DEF State
  <2> QED
    BY <2>1, <2>2, KeepsOn
<1>5. CASE SubmitFinal
  BY <1>5, StaysAdvances DEF SubmitFinal, At
<1>6. CASE LearnFinal
  <2> DEFINE k == st.step + 1
             r(g) == [st EXCEPT !.step = k, !.good = g]
  <2>1. /\ st.pc = "validate" /\ call.request.job = <<"final", k>> /\ st.step <= 2
    BY <1>6, Concluding DEF LearnFinal, CallInv, FinalRequest, Shape
  <2>2. answer \in Results
    BY <1>1, <1>6 DEF LearnFinal, Endings
  <2>3. PICK g \in BOOLEAN : g = (Good(k, answer) /\ (k = 1 \/ st.good))
    OBVIOUS
  <2>4. PICK s \in TimeSpent(r(g)) : st' = s
    <3>1. \E s \in TimeSpent(r(g)) :
             IF k < 3 THEN Within(s)
             ELSE End(IF s.spent THEN "budget_exhausted"
                      ELSE IF g THEN "validated" ELSE "rejected")
      BY <1>6, <2>2, <2>3 DEF LearnFinal
    <3> QED
      BY <1>1, <3>1 DEF Within, Endings
  <2>5. /\ r(g) \in State /\ r(g).step = k /\ r(g).pc = st.pc /\ r(g).phase = st.phase
        /\ r(g).round = st.round /\ r(g).fixRound = st.fixRound
        /\ r(g).result = st.result /\ r(g).repair = st.repair
    <3>1. k \in 0..3
      BY <1>2, <2>1 DEF State
    <3> QED
      BY <1>2, <3>1 DEF State
  <2> HIDE DEF r
  <2>6. /\ s.step = k /\ s.pc = st.pc /\ s.phase = st.phase
        /\ s.round = st.round /\ s.fixRound = st.fixRound
        /\ s.result = st.result /\ s.repair = st.repair
    BY <2>4, <2>5, TimeSpentTyped
  <2> QED
    BY <1>2, <2>1, <2>4, <2>6 DEF Advances, Later, Past, State
<1> QED
  BY <1>3, <1>4, <1>5, <1>6

LEMMA RunAdvances ==
    ASSUME TypeInv, RunStep, outcome' = None
    PROVE  Advances
BY AgentAdvances, FixedAdvances, SharedAdvances DEF RunStep

\* What a step of the run does with the sandbox service: ask, take an answer, or nothing.
LEMMA RunUsesSandbox ==
    ASSUME RunStep
    PROVE  /\ outcome = None /\ UNCHANGED <<restarted, mode>>
           /\ \/ UNCHANGED sandboxVars
              \/ Conclude
              \/ \E q, n, d : Submit(q, n, d)
<1>1. CASE AgentStep
  BY <1>1 DEF RunStep, AgentStep, Probe, LearnProbe, ModelCallLimit, ModelFails, AnswerInText,
     FruitlessTurn, ToolRaises, submit_test_edits, submit_fix_edits, run_sandbox, SubmitJob,
     LearnResult, complete_reproduction, complete_repair, report_blocked, FinishReproduction,
     FinishAgentBlocked, Calls, Turn, At
<1>2. CASE FixedStep
  BY <1>2 DEF RunStep, FixedStep, PlanReproduction, GenerateTestEdit, SubmitReproduction,
     LearnReproduction, ClassifyReproductionResult, FinishReproduction, GenerateFixEdit,
     SubmitTarget, TargetBudget, LearnTarget, ClassifyTargetResult, At
<1> QED
  BY <1>1, <1>2 DEF RunStep, FinishRepairSuccess, FinishRepairFailure, SubmitFinal,
     ValidationBudget, LearnFinal, At

LEMMA RunRestartInv ==
    ASSUME TypeInv, TypeInv', RestartInv, RunStep
    PROVE  RestartInv'
<1>1. /\ outcome = None /\ UNCHANGED <<restarted, mode>>
      /\ st \in State /\ st' \in State
      /\ inbox \subseteq Messages /\ running \in Executions \cup {None}
      /\ verdicts \in [Jobs -> Verdicts \cup {None}]
  BY RunUsesSandbox DEF TypeInv, RunTyped, SandboxOK, SandboxTypeOK, Messages
<1>2. answer' = "conflict" => restarted'
  <2>1. answer' = answer \/ answer' = None
    BY RunUsesSandbox DEF sandboxVars, Conclude, Submit
  <2> QED
    BY <1>1, <2>1 DEF RestartInv, Answers
<1>3. ASSUME ~restarted', outcome' = None
      PROVE  AllExpected'
  <2>1. Later(st, st') /\ (call # None => Past(st', call.request.job))
    BY <1>3, RunAdvances DEF Advances
  <2>2. ASSUME NEW q \in Requests, Expected(q)
        PROVE  Expected(q)'
    <3>1. CASE call # None /\ q = call.request
      BY <1>1, <2>1, <3>1 DEF Expected, Past
    <3>2. CASE Past(st, q.job)
      <4>1. q.job \in Jobs
        BY DEF Requests
      <4>2. Past(st', q.job)
        BY <1>1, <2>1, <3>2, <4>1, PastStays
      <4> QED
        BY <1>1, <4>2 DEF Expected, Past
    <3> QED
      BY <2>2, <3>1, <3>2 DEF Expected
  <2>3. \A m \in inbox : m.request \in Requests /\ Expected(m.request)
    BY <1>1, <1>3 DEF RestartInv, AllExpected, Messages
  <2>4. running # None => running.request \in Requests /\ Expected(running.request)
    BY <1>1, <1>3 DEF RestartInv, AllExpected, Executions
  <2>5. \A j \in Jobs : verdicts[j] # None =>
           verdicts[j].request \in Requests /\ Expected(verdicts[j].request)
    BY <1>1, <1>3 DEF RestartInv, AllExpected, Verdicts
  <2>6. UNCHANGED <<running, verdicts>>
    BY RunUsesSandbox DEF sandboxVars, Conclude, Submit, worker
  <2>7. \A m \in inbox' : m \in inbox \/ (call' # None /\ m.request = call'.request)
    <3>1. CASE inbox' = inbox
      BY <3>1
    <3>2. ASSUME NEW q, NEW n, NEW d, Submit(q, n, d)
          PROVE  <2>7
      <4> SUFFICES ASSUME NEW m \in inbox', m \notin inbox
                   PROVE  call' # None /\ m.request = call'.request
        OBVIOUS
      <4>1. m.heard /\ m.request = q /\ call'.request = q
        BY <3>2 DEF Submit
      <4> QED
        BY <4>1 DEF TypeInv, SandboxOK, SandboxInv
    <3> QED
      BY <3>1, <3>2, RunUsesSandbox DEF sandboxVars, Conclude, worker
  <2> QED
    BY <2>2, <2>3, <2>4, <2>5, <2>6, <2>7 DEF Expected, AllExpected
<1> QED
  BY <1>2, <1>3 DEF RestartInv

\* The service answers and decides what was asked before, and finds a conflict only in a
\* verdict of the job it was asked for.
LEMMA ServiceRestartInv ==
    ASSUME TypeInv, TypeInv', RestartInv, ServiceStep, UNCHANGED mode
    PROVE  RestartInv'
<1>1. /\ UNCHANGED <<st, outcome, restarted, mode>>
      /\ call = None => call' = None
      /\ call # None => call' # None /\ call'.request = call.request
  BY ServiceOK DEF ServiceStep, TypeInv
<1>2. /\ SandboxTypeOK /\ SandboxInv /\ SandboxStep
      /\ inbox \subseteq Messages
      /\ outcome # None => call = None
  BY DEF TypeInv, SandboxOK, ServiceStep, SandboxTypeOK, Messages, PlaceInv
<1>3. \A q : Expected(q) => Expected(q)'
  BY <1>1 DEF Expected, Past
<1>4. answer' = "conflict" => restarted'
  <2> SUFFICES ASSUME answer' = "conflict", answer # "conflict", ~restarted PROVE FALSE
    BY <1>1 DEF RestartInv
  <2>1. PICK m \in inbox : AnswerFromStore(m) /\ m.heard
    <3>1. ~Finish
      <4> SUFFICES ASSUME Finish PROVE FALSE
        OBVIOUS
      <4>1. \E r : r \in Results \cup {"unavailable"} /\ answer' = r
        BY <1>2 DEF Finish, Respond, Outcomes, SandboxTypeOK, Executions
      <4> QED
        BY <4>1 DEF AllResults
    <3>2. ~StopWaiting /\ ~Retry /\ ~WorkerDies /\ ~(\E j \in Jobs : OrphanExits(j))
      BY DEF StopWaiting, Retry, WorkerDies, OrphanExits, Answers
    <3> QED
      <4>1. TakeRequest
        BY <1>2, <3>1, <3>2 DEF SandboxStep
      <4>2. PICK m \in inbox : AnswerFromStore(m) \/ RefuseExpired(m) \/ Begin(m)
        BY <4>1 DEF TakeRequest
      <4>3. ~RefuseExpired(m) /\ ~Begin(m)
        BY DEF RefuseExpired, Begin, Respond
      <4> QED
        BY <4>2, <4>3 DEF AnswerFromStore, Respond
  <2>2. call # None /\ m.request = call.request /\ m.request \in Requests
    BY <1>2, <2>1 DEF SandboxInv, Messages
  <2> DEFINE v == verdicts[m.request.job]
  <2>3. m.request.job \in Jobs /\ v # None /\ v.request.job = m.request.job
    BY <1>2, <2>1, <2>2 DEF AnswerFromStore, SandboxInv, Requests
  <2>4. v.request # m.request
    <3>1. v \in Verdicts
      BY <1>2, <2>3 DEF SandboxTypeOK
    <3> QED
      BY <2>1, <3>1 DEF AnswerFromStore, Respond, Verdicts, AllResults
  <2>5. outcome = None
    BY <1>2, <2>2
  <2>6. Past(st, call.request.job)
    BY <2>2, <2>3, <2>4, <2>5 DEF RestartInv, AllExpected, Expected
  <2> QED
    BY <2>2, <2>5, <2>6, AskedForIsNotPast
<1>5. ASSUME ~restarted', outcome' = None
      PROVE  AllExpected'
  <2>1. /\ \A m \in inbox : Expected(m.request)
        /\ running # None => Expected(running.request)
        /\ \A j \in Jobs : verdicts[j] # None => Expected(verdicts[j].request)
    BY <1>1, <1>5 DEF RestartInv, AllExpected
  <2>2. \A m \in inbox' : \/ \E n \in inbox : n.request = m.request
                          \/ call # None /\ m.request = call.request
    <3>1. StopWaiting => \A m \in inbox' : \E n \in inbox : n.request = m.request
      BY UnheardOK DEF StopWaiting, TypeInv
    <3> QED
      BY <1>2, <3>1 DEF SandboxStep, TakeRequest, Finish, Retry, WorkerDies, OrphanExits
  <2>3. running' # None => \/ running # None /\ running'.request = running.request
                           \/ \E m \in inbox : running'.request = m.request
    <3>1. StopWaiting => (running' # None => running # None /\ running'.request = running.request)
      BY UnheardOK DEF StopWaiting, TypeInv
    <3>2. ASSUME NEW m \in inbox, Begin(m)
          PROVE  running'.request = m.request
      BY <3>2 DEF Begin
    <3> QED
      BY <1>2, <3>1, <3>2
      DEF SandboxStep, TakeRequest, AnswerFromStore, RefuseExpired, Finish, Retry, WorkerDies,
          OrphanExits
  <2>4. \A j \in Jobs : verdicts'[j] # None =>
           \/ verdicts'[j] = verdicts[j]
           \/ running # None /\ verdicts'[j].request = running.request
    <3>1. CASE Finish
      <4>1. CASE UNCHANGED verdicts
        BY <4>1
      <4>2. ASSUME NEW r,
                   verdicts' = [verdicts EXCEPT ![running.request.job] = Verdict(running.request, r)]
            PROVE  <2>4
        BY <1>2, <3>1, <4>2 DEF SandboxTypeOK, Verdict, Finish
      <4> QED
        BY <3>1, <4>1, <4>2 DEF Finish
    <3> QED
      BY <1>2, <3>1 DEF SandboxStep, TakeRequest, Retry, StopWaiting, WorkerDies, OrphanExits
  <2>5. call # None => Expected(call.request)
    BY DEF Expected
  <2> QED
    BY <1>3, <2>1, <2>2, <2>3, <2>4, <2>5 DEF AllExpected
<1> QED
  BY <1>4, <1>5 DEF RestartInv

LEMMA RestartStep == TypeInv /\ TypeInv' /\ RestartInv /\ [Next]_vars => RestartInv'
<1> SUFFICES ASSUME TypeInv, TypeInv', RestartInv, [Next]_vars PROVE RestartInv'
  OBVIOUS
<1>1. CASE UNCHANGED vars
  BY <1>1 DEF vars, sandboxVars, RestartInv, AllExpected, Expected, Past
<1>2. CASE Next /\ ServiceStep
  BY <1>2, ServiceRestartInv DEF Next
<1>3. CASE Next /\ ProcessDies
  BY <1>3 DEF RestartInv, ProcessDies, CallerDies
<1>4. CASE RunStep
  BY <1>4, RunRestartInv
<1> QED
  BY <1>1, <1>2, <1>3, <1>4 DEF Next, SharedStep, RunStep

\* Only a run that came back from an older checkpoint can ask for a job of other patches
\* under a job id that was used: as long as the process lives, every round has its own id
\* (uuid5 job ids in tools.py and graph.py; worker.py execute refuses the second use).
THEOREM ConflictTellsOfRestart == Spec => []ConflictOnlyAfterRestart
<1>1. Init => TypeInv /\ RestartInv
  <2> SUFFICES ASSUME Init PROVE TypeInv /\ RestartInv
    OBVIOUS
  <2>1. /\ answer = None /\ inbox = {} /\ running = None
        /\ \A j \in Jobs : verdicts[j] = None
    BY DEF Init, SandboxInit
  <2> QED
    BY <2>1, TypeInvInit DEF RestartInv, AllExpected, Answers
<1>2. TypeInv /\ RestartInv /\ [Next]_vars => (TypeInv /\ RestartInv)'
  BY TypeInvStep, RestartStep
<1>3. RestartInv => ConflictOnlyAfterRestart
  BY DEF RestartInv, ConflictOnlyAfterRestart
<1> QED
  BY <1>1, <1>2, <1>3, PTL DEF Spec
=============================================================================
