----------------------------- MODULE SandboxJobs -----------------------------
(***************************************************************************)
(* The sandbox service: one caller (sandbox/client.py, with the attempts   *)
(* of the tool retry middleware around it), the worker behind HTTP         *)
(* (worker_http.py, worker.py) and the containers it starts                *)
(* (docker_runner.py).  A request names a job and carries its patches; the *)
(* worker answers each job once and for all from its file store.  The      *)
(* caller may stop waiting and ask again, the worker may die and restart,  *)
(* and a container outlives the worker that started it.                    *)
(***************************************************************************)
EXTENDS Naturals, FiniteSets

CONSTANTS Jobs,        \* job ids: uuid5 of the run, the phase and the round
          Patches,     \* contents of test and fix patches
          None,        \* no record, no patch, no answer
          Results,     \* what a verdict may say, see below
          MaxRetries,  \* retries of one call: 2
          FaultKinds,  \* what may go wrong: see below
          MaxFaults    \* bound: faults in one behaviour, deaths included

AllResults == {"failed_as_planned", "failed_otherwise", "passed", "regression",
               "untrusted", "rejected"}

AllFaultKinds == {"timeout", "worker_dies", "store_fails", "expired", "process_dies"}

ASSUME SandboxAssumption == /\ Results \subseteq AllResults
                            /\ "untrusted" \in Results
                            /\ FaultKinds \subseteq AllFaultKinds
                            /\ MaxRetries \in Nat
                            /\ MaxFaults \in Nat
                            /\ None \notin Jobs \cup Patches

\* A request is the part of SandboxJob the fingerprint covers; expires_at is not in it.
Requests == [job : Jobs, test : Patches, fix : Patches \cup {None}]

Answers == Results \cup {"unavailable", "conflict", "expired"}

\* What the store keeps, what the lock is held for, and an outstanding call.
Verdicts   == [request : Requests, result : Results]
Executions == [request : Requests, heard : BOOLEAN, own : BOOLEAN]
Attempts   == [request : Requests, left : 0..MaxRetries, deadline : BOOLEAN]

\* None is Python's None: none of the things it stands in for.
ASSUME NoneAssumption == /\ None \notin Requests
                         /\ None \notin AllResults \cup Answers
                         /\ None \notin Verdicts
                         /\ None \notin Executions
                         /\ None \notin Attempts

VARIABLES verdicts,    \* the worker's file store
          containers,  \* containers alive on the host, by the name their job gives them
          running,     \* the request the worker's lock is held for
          inbox,       \* requests that wait for the lock
          call,        \* the caller's outstanding call
          answer,      \* what its present attempt came to
          faults

worker == <<verdicts, containers, running, inbox>>
client == <<call, answer>>
sandboxVars == <<verdicts, containers, running, inbox, call, answer, faults>>

Verdict(q, r) == [request |-> q, result |-> r]

SandboxTypeOK ==
    /\ verdicts \in [Jobs -> Verdicts \cup {None}]
    /\ containers \in [Jobs -> Requests \cup {None}]
    /\ running \in Executions \cup {None}
    /\ inbox \subseteq [request : Requests, heard : BOOLEAN]
    /\ call \in Attempts \cup {None}
    /\ answer \in Answers \cup {None}
    /\ faults \in 0..MaxFaults

SandboxInit == /\ verdicts = [j \in Jobs |-> None]
               /\ containers = [j \in Jobs |-> None]
               /\ running = None
               /\ inbox = {}
               /\ call = None
               /\ answer = None
               /\ faults = 0

Fault(kind) == /\ kind \in FaultKinds
               /\ faults < MaxFaults
               /\ faults' = faults + 1

\* Nobody waits any longer for the requests that are at the worker.
Unheard == /\ inbox' = {[m EXCEPT !.heard = FALSE] : m \in inbox}
           /\ running' = IF running = None THEN None ELSE [running EXCEPT !.heard = FALSE]

Respond(m, a) == answer' = IF m.heard THEN a ELSE answer

-----------------------------------------------------------------------------
\* The caller.

\* The first attempt of a call that may be made again n times; d: the client's
\* own retries share one deadline, those of the tool middleware do not.
Submit(q, n, d) ==
             /\ call = None
             /\ call' = [request |-> q, left |-> n, deadline |-> d]
             /\ inbox' = inbox \cup {[request |-> q, heard |-> TRUE]}
             /\ UNCHANGED <<verdicts, containers, running, answer, faults>>

\* The attempt's time is up, or the connection broke; the worker does not notice.
StopWaiting == /\ call # None /\ answer = None
               /\ Fault("timeout")
               /\ answer' = "unavailable"
               /\ Unheard
               /\ UNCHANGED <<verdicts, containers, call>>

\* Timeouts, broken connections and 5xx are asked again under the same job id.
Retry == /\ call # None /\ answer = "unavailable" /\ call.left > 0
         /\ call' = [call EXCEPT !.left = @ - 1]
         /\ inbox' = inbox \cup {[request |-> call.request, heard |-> TRUE]}
         /\ answer' = None
         /\ UNCHANGED <<verdicts, containers, running, faults>>

\* The call ends with the present answer; a deadline leaves retries unused.
Conclusive == /\ call # None /\ answer # None
              /\ answer = "unavailable" => call.left = 0 \/ call.deadline

\* The caller takes the answer.
Conclude == /\ Conclusive
            /\ call' = None /\ answer' = None
            /\ UNCHANGED <<worker, faults>>

\* The caller's process dies: its connections close, the worker goes on.
CallerDies == /\ Fault("process_dies")
              /\ call' = None /\ answer' = None
              /\ Unheard
              /\ UNCHANGED <<verdicts, containers>>

-----------------------------------------------------------------------------
\* The worker.

\* A store that is looked up by the job id alone.
AnswerByJobId(m) == /\ verdicts[m.request.job] # None
                    /\ Respond(m, verdicts[m.request.job].result)
                    /\ UNCHANGED <<running, containers, faults>>

\* Under the lock: a job with a verdict is never executed again.
AnswerFromStore(m) ==
    /\ verdicts[m.request.job] # None
    /\ Respond(m, IF verdicts[m.request.job].request = m.request
                  THEN verdicts[m.request.job].result ELSE "conflict")
    /\ UNCHANGED <<running, containers, faults>>

\* Only a first execution is refused for being late.
RefuseExpired(m) ==
    /\ verdicts[m.request.job] = None
    /\ Fault("expired")
    /\ Respond(m, "expired")
    /\ UNCHANGED <<running, containers>>

\* docker run --name: one container at a time has the name of a job.
NameTaken(job) == containers[job] # None

\* A worker that looks into the store before it waits for the lock.
BeginUnchecked(m) ==
    /\ running' = [request |-> m.request, heard |-> m.heard,
                   own |-> ~NameTaken(m.request.job)]
    /\ containers' = [containers EXCEPT ![m.request.job] = IF @ = None THEN m.request ELSE @]
    /\ UNCHANGED <<answer, faults>>

\* A container of that name that is still alive is left alone, and docker run
\* fails.
Begin(m) ==
    /\ verdicts[m.request.job] = None
    /\ running' = [request |-> m.request, heard |-> m.heard,
                   own |-> ~NameTaken(m.request.job)]
    /\ containers' = [containers EXCEPT ![m.request.job] = IF @ = None THEN m.request ELSE @]
    /\ UNCHANGED <<answer, faults>>

\* A request gets the lock.
TakeRequest == /\ running = None
               /\ \E m \in inbox : /\ inbox' = inbox \ {m}
                                   /\ \/ AnswerFromStore(m)
                                      \/ RefuseExpired(m)
                                      \/ Begin(m)
               /\ UNCHANGED <<verdicts, call>>

\* DockerSandboxRunner.execute and the worker's except clauses: every way to
\* end is a result; without a container of its own there is no JUnit report.
Outcomes(m) == IF m.own THEN Results ELSE {"untrusted"}

\* The execution ends; its result is stored, then answered.
Finish == /\ running # None
          /\ LET q == running.request IN
             /\ containers' = [containers EXCEPT ![q.job] = IF running.own THEN None ELSE @]
             /\ \/ \E r \in Outcomes(running) :
                      /\ verdicts' = [verdicts EXCEPT ![q.job] = Verdict(q, r)]
                      /\ Respond(running, r)
                      /\ UNCHANGED faults
                \/ /\ Fault("store_fails")
                   /\ Respond(running, "unavailable")
                   /\ UNCHANGED verdicts
          /\ running' = None
          /\ UNCHANGED <<inbox, call>>

\* A caller that takes a broken connection for a slow answer.
WorkerDiesUnnoticed == /\ running # None \/ inbox # {}
                       /\ Fault("worker_dies")
                       /\ running' = None
                       /\ inbox' = {}
                       /\ UNCHANGED <<verdicts, containers, call, answer>>

\* The worker's process dies and is started again: what it held in memory is
\* lost and its clients see broken connections; its container lives on.
WorkerDies == /\ running # None \/ inbox # {}
              /\ Fault("worker_dies")
              /\ running' = None
              /\ inbox' = {}
              /\ answer' = IF call # None /\ answer = None THEN "unavailable" ELSE answer
              /\ UNCHANGED <<verdicts, containers, call>>

\* A container nobody waits for ends, and --rm frees its name.
OrphanExits(j) == /\ containers[j] # None
                  /\ running # None => running.request.job # j \/ ~running.own
                  /\ containers' = [containers EXCEPT ![j] = None]
                  /\ UNCHANGED <<verdicts, running, inbox, call, answer, faults>>

SandboxStep == \/ TakeRequest
               \/ Finish
               \/ Retry
               \/ StopWaiting
               \/ WorkerDies
               \/ \E j \in Jobs : OrphanExits(j)
=============================================================================
