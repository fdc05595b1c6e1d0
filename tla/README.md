# MDToWord: a verification project in TLA+

MDToWord converts Markdown to Word. Its users report conversion problems, and a
resident *feedback agent* works through the reports: it claims a report, lets a
gate classify it, lets a model-driven repair agent reproduce and fix the
problem, validates the patch in a sandbox, and opens a pull request or an issue
on GitHub. This directory models that agent, from the limiter in front of the
reports to the pull request, and checks that the state it keeps in six places
(two database tables, LangGraph checkpoints, artifacts, the sandbox's store,
GitHub) stays consistent while processes crash, requests fail or land late,
models answer anything and maintainers intervene.

Paths below are relative to the repository (`agent/...`, `backend/...`).

## 1. The system

| Component | Code | State | Operations | Modelled by |
|---|---|---|---|---|
| Feedback queue | `agent/migrations/001,002*.sql`, `agent/repositories/supabase.py` | `feedback` rows: status, claim token and lease, attempts, stale requeues, last error | `claim_next`, `claim_by_id`, `transition`, `retry_publication`, `retry_after_call_budget` | `FeedbackRun`, `FeedbackLifecycle` |
| Run table | `agent/repositories/supabase.py` | `agent_runs` rows: status, error code, validation verdict, start time | `create`, `mark_*`, `complete_*`, `exhaust_budget`, `fail`, the two retries, `find_resumable` | `FeedbackRun` |
| Transition tables | `agent/domain/{enums,transitions}.py` | none | `ensure_feedback_transition`, `ensure_agent_run_transition` | `FeedbackStates` |
| Scheduler | `agent/scheduler.py` | none | `run_once`, `run_forever` | `FeedbackRun` |
| Controller | `agent/controller.py` | none that outlives a call | `start`, `resume`, `_finalize_run_failure` | `FeedbackRun` |
| Repair graph | `agent/graph.py`, `agent/state.py` | the `AgentState` a node hands to the next | sixteen nodes and their edges | `RepairGraph`, `FeedbackRun` |
| Checkpointing | `agent/checkpoint.py`, LangGraph | one thread per run: pending node and state | save, load | `FeedbackRun` |
| Command line | `agent/cli.py`, `agent/runtime.py` | none | `run --feedback-id`, `run --run-id`, the resident loop, dry-run stages | `FeedbackRun` (not the dry-run stages) |
| Failures | `agent/domain/{failures,errors}.py` | failure records | classification of an exception, verdicts | `RepairGraph`, `FeedbackRun` (not the records) |
| Publishers | `agent/publishing/{github,service}.py` | branches, pull requests and issues on GitHub; a cached token per process | `publish`, `publish_issue` | `GitHubRepository`, `PublicationCalls`, `PullRequestPublisher`, `IssuePublisher`, `Publishing`, `PublishOnce`; one step each in `FeedbackRun` |
| Sandbox | `agent/sandbox/*.py` | one stored result per job id, containers, a lock | `execute` | `SandboxJobs`, `VerdictOnce`; the stored verdict in `FeedbackRun` |
| Workspace, artifacts | `agent/workspace/*.py` | files of a run, source snapshots | read, write, apply edits, check patches | `RepairState` (what rounds overwrite), `FeedbackRun` (a missing file) |
| Repair agent loop | `agent/repair_agent/*.py` | phase, budgets, edits of one run, in a thread of its own | model calls, tool calls, finishing | `RepairState`, `RepairAgentLoop`, `RepairRun` |
| Fixed repair loop | `agent/{graph,reproduction,repair}.py` | attempts of one run | rounds of test and fix; a comment (`agent/graph.py:2216`) leaves it to the unit tests | `RepairState`, `FixedRepairLoop`, `RepairRun` |
| Gate, providers | `agent/gate.py`, `agent/domain/{gate,policy}.py`, `agent/providers/*.py` | fallback and retry counters of one call | `execute_feedback_gate`, `classify` | `GatePolicy`, `FeedbackGate` |
| Telemetry, operations, evaluation | `agent/{telemetry,operations,evals}/*.py` | none that the program reads | reporting, preflight, scoring | not modelled |
| Feedback and conversion service | `backend/app/*.py` | sliding windows of the rate limiter | `/feedback`, `/convert` | `FeedbackRateLimiter`, `FeedbackService`; the inserted row in `FeedbackRun`; not the conversion |
| Extension | `extension/src/*` | stored drafts and history | user interface | not modelled |
| Trace site | `trace-site/src/*` | cached snapshots | read-only view | not modelled |
| Deployment | `deploy/agent/*` | none | scripts | not modelled |

How they interact. The service inserts a `pending` row. The scheduler polls: it
asks the run table for the oldest active run and lets the controller resume it;
if there is none, it claims a row and lets the controller create a run for it.
The controller invokes the graph on the run's thread. A node that finishes a
stage writes the feedback row by compare-and-set on token and status, then the
run row by compare-and-set on its status, and then LangGraph writes the
checkpoint. An exception anywhere in the graph reaches `_finalize_run_failure`,
which gives the feedback a verdict and fails the run. A maintainer's command
claims a chosen row, resumes a run, or reopens a failed publication or an
exhausted repair, through the same controller and in a process of its own.
Inside a run, the gate asks Jev and, failing that, a legacy classifier; the
repair agent sends jobs to the sandbox worker over HTTP, and the worker answers
each job once and for all from a file store; a publisher talks to GitHub in up
to ten requests, none of which is idempotent by itself.

What is hard. No transaction spans the two tables, the checkpoint and GitHub, so
every crash point and every failed or half-acknowledged request must be repaired
by the replay of a node, which has to tell "already done by me" from "done by
somebody else". Runs have no lease, so two drivers can execute one run. The
claim lease may expire under a live controller. Nodes act on the checkpointed
state, which may be older than the rows, while artifacts are always the latest
and the sandbox remembers verdicts on what the restored run has forgotten. A
request the client gave up may still land at GitHub, and a container outlives
the worker that started it. `PROJECT.json` lists these hazards at their lines
with the properties aimed at them.

What makes each component correct:

* queue: one owner per token, a bounded number of claims and requeues, moves
  only along the table, no row in work without an owner;
* run table: a run belongs to a feedback, a terminal run stays terminal unless a
  maintainer reopens it, the two tables are never more than one node apart;
* scheduler and controller: no feedback is stranded by a failed run, every
  feedback gets a verdict, every run ends;
* graph and publishers: only validated patches are published, by the owner of
  the feedback, once per feedback, and what a row reports exists on GitHub;
* sandbox: one execution at a time, one verdict per job, for ever;
* repair loops: every conclusion rests on a verdict about the very patch that
  goes on, the test stays what reproduced the problem, and a run ends;
* gate: what is accepted is clear, related and has evidence, what is stored can
  be read back, and the attempts run out;
* limiter: the global quota always holds, a client's own as long as its window
  is remembered, and nobody is told to come back too early or too late.

## 2. The modules

`FeedbackStates` holds the status sets, the transition table and the number of
claims a row is allowed.

`FeedbackLifecycle` is the abstract specification: rows and claim tokens, and
nothing about runs, processes or nodes. Its actions are `Submit`, `GiveUp`,
`Claim`, `Advance`, `Requeue` and `Reopen`.

`RepairGraph` is the production graph as tables: which moves of the feedback
row (`StartGateMoves` ... `FinishPublicationMoves`) and of the run row
(`mark_gating` ... `exhaust_budget`, named as in the repository class) a node
makes, which statuses a replayed node takes as its own earlier work
(`AlreadyDone`), which node follows (`Successor`), which errors a node raises
(`RaisedBy`) and which nodes read artifacts.

`FeedbackRun` composes them. State and code correspond as follows.

| Variable | Code |
|---|---|
| `fb[f]` | a row of `feedback`; `lease` says that `claimed_at` is recent, and counts while the row is claimed only; `err` keeps of `last_error_code` what a retry looks for |
| `run[t]` | the row of `agent_runs` created under claim token `t`; `seq` orders by `started_at`; `valid` says the row carries a passed validation |
| `ckpt[t]` | the LangGraph thread of the run: the pending node, and of `AgentState` the one conclusion the next nodes read (route, outcome, verdict or disposition) |
| `proc[p]` | the stack of one process: step, node, the status it has read (`seen`) and wants to write (`goal`), the error it is handling or has read, and whether its last checkpoint is still unwritten (`unsaved`) |
| `verdict`, `pulls`, `issues` | what the sandbox worker stores and what exists on GitHub |
| `moved`, `lost` | whether `main` has left the run's base, and whether its artifacts are gone |
| `claims`, `faults` | the two bounded counters |

One action is one request to a store, together with the code up to the next
request. A finishing node is `ReadFeedback` (the node's own read and its early
returns), then for each move `CheckTransition` and `WriteFeedback`
(`transition()` reads again, then patches), then `ReadRunInGraph` and `PatchRun`
(`_patch`), then `NextNode`. A poll or a command only chooses the run to resume
(`PollResume`, `ResumeById`); `GateController.resume` is then `ReadRunToResume`
(the run row), `ReadThread` (`aget_state`, and what it and the row read before
make of the run: resume, reopen or leave), for a retry the two reopening writes,
and `StartGraph` (`ainvoke` loads the thread again, whatever it has become).
`_finalize_run_failure` is `FinalizeFailure` followed by the same steps in mode
`final`, and the retries of a failed publication or a spent budget use them in
mode `reopen` (`CheckReopen`, `ReadRunToReopen`); the resident scheduler comes to
a retry as well, if the run it was about to resume has failed in between. A node
that calls a model, the sandbox or the issue tracker is one action that chooses
the answer. A pull request takes two: `LookForPull` looks for it and at `main`,
`PostPull` or `PostFails` is the POST some requests later, with other processes in
between. `Raise` is an exception: in the graph it leads to the finalizer and
flushes a pending checkpoint; elsewhere it ends the attempt, because
`run_forever` swallows it and the command line exits.

Checkpoints are always late. `ainvoke` is called without `durability`
(`agent/controller.py:387`), and the default lets the next node start while the
checkpoint is being written. So `NextNode` goes on with the checkpoint unsaved,
`PutCheckpoint` may follow at any time, or the next checkpoint may replace it,
and a process that dies meanwhile leaves the thread a node or more behind: no
configuration turns this off.

Faults are actions of their own, of four kinds that a configuration enables:
`crash` (a process dies), `repo` (a request fails before it has an effect),
`lost` (it has its effect but the caller sees a failure) and `artifact` (the files
of a run disappear). Failures of models, GitHub and sandbox that survive their
own retries are no such faults: `NodeFails` is always enabled.

### Publishing, request by request

`PublishOnce` is the abstract specification: a branch is given to one patch of
one feedback and keeps it, and a pull request shows what its branch was given.
`GitHubRepository` is GitHub as the publishers use it, `PublicationCalls` what
any call is made of (who, where, on which token), `PullRequestPublisher` and
`IssuePublisher` have one action per request, and `Publishing` lets several
processes call them for the rows that are ready.

| Variable | Code |
|---|---|
| `branch`, `pulls`, `issues` | what exists on GitHub; a branch is named by id prefix and category and holds a patch |
| `late`, `landed` | creations the client gave up that may still take effect, and those that did |
| `call[w]` | the call process `w` executes: its next request, patch, base, issue page and result, and whether GitHub has refused a request of it |
| `token[w][kind]` | the cache of `GitHubAppTokenProvider`: how old its token is and whether it carries more than it should |
| `task[f]` | the row, as far as publishing goes |

Faults: `refused` (no effect), `lost` (effect, no reply), `late` (no reply, and
the effect comes at any later time), `crash`, `expire` (the token ages between
two requests). A refusal is what the code makes of it: 409 and 422 are a
`PublicationConflictError` whatever GitHub's reason was (`ConflictingSteps`), and
the creation of a branch or of a pull request that is refused looks for what is
there and raises the refusal again if it finds nothing (`RereadRef`,
`RefindPull`). A created issue whose reply cannot be read is not looked for
(`IssueUnreadable`). Other people open issues and `main` moves, within bounds.

### A repair run

`VerdictOnce` is what the sandbox promises the run. `SandboxJobs` has the client
with its retries, the worker with its lock, store and containers. `RepairState`
holds what both loops share, `RepairAgentLoop` and `FixedRepairLoop` the two
ways to get from a snapshot to a verdict on a patch, `RepairRun` composes one of
them with the worker.

| Variable | Code |
|---|---|
| `verdicts`, `containers`, `running`, `inbox` | `FileJobStore`, the containers on the host, the request that holds the worker's lock, those that wait for it |
| `call`, `answer` | the outstanding call of the run and what its present attempt came to |
| `st`, `saved`, `lag` | the state of the thread, its last checkpoint, and how many steps that is behind |
| `disk` | `test.patch`, `fix.patch`, `result.json`, `repair-result.json`: never behind, and overwritten by the next round |
| `outcome`, `restarted` | how these phases ended; whether the run was ever resumed |

A model turn is one action that chooses a tool and its contents; the guards of
the tools and of the middleware are those of the action. A request to the worker
is fingerprinted by the patches it carries, and a job that comes back with
another fingerprint is a conflict (409).

### The gate

`GatePolicy` is pure: the schema of a classification (`Valid`), what the policy
rewrites, the rules in their order, and what an answer of Jev is translated to.
Scores are the flags that the rules ask for, and Jev's probabilities three bands
(up to 0.35, from 0.65, between). `FeedbackGate` is the node around it: the
checks without a model, the attempts of Jev, the requests and format retries of
the legacy classifier, and `route_feedback` reading the stored result. It
decides the route that `FeedbackRun` takes as a choice.

The legacy classifier may fill in every field of the schema, and so answer in
Jev's name with signals that no translation has made; the policy reads them as
it reads Jev's. `ModelSignals` are the signals it chooses from. A high probability
of an injection is stopped by the flag that Jev's own answers set with it, and by
nothing else: an answer in Jev's name may have the one without the other, and
`Undoubted` says so. `StateUnreadable` is the error of `_state_from_messages` that
the fallback to the legacy classifier does not catch.

### The service

`FeedbackRateLimiter` has the windows of `backend/app/feedback_rate_limit.py`:
`ips` is the `OrderedDict`: its keys, which of them comes before which, and the
deque of each address, an admission being kept as its age; `globalEvents` and
`consumeCount` are named as there. `consume` is one step since it awaits nothing while it holds its lock.
`FeedbackService` adds the submissions, the restart, and three history variables
(`admitted`, `since`, `crowded`) that the properties are stated with.

The modules `MC...` are what TLC runs; their `.cfg` files give the constants
their values. The modules `..._proofs` hold the theorems and extend the module
they are about; `FeedbackOwnership_proofs` builds on `FeedbackRun_proofs`, and
`FeedbackDriver_proofs` on both.

## 3. The runs

| Run | Configuration | What it checks |
|---|---|---|
| `one_scheduler` | one feedback, one scheduler, four claims, two faults of any kind, fair | `TypeOK`, `StaleRunsBounded`, `PulledIsNotRetried`, `OpenedIsPublished`, `OnlyUnfinalizedStranded`, `PullsByOwner`, `ImplementsLifecycle`, `RunsEndUnlessForbidden`, `FeedbackSettlesUnlessLeft` |
| `two_reports` | two feedbacks with one fingerprint, one scheduler, one fault of any kind | `NotAllDuplicates`, `SingleFlight` |
| `two_drivers` | one feedback on the way to an issue, scheduler and maintainer, two claims, one fault of any kind | `InFlightHasRun` |
| `maintainer_alone` | one maintainer, no scheduler, two claims, two faults (crash, failed request, lost artifacts) | `PublishedOnlyValidated`, `StagesAgree`, `ActiveRunOwnsFeedback`, `TerminalRunsStay` |
| `publication` | one patch feedback and two issue feedbacks, two processes, two faults of any kind, fair | `TypeOK`, `PullShowsItsPatch`, `OpenedExists`, `OneIssuePerFeedback`, `ConflictIsReal`, `EveryPublicationEnds`, `PublishesOnce` |
| `repair_run` | one run in either mode with its worker, two rounds of each phase, one fault of any kind, fair | `TypeOK`, `EvidenceMatchesPatch`, `ReproducedIsNotDismissed`, `ConflictOnlyAfterRestart`, `TestFrozenWhileRepairing`, `EveryRunEnds`, `VerdictIsGivenOnce` |
| `feedback_gate` | every kind of feedback and of answer, the configured numbers of attempts | `StoredResultReadsBack`, `SchemaAgreesWithPolicy`, `WorkIsWarranted`, `RepairWithoutMarkdown`, `EveryStepCounts` |
| `feedback_service` | three addresses, a limiter with room for two | `TypeOK`, `GlobalQuotaHolds`, `ClientQuotaLostOnlyToACrowd`, `RetryAfterIsHonest`, `SubmissionsGetThrough` |
| `stranded_validated` | one failed request | violates `NoStrandedFeedback` |
| `completed_run_fails` | one lost reply | violates `TerminalRunsStay` |
| `resumed_for_ever` | one vanished artifact, fair | violates `EveryRunEnds` |
| `failed_yet_published` | one crash | violates `PullsWhilePublishing` |

Bounds of the runs of `FeedbackRun`. The statements that are not true of the code
(`NoStrandedFeedback`, `EveryRunEnds`, `PullsWhilePublishing`, and
`TerminalRunsStay` with lost replies; section 4) have runs of their own; the
passing runs state what holds nevertheless, with the exceptions by name:
`LeftBehind` (the finalizer leaves a `VALIDATED` or `STALE_BASE` row alone) and
`VerdictForbidden` (it asks for a verdict that the table refuses). `one_scheduler`
is the deployed configuration. One feedback and its successive runs are enough for
it, but for two things. Duplicates and a second active run take a second feedback, which is
`two_reports`. And with two feedbacks a run in the loop of `VerdictForbidden` keeps
the scheduler from ever taking up the other one, so `FeedbackSettlesUnlessLeft` is a
statement about the feedback of the run itself. `MaxAttempts` is 3 in
`one_scheduler`, where a stale requeue has to be followed by a second stale
publication and one more claim, and 2 elsewhere, so that exhaustion is reached.
`MaxClaims` is never smaller than the attempts of all rows together, so it cuts
nothing off, and in `one_scheduler` one larger, so that a claim too many would show.
Two faults are enough for one in a node and one in the finalizer or in the replay
that follows; one fault is enough where a second process already interferes at
every step. The numbers of processes are those of the deployment: one resident
scheduler, and the maintainer that the operations guide tells to resume by hand.

`two_drivers` follows the shortest route through the graph, the one to an issue,
because resuming, reopening and publishing meet there already and two processes
request by request multiply quickly: on the way to a pull request TLC has not come
to an end after thirty million states. What two drivers may do with a pull request
is therefore left to the theorems, which are about any number of processes:
`PublicationIsValidated`, `PullIsUnique`, `OpenedExists`, `StaleTwiceAtMost` and
`RowsImplementLifecycle`. The properties that need one driver are false in this run
or are not asked of it: `SingleFlight`, `NotAllDuplicates`, `StagesAgree`,
`ActiveRunOwnsFeedback`, `TerminalRunsStay`, `OnlyUnfinalizedStranded`,
`PulledIsNotRetried`, and `PullsByOwner`. Of the last: a driver that has seen `main`
at its base opens the pull request some requests later, when the other driver of
the same run may have found the base stale and given the feedback back.

`publication`. Two processes race for one row, and a row is published again
after a stale base (a new patch) or a retry, so that a branch left by an earlier
call is met with the same and with another patch; one patch and one issue draft
are unpublishable. Rows do not share branches in this instance, so one is under
way in each behaviour (`Batches`). One process publishes issues, as deployed.
Pages of one issue, two pages read and two issues of other people push the
agent's own issue out of the lookup's sight. Two faults give a late creation and
whatever answers it. `OneIssuePerFeedback` allows one issue more for each creation that
landed late, and none beyond that;
`ConflictIsReal` is about the calls in which GitHub refused nothing for reasons of
its own.

`repair_run`. Two tests and two fixes make a second round differ from the first
and a resumed round differ from the forgotten one. Six model calls are enough to
reach the final validation, and few enough to run out before it. A checkpoint
lags up to two steps, so that a resumed run may have forgotten an edit and the
call that followed. There is one fault in a behaviour, and a call is retried once
where the code retries it twice: a fault, the retry and the answer of the worker
to both meet, while two independent faults in one run are not covered.

`feedback_gate`. `Categories` has one representative of each class the rules
distinguish, and `ModelSignals`, the signals of an answer in Jev's name, has each
signal out of line once; all other data are exhausted, Jev's own signals among
them, and the numbers of attempts are those of the code.

`feedback_service`. All four limits bind (1 per minute, 2 per hour, 3 per day, 3
in all per hour), the three windows differ, a second is two ticks so that
rounding shows, and three addresses for two places make the limiter evict.

`maintainer_alone`, `publication`, `repair_run` and `feedback_gate` do not check
for deadlock: with the scheduler stopped a settled row with nothing to reopen
leaves the maintainer without a command that applies, and a publication, a
repair and a gate come to their end.

`FeedbackLifecycle` has no run of its own. `one_scheduler` checks that the rows of
`FeedbackRun` implement it, and its two invariants, `OneOwner` and
`WorkIsOwned`, are proved for every number of rows and claims.

Fairness (`FairSpec`). Each scheduler's `Poll \/ Work` is weakly fair: systemd
restarts the process, the loop polls for ever, and every request, model call and
sandbox call has a timeout, so a step that stays enabled is taken. `ExpireLease`
is weakly fair: it is the clock. Nothing is assumed of maintainers, of
reporters, or of faults. Which answer a model or GitHub gives is not fair
either: liveness holds whatever they answer. In `Publishing` each process's next
request is fair for the same reason (requests have timeouts), and so are the
poll that calls a publisher and the run that validates another patch; in
`RepairRun` the run and the worker. The limiter needs the clock only, and the
gate nothing at all: `EveryStepCounts` is a measure that each step lowers, at
most nine requests from its end.

## 4. What the violations show

Four statements of the documentation or the comments are not true of the code;
`PROJECT.json` quotes them with their lines.

1. `stranded_validated`: `_finalize_run_failure` knows seven statuses and not
   `VALIDATED` and `STALE_BASE`. A request that fails between the two moves of
   `finish_validation` leaves the feedback there, with a failed run that
   `resume` does not accept. The run has one failed request, but there are other
   ways: a lost reply; a crash alone, since checkpoints are late and the replay of
   an earlier node then fails where the row had come further, or the artifacts are
   gone by the time of the replay; a maintainer who resumes the run the scheduler
   is at. `OnlyUnfinalizedStranded` says that with one driver nothing else is lost,
   whatever fails.
2. `completed_run_fails`: `fail()` overwrites whatever status the run has. A
   lost reply to the completing write makes a completed run a failed one, while
   its feedback says that the pull request is open.
3. `resumed_for_ever`: a security failure during publication asks for a
   transition the table forbids; the finalizer raises, the run stays active,
   and the scheduler resumes it on every poll.
4. `failed_yet_published`: the finalizer writes the feedback first. If it dies
   before it fails the run, the scheduler resumes the run and opens the pull
   request of a feedback that has already failed. What still holds with one driver is
   checked by `PullsByOwner`: the run is the one that last owned the feedback.

Other things the models contain, as the code does, are worth knowing. The policy
asks whether a feedback is mixed before it asks whether it is related
(`agent/domain/policy.py:83`), the requirements
(`docs/AgentRequirements/jev-gate.md:33`) the other way round: one that is both
goes to a person. A comment (`agent/domain/policy.py:213`) says that a conversion crash
needs no more than the non-empty Markdown that the user has provided, and the code
does not look whether there is any: Markdown is required of the form's type `bug`
only (`agent/domain/policy.py:51`), and a `feature` with blank Markdown that is
classified as a crash is accepted for reproduction. `WorthRepair` follows the
code, and `RepairWithoutMarkdown` says that this case is the only one.
`_classification_from_answers`
(`agent/providers/jev.py:241`) drafts an issue under other conditions than the
schema wants one: a well-formed answer of Jev in the gap raises, is taken for an
unavailable service, asked for again and left to the legacy classifier. An
infrastructure failure of the worker is stored as a failed verdict, which a
retry of the job gets for ever. A container that outlives its worker makes the
repetition of its job fail without a report, and that too is stored. A run
resumed from an old checkpoint may send another patch under a job id it has
used, and ends in the 409 conflict (`ConflictOnlyAfterRestart` says that nothing
else brings it about). A blocked report `cannot_reproduce` is accepted while a
second-round test waits to be run. `OneIssuePerFeedback` holds because one
process publishes issues and because its lookup finds what has landed;
`NotAllDuplicates` because there is one scheduler: a maintainer who stops the run
of one report behind its gate, claims the other report and then resumes the first
run makes the two duplicates of each other.

## 5. The proofs

TLAPS checks, for every value of the constants that satisfies the assumptions:

* `FeedbackRun_proofs`, `TypeCorrect`: `Spec => []TypeOK`. `TypeOK` is not
  inductive. `PatchRun` writes to `run[proc[p].tok]`, so the proof needs that
  a process past its claim holds a token; the node `route_feedback` writes the
  status it was handed, so it needs that a thread pending there was handed a
  route, and one pending at `finish_agent_blocked` a blocked outcome
  (`Handed`); the claim counter only stays in bounds because an exhausted row is
  never claimed. `TypeInv` says so, part by part (`ProcsOK`, `RunsOK`,
  `CkptsOK`, `RowsOK`, `RestOK`), and each action has a lemma that it keeps the
  parts it touches.
* `FeedbackRun_proofs`, `RunsHaveFeedback`: a process that executes, resumes,
  reopens or finalizes a run does so on a row that exists and names a feedback.
  It is the second half of the same induction.
* `FeedbackLifecycle_proofs`: `LifecycleTyped`, `OneOwnerHolds` and
  `WorkIsOwnedHolds`. `OneOwner` needs that every token in use was handed out
  (`TokensHandedOut`), and `WorkIsOwned` that what rests in a verdict after
  having been reopened still has its owner (`RestIsSound`).

* `FeedbackRun_proofs`, `PublicationIsValidated`:
  `Spec => []PublishedOnlyValidated`. The verdict is looked at once, on the edge
  out of `finish_validation`, and acted upon at `publish_pull_request`, perhaps
  by another process resuming from a checkpoint. `SafetyInv` carries it along:
  what a node has been told is true in the memory of every process
  (`ProcsSound`) and in every thread, however late (`ThreadsCleared`); a
  run in status `publishing` is marked valid (`PublishingIsValid`), which is
  what a reopened publication and a replayed `complete_validation` rely on; and
  a run being created was never used before (`TokensAreNew`), so that creating
  it cannot wipe out what is known of a run at work. The proof shows first that
  a step never takes anything back from a run in use (`Grows`), then that the
  one process that moves leaves behind, and takes with it, only what holds
  (`StepSound`, one lemma per shape of step). `SafetyInv` was checked with TLC
  on the runs of `FeedbackRun` before it was proved.

* `FeedbackOwnership_proofs`: `InFlightIsRun`, `OpenedExists`, `PullIsUnique`,
  `StaleTwiceAtMost` and the refinement `RowsImplementLifecycle`, for any number of
  rows, processes, claims and faults of every kind. (`PullIsUnique` states
  `OnePullPerFeedback`, which no run checks: in the model as on GitHub a branch has
  one open pull request, and the runs of a feedback share a branch as long as they
  agree on its category, see section 6.) They rest on one fact that no step shows by itself: a run past its first node holds
  its feedback row until it has seen `main` leave its base behind (`Bound`). A
  process decides on what it has read, a conclusion or a pull request, some
  requests before it writes, and a checkpoint may bring that decision back to
  another process, so `OwnershipInv` has five layers: tokens are handed out once
  and name one run of one feedback (`TokensInv`); what a thread or a process is
  to execute next has the ground it claims (`PositionsInv`); what is about to be
  written is still warranted when it is (`AimsInv`: the compare-and-set on
  status and token is what makes an old reading harmless); the runs, GitHub and
  the stale base agree (`PlacesInv`: of the runs that have let go of a feedback
  there is one, since letting go is counted in `requeues`); and a row in work or
  with a published result names the run that did it (`RowsInv`). The steps are
  sorted by what they may do to a row (nothing, submit, give up, claim, or write
  an aim), and the refinement maps each of these to an action of
  `FeedbackLifecycle` or a stutter.
  `FeedbackLifecycle_proofs` proves `OneOwner` and `WorkIsOwned` of every
  behaviour of that specification, so by `RowsImplementLifecycle` they hold of
  the rows of `FeedbackRun`; the prover cannot instantiate a theorem through the
  refinement mapping, and this last composition is an argument on paper.
* `FeedbackOwnership_proofs`, `PullsOwned`: `Spec => PullsByOwner` for one process
  (`Procs = {d}`). The look at `main` and the POST are requests apart, and what
  carries the look over to the POST is `PostInv`: where a process is about to open
  a pull request, `main` has not left the base of its run, so that by `Bound` the
  run still holds its feedback. With a second driver of the same run this is false,
  of the model and of the code (section 3).
* `FeedbackOwnership_proofs`, `OneSchedulerOneRun`: `Spec => []SingleFlight` for
  one scheduler and no maintainer (`Schedulers = {s}`, `Maintainers = {}`), the
  deployed configuration, for any number of rows and under all faults. Without
  the hypothesis it is false: nothing leases a run. The invariant `SingleInv`
  adds that a process about to claim or to create a run left no run active
  behind it, which is the order of `run_once`.
* `FeedbackDriver_proofs`, about one process that drives the runs (`Procs = {d}`:
  the resident scheduler without maintainers, or a maintainer alone), for any
  number of rows and claims. `EndedRunsStay` (`TerminalRunsStay`, under every
  fault but a lost reply), `DuplicatesHaveOriginal` (`NotAllDuplicates`, one
  scheduler, all faults), `TablesAgree` (`StagesAgree`) and `ActiveRunOwns`
  (`ActiveRunOwnsFeedback`), both under all faults. A step is first brought into
  a form (`DriverStep`: what it reads, decides, writes or loses), and all
  inductions go over these forms.
  `Working` says that whoever executes a node does so for an active run, or is
  saving its end: the resume that brings a checkpoint back finds the run active,
  and only a reply that was lost can have ended it in between. `Purpose` says that
  what is about to be written is what the node, or the failure, calls for.
  `DuplicateInv` carries a conclusion "duplicate" from the gate to the write, in
  memory or in the checkpoint, together with the row that warrants it.
  For the tables `DriveInv` adds `TablesInv`, since neither property is inductive:
  what keeps the row from falling behind its run is where the checkpoint is. A
  run that came to a node has reached the status of that node (`Reached`,
  `FitsAt`), whatever is replayed; so has every thread (`Threaded`) and the memory
  of the process (`Abreast`); whoever is at the run row has left the feedback row as
  it should be (`Ahead`), and a maintainer who reopens a run writes the row first
  (`Reviving`); a row that waits has no owner, and a new claim no old error
  (`Waiting`). Then one status is left to the run at every write, and the row stays
  in the stage of its run (`Agrees`). With two drivers `Working` fails, and
  `completed_run_fails` shows what follows.
  `NothingStranded` (`OnlyUnfinalizedStranded`) is about every fault and
  checkpoints as late as they may be. Its invariant `KeptInv` says what becomes of a
  row when its run ends. Where the graph ends it, the row has a verdict
  (`EndIsSettled`, `Closing`): a node that takes the row for its own earlier work
  finds there what that work leaves (`EndSettles`), and the one status for which
  this is not so, a rejected patch with a row that is being published, does not
  occur, because only a patch that passed gets a row there (`Passed`, from
  `SafetyInv`). Where the finalizer ends it, the row is one of the seven statuses it
  knows and gets its verdict, or is left as `VALIDATED` or `STALE_BASE`
  (`LeftBehind`). `Kempt` puts this together. That the exception is needed is
  section 4.
* `RepairRun_proofs`: `RepairTyped`, `TestStaysFrozen` and the refinement
  `VerdictsImplementOnce`, `EvidenceIsOfThePatch`,
  `ReproductionStands` and `ConflictTellsOfRestart`, for both loops and any
  numbers of rounds, model calls, retries, faults and steps between checkpoints.
  None of the invariants is inductive, and the induction is in three layers.
  `TypeInv`: the types; what the agent or the graph knows at each place of its
  loop, of the state and of the checkpoint (`Shape`); and what the sandbox owes
  its caller (`SandboxInv`: at most one request at the worker is waited for, it
  is the caller's, what executes has no verdict yet, and an answered result is
  the stored verdict), without which an answer might belong to a request that
  was given up. `EvidenceInv`: what a state claims is on disk and is about the
  patches on disk. A resume puts the checkpoint in the place of the state and
  leaves the artifacts, so this is carried for both, with how far one may be
  behind the other (`Behind`) and that a result the checkpoint has still to
  classify did not settle the matter before (`NotSettled`). `RestartInv`: in a
  run that was never resumed, every job that is at the worker or has a verdict
  is the outstanding call or one the state will not ask for again (`Past`).

* `Publishing_proofs`: `PublishingTyped`, `PullsShowTheirPatch`,
  `OpenedExistsHolds`, `ConflictIsRealHolds` and `PublishingImplementsOnce`, for any number of rows, patches, processes and
  faults. What the publishers create only grows (`Grown`): a branch keeps its
  patch, a pull request and an issue stay. So what a call has found out
  (`CallSound`) and what a row says (`TaskSound`) remain true whatever the other
  processes do and whatever lands late; a late creation was sent by a call that
  had verified its branch, and stays harmless when it lands (`LateOK`). What
  landed and what may still land never exceed the faults (`CountsOK`), which
  `TypeOK` needs. `ConflictIsRealHolds` excepts the calls in which GitHub refused a
  creation for reasons of its own, since the code reports those as conflicts, too.
  `OneIssue` proves `OneIssuePerFeedback` if at
  most one process publishes issues (`OneIssueWorker`, as deployed; two that
  look up at the same time would create one each). Its invariant `IssueInv` says
  that what a call has looked through without finding anything holds no issue of
  its feedback (`Looked`): pages are counted from the newest issue, so issues
  that other people open meanwhile push an older one towards the pages still to
  be read, never back. The refinement looks at each step once more
  (`EveryOnceStep`): it gives one branch its patch, shows one pull request of a
  branch that was given, or leaves both alone.
* `FeedbackGate_proofs`: `GateRunsOut`, `ResultReadsBack`, `SchemaAgrees`,
  `WorkWarranted` and `RepairedWithoutMarkdown`. The counters stay
  within their attempts (`CountersOK`) and each action lowers what remains; the
  policy's rewriting keeps a valid classification valid (`NormalizeKeepsValid`),
  which matters because nothing validates it again before the next node reads
  it. What the rules select is proved once and for all answers: the first rule
  of a concatenation is the first rule of its first list, if one of that list
  applies, and else that of the rest (`ConcatDecides`), so that each of the
  five lists gets a lemma of its own (`JevDecides` ... `RepairDecides`) and
  `PolicyDecides` puts them together: a feedback is accepted for repair exactly
  if it is worth one, and becomes an issue exactly if it is worth one. The
  invariant `ClassifiedByPolicy` says that a stored classification is the
  policy's work on a valid answer, of Jev, of the legacy classifier, or of the
  latter in Jev's name; `AskedOnly`, which `RepairedWithoutMarkdown` needs besides,
  that a classifier is asked only about what the checks without a model let through.
* `FeedbackService_proofs`: `LimiterTyped`, `GlobalQuotaProved`,
  `ClientQuotaProved` and `RetryAfterProved`. A deque is looked at from its end
  (`Latest`), because what is pruned is at its beginning: `PruneIs`, `AppendIs`
  and `OlderIs` say what becomes of the k-th latest event, `WaitIs` that a full
  window waits for the event as many places back as the limit. `MapInv` has the
  order of the keys, in which any set of them has a first, so that `popitem`
  finds one (`OldestIs`). `HistoryInv` relates the map to the history: whoever
  comes after a client in the order submitted since it last did, so that the
  client evicted from a full map has seen a crowd (`MakeRoom`); a client that
  has seen none is in the map with all its admissions of the day, or has none
  (`Remembered`); and the map knows of no admission that did not happen
  (`Younger`), so that a client is no longer counted among the crowded only
  once its deque has run out as well. `GlobalInv` gives each admission of the
  last hour a place of its own in the deque of all clients (`Matched`): a
  submission shifts the places by what is pruned, a tick shifts the histories.
  `RetryAfterProved` needs the types and the arithmetic of rounding up only
  (`RoundedUp`).

The assumptions are `ClaimsAssumption`, `RunAssumption`, `RepositoryAssumption`,
`PageAssumption`, `PublishingAssumption`, `GateAssumption`, `SandboxAssumption`,
`RepairAssumption`, `ModesAssumption`, `NoneAssumption`, `NothingAssumption` and
`LimiterAssumption`: types of the constants, disjoint kinds of processes, at
least one attempt, round and page, limits of at least one (the constructors of
the limiter and of its policy refuse less), windows of growing width, and that ids and contents are none of the special values (`None`, the
empty record of a state, other people's issues). TLC evaluates all of them on
the runs. `OneSchedulerOneRun`, `OneIssue` and the theorems of
`FeedbackDriver_proofs` have the hypotheses named above.

What is only model-checked, and why:

* Liveness under fairness, which is out of the prover's reach:
  `RunsEndUnlessForbidden`, `FeedbackSettlesUnlessLeft`, `EveryRunEnds` (of
  `RepairRun`), `EveryPublicationEnds`, `SubmissionsGetThrough`.

Every invariant and every action property of the passing runs is stated by a
theorem; those about one driver or one issue worker have the hypotheses above. The
properties of the violation runs have none, of course.

## 6. What is not modelled

Left out of the modelled components: usage counters and their merging on
failure, failure records and their retention, telemetry, notifications, the
contents of artifacts, wording of errors. In `FeedbackRun` one request is
atomic (PostgREST executes it in one transaction), and model, sandbox and GitHub
calls are one step each: the other modules take those apart. A run is identified
with its claim token because `start` creates exactly one run per claim. Statuses
and fields no code path of the production graph writes (`ISSUE_REQUIRED`,
`CANCELLED`) are kept in the types only. The dry-run and reproduce-only stages
of the command line are left out.

Publishing: people closing or deleting what the agent made; blobs, tree and
commit are one step, since nothing points to them before the branch does;
`_verify_existing_branch` compares what a branch holds and not the commit it
starts from, so that neither does the model; a second run that puts the same
feedback under another category. Two feedbacks whose ids share the prefix of the
branch name are in the module (`Prefix`) and the proofs, not in the TLC
instance.

Repair: reading of sources, summarisation, the tool-call limit, usage; a corrupt
store, rejected credentials, a container that cannot be removed; deployments
with repair switched off; who wrote a test (the model or its fixed fallback).
The results `rejected`, `regression` and `failed_otherwise` are in the module and
not in the TLC instance, where they would only repeat the branches of the others.
Snapshots, edits and patch checks count as an edit that is refused or not.

Gate: the prompt and what is extracted from a feedback, the patterns on its
description beyond the three cases that the rules tell apart, scores, usage.

Service: insertion and its failures have no bearing on the limiter (the permit
is not given back), and requests that are refused before the limiter (an unknown
address, invalid contents) do not reach it. A restart forgets the windows, which
are those of one process. The conversion is a chain of pure text functions
(`backend/app/normalizer.py`, hundreds of lines of regular expressions on
characters) and child processes of one request: it has no state to check, and a
model of it would be a transcription.

Telemetry, operations and evaluation, the extension, the trace site and the
deployment scripts keep no state that the modelled components read.

## 7. Plan

Next models: the dry-run and reproduce-only stages in `FeedbackRun` (a thread
that has ended below an active run); `SourceWorkspace` (edits, patch policy);
`ValidationVerdict` (how a report becomes a result); `TraceSnapshot`.

Next theorems: the lemmas each new component needs; of the properties checked now
only the liveness properties have no theorem.
