# A verification project for the FTL customer research system

The system is a Django application with Celery workers (`src/apps`).  It
watches public career pages, keeps a history of the job postings it finds there, detects
signals in them, aggregates the signals to opportunities, researches the
companies behind them, designs solutions and finds contact routes.  Every piece
of durable work follows one pattern: a database transaction writes a
`PipelineRun`, a `TaskOutbox` command and an `AuditEvent`; dispatchers publish
the command to the broker; a worker consumes it, at least once, and writes an
effect that has to be idempotent.

This directory models that pattern and every stage of the pipeline that keeps
state of its own in TLA+.  Each module names the code it models, `PROJECT.json` maps each definition to
its lines.

## 1. Inventory

| Component (`src/apps/...`) | State | Operations | Module |
|---|---|---|---|
| `operations` outbox | `TaskOutbox`: status, attempts, claim, availability; audit events | submit, claim, publish, mark published or failed, recover stale claims, operator retry, consume | `Outbox`, `CommandLedger` |
| `sources` fetching | `SourceEndpoint`, `SourceCandidate`, `FetchAttempt`, effect step, run | submit, begin, complete, fail, exhaust; block by an operator | `SourceFetch` |
| `sources` snapshots, `jobs` parsing | `SourceSnapshot`, `ConnectorParseAttempt`, `JobPosting`, `PostingObservation`, `PostingChangeEvent` | record a poll, schedule a parse, reparse, begin, persist, fail | `PostingLifecycle` |
| `discovery` | definition versions, `DiscoveryRun` with lease, effect step, `DiscoveryQuery`, `EndpointWatch`, `DiscoveryCandidate` | create a version, schedule, begin (lease, take-over), busy retry, poll known endpoints, search, register candidates, complete, fail | `Discovery` |
| `providers` | `ProviderCall`, `ModelPolicy` and `ModelCapability` | create, authorise against concurrency and budgets, start, answer, fail; replace a policy | `ProviderCalls` |
| `signals` | `SignalDetectionAttempt`, `SignalEvent`, `SignalAssessment` | schedule, detect and supersede, classify, override the mode, retract, fail | `SignalChain` |
| `opportunities` | `CompanyAssessment`, `Opportunity`, aggregation runs, `QualificationOverride` | schedule per cause, read, commit, override, fail | `SignalChain` |
| `research` | `ResearchRun`, report artifact, dossier, the opportunity's research status | request, public stage, extraction stage, mark failed | `ResearchRuns` |
| `solutions`, `knowledge` | `SolutionVersion`, matches, `OpportunitySolutionState`, active release | request, design, match, edit, approve, mark failed, activate a release | `SolutionDesign` |
| `contacts` | `ContactResearchRun`, source targets, routes, suppression list, selections | request, infer roles, scan, settle, mark failed, enter, review, suppress, select | `ContactRoutes` |
| `companies` | `CompanyProfileRun` and its steps, profile fields and observations | schedule, begin, complete, fail, retry, exhaust; edit by a person | `CompanyEnrichment` |
| `sources` HTTP client and URL policy | none outside a call: hops, redirect chain, pinned addresses, body | fetch one page: validate, connect, follow a redirect, read, fail | `HttpFetch` |
| `accounts`, `core`, configuration, views, connectors, parsers, scripts | none that the pipeline's control depends on | permissions, rendering, parsing | not modelled |

**Interactions.**  Components never call one another across a commit: one
schedules the next by writing a command in its own transaction
(`_complete_fetch` schedules a parse, `_record_change` a signal detection, a
detection an aggregation, and so on).  So the outbox is the channel of the
whole system, and every consumer sees deliveries that are delayed, repeated,
reordered and concurrent.  Endpoint status is shared between the admin, the fetch
and the parse; budget rows are shared by all provider calls.

**What is hard.**  Crashes between two transactions of one operation; claims and
leases that outlive or are outlived by their owners; redelivery while the first
delivery still runs; retry chains that race one another; results of an
operation without locks that arrive after the row they belong to was settled;
polls that are parsed out of order or twice; counters at their limits.  The
hazards of `PROJECT.json` list each at its line, with the properties that cover it.

**What makes each component correct.**
Outbox: no committed command is lost, none has its effect twice, nobody settles a
claim that is not theirs, attempts are bounded by the policy and audited
exceptions.  Fetching: one result per run, the newest attempt only is live, results
are final, every run settles.  Parsing: the posting row is what the parsed
history says, each poll counts once, events are unique and tell the lifecycle.
Discovery: one execution of a run at a time, the rows of a settled run agree, a
source is fetched once per run, every delivered run settles, unless a second lost worker
finds the busy retries spent.  Providers:
running calls and reserved spend never exceed the limits.
Signals and opportunities: two active results of an event come from overlapping detections
only, the company's assessment rests on the current signals or is about to, a person's
decision is not lost.  Research: what was paid for is kept, and a run is carried on
unless its message was dropped without a record.  Solutions: only a current, matched version counts as approved, and
a design is made from the research that is current when it is written.
Contacts: a run says what its pages say, a suppressed route keeps its mark.
Companies: steps follow their run.

## 2. Modules

### `Outbox` (with `CommandLedger`, `MCOutbox`, `OutboxProofs`)

`operations/outbox.py`, `services.py`, `tasks.py`.  A row has the variables
`status`, `attempts`, `claimedBy`, and membership in `due` (its `available_at`
has come) and `stale` (its `claimed_at` is older than `STALE_CLAIM_AFTER`).
`"absent"` is a command not submitted yet.  A dispatcher is an invocation of
`dispatch_outbox_batch`: `Claim` is its first transaction, then for each
claimed row `Publish` (the broker accepts, rejects, or accepts without the
dispatcher learning it; `build_envelope` refuses an unknown type) and `Mark`
(published, failed, or too late: both marks check status and owner).
`DispatcherCrash` forgets what it had in hand.  `BackoffElapses` and
the two `...ClaimAges` actions are the clock; a dispatcher that still
works outlives its claim only as a fault.  `RecoverStaleClaims` and `OperatorRetry`
complete the row's life.  A worker holds one message until it acknowledges
it: `Execute` is the transaction of `execute_checkpoint_command` with its check
for the `:effect` step, `ExecuteRetries` and `ExecuteGivesUp` what Celery does with
errors, `WorkerLost` and `VisibilityTimeout` the redeliveries.

`CommandLedger` is the abstract promise: sent only after commit, confirmed only if
sent and then for good, applied only after being sent and once, parked commands
released by somebody.  `Outbox` defines the refinement mapping (`Ledger`).

### `SourceFetch` (with `MCSourceFetch`, `SourceProofs`)

`sources/services.py` 254-1008 and `sources/tasks.py`.  A run carries `run`,
`candidate`, `step`, the sequence `attempts` and the number of `parses` scheduled;
the endpoint's `endpoint` and `failures` are shared by all runs.  A worker's
`phase` is the place in the task: `received` before `_begin_fetch`, `fetching`
while no lock is held, `retrying` after a recorded failure.  `working` is the attempt it
holds in memory, which another delivery may have written off meanwhile; `Live`
is the guard `attempt.status == STARTED` of both recordings.  `RecoverStarted` is the
task's test for `redelivered` or `retries > 0`.  `snapshot` says whether the endpoint has a
snapshot: a success schedules a parse if there is one to parse (line 757), so a 304 of an
endpoint without a snapshot completes the run and schedules none.  `PollRegistered` polls
active endpoints: `queue_registered_endpoint` does not ask, its only caller does
(`discovery/services.py` 397).  `ParseReports` stands for the parse
that sets the endpoint's status as well.  Runs one of whose tasks Celery gave up
(time limit, unexpected error) are remembered in `stranded`, because nothing in the code
takes them up again.

### `PostingLifecycle` (with `MCPostingLifecycle`, `PostingProofs`)

`jobs/services.py` and the snapshot part of `_complete_fetch`.  `served` is what the
source served at each poll, `recorded` the snapshot the poll was attributed to:
a body seen before keeps its first snapshot, and a 304 takes the one with
the latest first retrieval.  `jobs` are parse runs (a poll's, or a reparse's,
which works for the poll that created the snapshot), executed in any order by
workers that may be taken over (`BeginParse` with `recoverStarted`).
`ParseSucceeds` is all of `_persist_result`: for each posting the new row,
the observation (at most one per posting and poll), the change event.  A content is
a record of whether the posting is open, its text (semantic hash) and its form (full
hash), so that `ChangeOf` can tell cosmetic from material changes.

### `Discovery` (with `MCDiscovery`, `DiscoveryProofs`)

`discovery/services.py` and `tasks.py`.  A run has the rows `run`, `lease`, `pipeline`,
`step` and `query`; the sources it touched are `polled`, `submitted` and `provenance`;
`endpoint` and `watch` are shared with the other runs.  A delivery of
`discovery.execute` is a message and then a task: `serves`, `phase`, `retries`,
`wait`, `age`, and `found`, the candidates in its memory.  `Begin` is
`_begin_execution` with its lease, `Busy` the `DiscoveryLeaseBusy` retry, then
`PollEndpoints`, `CreateQuery` or `SkipWebSearch`, the search, `RegisterCandidate`
for each candidate in any order, `CompleteQuery`, and one of the two ends.
Each commits alone, so `WorkerLost` and the time limit (`FailExecution` in any phase) may
strike between all of them.  Time is counted in ticks: leases, countdowns and
ages move together in `Tick`, and `InTime` is the hard time limit: a task never
gets older than it.  In the code the lease is 300 s, the time limit 150 s, and
a busy delivery waits 5 times 60 s; what the model assumes of the numbers is only their
order (`DiscoveryAssumption`).  A redelivered message keeps its retry count, so the retries
that waited for one lost worker's lease are not there for a second: then the last delivery is
acknowledged while the run is RUNNING, and nothing takes it up (`Forsaken`).

### `ProviderCalls` (with `MCDiscovery`, `DiscoveryProofs`)

`providers/openai.py`.  `call` is the row's status, `caller` the place of the
code that makes the call.  `Authorize` is the locked part of `_authorize_call`
(its guard `LocksFree` is the two row locks, of the policy and of its capability),
`StartCall` its commit: between the two, calls that hold neither lock
authorise as well.  Spend is what `_reserved_spend` sums: the maximum cost of the running,
complete and incomplete calls of the day and of the month, of all operations.
`CallerLost` leaves the row as it is.  The research and discovery modules see a call
as an outcome only.

### `SignalChain` (with `MCSignalChain`, `MCPipeline`, `SignalProofs`)

`signals/services.py`, `signals/classification.py` and `opportunities/services.py`.
An attempt is an event with the detector version and the ontology of the code that scheduled
it; the signal's key takes the detector version of the code that runs and the attempt's
ontology, so `Deploy` between the two is an action.  The command's key lacks the
ontology (`signals/services.py` 511): an attempt of another ontology alone stays queued
without a command (run `signal_ontology`).  Handlers are transactions; `Handles` adds what they schedule to the
`inbox` and removes their own command, or does not when the worker is lost before the
acknowledgement.  `GoesUnrecorded` is the task whose last retry raises an
`OperationalError` again, or that meets the hard time limit: its message is gone, nothing
says so, and `stranded` remembers the command.

A detection locks its own run and attempt (529, 538), not the event, so detections of one
event overlap, and under READ COMMITTED neither sees the signal that the other has
inserted and not committed (610-617).  It is two actions: `ReadSignals`, up to that
query, and `CommitDetection`, which supersedes what the query saw and what is still active when
its lock is had.  A key that another transaction has inserted is waited for (`KeyFree`).
`overlaps` is the history of attempts that were under way together.  ADR-009 promises one active
result; the property says when the code keeps to it.  The aggregation locks
its company from `ReadAssessments` to `CommitAggregation`, but the assessments,
signals and overrides it reads change meanwhile.  Scores, pattern rules and texts
are one nondeterministic choice of a qualification.

### `ResearchRuns` (with `MCResearchRuns`, `MCPipeline`, `SolutionProofs`)

`research/services.py`.  A stage is `TakeJob` (it looks for its effect and reads the
run), for the public stage `SavePublic` (the status decided on when it was read is
written), the paid call without a lock, and `Register...`, which locks the run and
looks for the effect again.  A failure is marked by a transaction of its own (`JobRaises`,
`MarkFailed`).  `JobDropped` is the exhausted `OperationalError` retry or the time limit:
no mark, and the command is remembered in `unrecorded`.

### `SolutionDesign` (with `MCPipeline`, `SolutionProofs`)

`solutions/services.py` and the activation in `knowledge/services.py`, for one
opportunity.  `designing` is the design that holds the opportunity's row lock between its
check of the inputs and its write.  The other handlers wait for it
(`OpportunityFree`); an activation that has no version to invalidate does not.  An activation
is two actions: `BeginActivation` takes the snapshot of the query that joins states to their
current versions, `ActivateRelease` has the row's lock.  PostgreSQL evaluates the join again for a
row it had to wait for, and skips a state that points to another version by then (`Joined`).
A design's pipeline is that of its inputs; an edit has one of its own (`PipelineOf`), so the
late failure of its match is not silenced by the version it was made from.

### `ContactRoutes` (with `MCContactRoutes`, `MCPipeline`, `CompanyProofs`)

`contacts/services.py`.  A contact run belongs to an approved solution version and scans
the pages of that version's research (`PagesOf`).  A scan holds its locks while it
fetches, so it is one action, `ScanPage`, with `Settle` for the run.  Routes are known by
the HMAC of their address; a route found or entered again is left as it is (`Stored`),
and the suppression list is asked by address, whichever company's route put it there.
`SelectRoute` is one action, though the code reads approval and suppression list without a
lock: review and selection run under `NullableLocks` only, which is SQLite, where a transaction
cannot write once another has committed since its first read.  `ApprovalMoves` approves newer versions, and the same one again.

### `CompanyEnrichment` (with `MCCompanyEnrichment`, `MCPipeline`, `CompanyProofs`)

`companies/services.py` and `tasks.py`.  A run is begun, taken over when the
delivery is a redelivery or a retry, fetched without a lock, and completed or failed in
a second transaction.  `running` counts its RUNNING steps, because a
take-over adds one and the completion insists on exactly one.  The exhaustion of a retry chain
looks at the run in one transaction (`FindExhausted`) and marks it in another
(`MarkExhausted`).  One profile field
stands for all of them: each follows the same rule, `CanApply`.

### `HttpFetch` (with `MCPipeline`, `SourceProofs`)

`sources/http.py`: one call of `SafeHttpFetcher.fetch`, as `SourceFetch`, the enrichment
and the contact scans make it.  A hop is `EnterHop` (or `Refuse`), `Connect` to one
of the addresses the hop was pinned to, and an answer.  `visited` and the deadline are
looked at where the code does, `contacts` and `arrived` are histories.  The resolver may
answer differently at each hop.  What `canonicalize_url` makes of a URL is
the constant `CanonicalOf`, and what the address policy permits `PublicHosts`.  The chain is
kept as followed; that its ends are stored redacted is left out.  Two ways out are
not a `SafeFetchError`: a protocol error of the HTTP library and a `Location`
that `urljoin` rejects.  `SourceFetch` has them as `TaskAborts`.

### Harnesses

`MCPipeline` puts the five modules from signals to contacts and `HttpFetch` side by side: `subject`
picks the one a behaviour is about, the others rest in an initial state, so the
state space is the sum and not the product.  `MCDiscovery` does the same for
`Discovery` and `ProviderCalls` with the conditions `DiscoveryRests` and
`ProviderRests`.  Components share no variable there: what one takes from another is an
action of its own module (`ResearchMoves` and `ActivateRelease` in `SolutionDesign`,
`ApprovalMoves` in `ContactRoutes`, `EndpointChanges` in `Discovery`).

## 3. Runs

| Run | Question | Bounds | Distinct states |
|---|---|---|---|
| `outbox_safety` | safety of the outbox and refinement of the ledger | 2 commands (1 without a route), 2 dispatchers, 2 workers, 2 attempts, batches of up to 2, 1 task retry, 3 failures, 1 operator retry | 787,734 |
| `outbox_liveness` | does every command settle, does every claim end | the same with 1 worker and 2 failures | 130,744 |
| `source_fetch` | safety and settlement of a run | 1 run, 2 workers, 1 retry, degraded after 2 failures, 3 failures of the environment; with and without an earlier snapshot | 505,808 |
| `source_fetch_blocked` | does a block hold (violated) | 1 run, 1 worker | - |
| `source_fetch_duplicate` | is a duplicate without effect on a failed run (violated) | 1 run, 1 worker | - |
| `posting_changes` | rows, observations and events of a posting in five contents; absences, closing, reappearance | 3 polls, or 4 that list it in one wording or not; 1 reparse with up to 3 polls, 2 workers, threshold 2 | 1,821,866 |
| `posting_304` | does a posting close after absences that were served (violated) | 5 polls, 1 worker, no reparse | - |
| `discovery` | limits and budgets of paid calls; executions, rows, sources and settlement of a discovery run | 3 calls of 2 operations under 3 policies of one capability, 3 days, months of 2 days; 1 run of 2 possible (scheduled or manual), 2 deliveries, 2 lost workers, 3 URLs (1 excluded, 1 unsafe), lease 2, time limit 1, 2 retries after 1 tick | 429,066 |
| `pipeline` | signals, company, research, solutions, contacts, fetching a page | see below | 1,189,133 |
| `signal_ontology` | is a queued detection commanded (violated) | 1 event, 1 detector version, 2 ontologies, no failure | - |
| `solution_stale` | does changed research make a solution stale (violated) | 2 research runs, 2 versions | - |
| `company_takeover` | is an enrichment carried on after its worker was lost (violated) | 2 runs, 3 deliveries, 1 lost worker | - |

Bounds of `pipeline`.  Signals: 1 event, which is a signal for both of 2 detector
versions, 2 ontologies, 2 detection attempts, 1 failure, lost worker or dropped message, 1
decision by a person.  Company: 2 runs, 3 deliveries (2 of one run), 1
retry, 2 names, 1 edit, 1 lost worker, 1 task ended by its time limit.  Research: 2
inputs, 2 deliveries of each command of the first and one of the second, 1 lost
worker or dropped message.  Solution: 2 releases, 2 research runs, 2 versions, 2 activations, 1 command
delivered again.  Contacts: 2 versions, 2 pages (both or one of a version's), 1
address, 1 command delivered again.  Fetch: 2 pages, one of them in two spellings, a refused
URL and a malformed one, 2 addresses (1 permitted), 2 redirects, 2 bytes, deadline 1, clock up to 2.

Why the bounds are enough.  The interesting cases of the outbox need one row and
two dispatchers (a claim lost to a successor) with two or three failures (a crash, an
expired claim, an unconfirmed publication); the second command makes batches and the
unsupported type happen, and two attempts make the limit reachable in three ways
(failures, recovery, operator).  `MAX_AUTOMATIC_ATTEMPTS` is 8 and
`MAX_BATCH_SIZE` 100 in the code; nothing compares them with another number than the counter.
For a fetch, three deliveries of one run (two of them at work, one in the broker)
and one retry each show all take-overs and exhaustion beside a live attempt;
`max_retries` is 3 and the degradation threshold 3 in the code.  Runs of one
endpoint share only its status, failure counter and snapshot, which no invariant constrains
across runs (a run may find a snapshot or none), so one run suffices.  For postings the threshold is the code's (2);
four polls allow an absence after a sighting, closing and reappearance, and two workers any
overtaking.  Postings of an endpoint do not influence each other in the parts modelled,
so one posting is checked (`Postings` is a parameter).
A discovery run needs two deliveries for an overlap, one lost worker for a take-over, and a
second one to find the busy retries spent; the lease is one tick longer than the time limit,
the least the code's numbers allow, and the retries last exactly as long as the lease, as in the code.
Two calls of one operation under different policies and one of another operation
show both limits: the locks exclude the former by the capability only, and
the budgets are shared with the latter.  In the pipeline every component has two of the
things that compete (versions of a detector, deliveries of a command, research runs,
releases, solution versions) and one failure of each kind.  Two attempts of one event are what
an overlap takes; events compete only for the company's aggregation, which the two attempts'
signals do as well.  Two redirects are what
a loop through another page takes, and one more is refused by the limit (5 in the code).  What the mutants
break is reached inside these bounds, and the theorems of section 5 hold for all of
them.

`CHECK_DEADLOCK FALSE` is set everywhere: the models stop when all commands have
settled or the bounds are used up, which is how the system rests too.

Symmetry (dispatchers, workers) is used only in runs without liveness properties.

**Disagreements with the documents.**
`source_fetch_blocked`: a block by an operator is not respected by a queued fetch
and is undone by its success.  `source_fetch_duplicate`: a duplicate of a
command whose run failed fetches again, although the documents promise that duplicates
have no domain effect.  `posting_304`: a 304 is attributed to the wrong snapshot when the
source went back to an older body, and the posting closes after one absent feed.
`signal_ontology`: an upgrade of the ontology alone queues detections that no command will ever
execute, for the commands' keys name the detector version only.
`solution_stale`: only the activation of a release makes a solution stale; new
research does not, although the status document says so.
`company_takeover`: the take-over of an enrichment leaves the lost worker's step
RUNNING, the completion finds two and raises, and the run stays RUNNING for good.

## 4. Fairness

`Outbox!Fairness`: beat starts dispatch every 10 s and recovery every 60 s
(`bootstrap_ftl_platform.py` 65-94), so claiming and recovering are weakly fair; a
dispatcher that is alive goes on (its crash is an action of its own); time passes, so
back-off elapses and the claim of a dead dispatcher ages; Redis hands out what it
holds, message by message, and a worker finishes its task.  No fairness on
submission, operator retry, or any failure, and failures are
bounded, which is the usual assumption that the environment is eventually good.
`SourceFetch!Fairness` is the same for publication, delivery and the progress of
a task; how a fetch ends is left open, so a source that fails for ever is included.
`Discovery!DiscoveryFairness`: the worker that has a delivery goes on with it, or the
broker's message is taken up when its countdown is over, and time passes.  Nobody
has to create a run, and a worker need not be lost.  It is stated for a
run that was delivered: the publication is the outbox's business.

## 5. Proofs

`OutboxProofs` proves for every choice of the constants allowed by
`OutboxAssumption` (any commands, dispatchers, workers, limits, and any number of
failures): `TypeCorrect`, `EffectIsIdempotent`, `AttemptsAreAccountedFor`,
`CausalityHolds`, `ClaimsEndByOwnerOrRecovery`, `SettledRowsStay`, `PublishedStaysCovered`
and `OutboxImplementsLedger`.

The inductive invariant is `IInv`.  `AtMostOneEffect` is inductive with the type
invariant.  `AttemptsAccountedFor` is not: a pending row is claimed without a look at
its attempts, so `AttemptAllowance` adds that a pending row has one left.
`PublishedIsCovered` is not inductive because a dispatcher marks a row long after it
published: `SentIsCovered` says it from the moment the broker has the
command.  For that, and for the refinement, `Causality` excludes states in which
something is delivered or marked that was never sent.  The action properties follow from
frame lemmas (`RowStep`, `OwnerStep`, `SettledStep`, `EffectsStep`, `DeliveryStep`,
`SentStep`): which actions change which variables.  `LedgerStep` gives the
ledger's action for each action of the outbox, a stutter for most; crashes, duplicates
and stale claims are invisible to it.

`SourceProofs`, for any runs, workers, retries and failures.  `OlderAttemptsFailed` says
that an attempt which is STARTED or FETCHED is the newest of its run; with
`AttemptsAreExclusive` and the types it is inductive (`AttemptInv`) and gives
`OnlyTheNewestIsLive` and `ExclusiveAttempts`: whoever begins first closes the attempt left
behind, so two workers hold different attempts.  `ResultIsTakenOnce` then needs only
the newest attempt: `RowsFollowAttempt` ties the run, the candidate and the step to whether it
succeeded, and the parses to that: none without a success, one of a body, at most one of a 304.  `ResultsStayFinal` is an action property over
both.  The invariant of `UnfinishedRunsAreUnderway` is not inductive: a delivery that may not
take over skips a run that is RUNNING, and could be the last.  `DeliveryInv` adds who
may go on: a STARTED attempt has a redelivery, a retry or its own worker
(`StartedIsRecoverable`).
For `HttpFetch` the invariant `HttpInv` relates the chain to the contacts (`ChainIsLinked`)
and the contacts to `visited` (`VisitedBefore`): `HopsStayDistinct` and
`EvidenceStaysTrue`.

`PostingProofs`, for any postings, feeds, workers, threshold, polls and reparses.
`JobInv` says that a parse run parses its poll's snapshot, that a poll has one parse
run of its own, and that what was applied has its result.  So a poll is never applied
twice by its own run, and a row that counts absences counts polls: that is how
`RowsFollowHistory` goes through (`RowInv`, with `ObservedByParse`: an observation
comes from the poll's own parse or from a reparse that listed the posting).
`ObservationsAreTrue` and `EventsAreUnique` follow step by step.  `EventsAreTheLife`
follows from what one event adds to a history (`Tells`), since a posting
that no reparse listed changes by its polls' own runs only.  `HistoryStays` is the action
property.

`DiscoveryProofs`, from `DiscoveryAssumption` (the time limit is shorter than the
lease; nothing else about the numbers is used).  `OneExecution` rests on `LeaseInv`:
`NoOverlap` alone says nothing of the next `Begin`, so `LeaseCovers` relates
what is left of the lease to the age of the task; their sum never falls below
the whole lease, hence a lease cannot run out while its execution lives.  `RowsAgree`
adds `RowsInv`: the query's row is where the execution that created it is
(`QueryFollows`), which holds for one execution only because no other writes the
row.  `FetchedOnce` needs that a submitted URL is an endpoint whose watch is
not due (`SubmittedInv`).

Its second part is about `ProviderCalls`.  `LimitIsNeverExceeded`: the count that admitted
a call has to hold until its row is RUNNING.  `AdmissionStands` says that it does, and
`AdmittedApart` why: two admitted calls of one operation would both be of the active
policy and hold one lock.  `BudgetIsNeverExceeded` cannot argue so, because operations
share the budgets and hold different policies.  It is stated under `OneCapability`: all
policies have one capability row, which the bootstrap command creates
(`bootstrap_ftl_platform.py` 136-153), so that its lock makes admissions take turns.
Without it the property is false: two operations would admit beside each other and
overspend together.  `BudgetInv` says that what an admitted call is about to reserve fits
beside all that is reserved since its day and its month began (`AdmissionHasRoom`), a
set that only shrinks until the call starts (`NothingReserved`), and that every
day and month is within a budget, future ones included.

`NumberFacts` has what both rest on: sets of numbers have a least element, and
`SumFunctionOnSet` of the module `Functions`, which chooses the order of
its summands, gains a new element's value (`SumAddsElement`) and is no larger on a subset
(`SumIsMonotone`).  Induction is stated there as a fact about sets of numbers
(`NumberInduction`) rather than about predicates, which the provers can use.

`SignalProofs`: `ResultsAreSuperseded` says that two active results of one event belong to
attempts that overlapped.  Its invariant `DetectionInv`: an active signal belongs to a
successful attempt (`OwnersSucceeded`), attempts of one event under way together are in the
history (`TogetherRecorded`), and a detection under way has seen every active signal of its
event but those of attempts it overlapped (`SeenOrTogether`).  So what is active after its
commit beside its own signal overlapped it.  `DecisionsPrevail`.  `SelectionIsCaughtUp`, which
exempts what was given up, recorded or not, rests on `SelectionsAccount`:
unless an aggregation waits that has not read yet, what the one that reads has read, or
else what is selected, is right about every result.  For that a
cause's aggregation must not be there before its cause (`CausesHappened`), its message must
stay until it is done (`MessagesFollowAggregations`), and the company's lock lets one
aggregation read at a time (`OneReads`).

`SolutionProofs`: `ResultsSurviveFailures` from the phases in which a delivery holds a
research run, and `NoRunIsAbandoned`: a run under way whose awaited stage nobody carries on has
had a delivery of that very stage's command dropped unrecorded.  It needs the right stage to be
carried on, not just some stage.  `ApprovalIsOfCurrent`, and `DesignsFollowResearch` from
`DesignHolds`, the meaning of the row lock.

`CompanyProofs`: `RunsFollowTargets`, whose invariant says that a run with settled
targets has ended, so that a failure marked late finds nothing to change;
`StepsFollow`; and `SuppressionStays`: the mark of a suppressed route survives later scans,
entries and reviews.

Only model-checked: liveness (`EveryCommandSettles`, `EveryClaimEnds`, the two
`EveryRunSettles`), which is beyond the prover.  Every other property of a passing run
is a theorem.

## 6. Not modelled, and why

Times are sets of what is due or stale, or ticks; texts, hashes, scores, URLs and payloads
are members of small sets; the rules of canonicalisation and of the address policy are
constants.  Audit rows other than those that properties count, row
versions and heartbeats are left out.  Submissions that URL policy rejects never get a run.
Duplicate links and locations of postings are left out: they are rebuilt from
the same parse and read by nothing that is modelled.  Connectors, page parsers,
permissions and views are functions without state of their own, or input and output.

- *Database.*  A transaction that rolls back and is tried again (an `OperationalError` with
  Celery's retry) changes nothing and is not an action.  When the last retry fails too, or the
  hard time limit ends the task, the message is acknowledged with nothing recorded:
  `TaskAborts`, `GoesUnrecorded` and `JobDropped`, and the properties exempt what was dropped by
  name.  For solutions and contacts, whose properties promise nothing about
  progress, a dropped message is one that is never delivered.  Row locks are guards.
  The database matters in three places: transactions do not see one another's
  uncommitted rows (detections), a row waited for is compared again (activations), and
  `NullableLocks`: with `FALSE` (PostgreSQL) review and selection of routes are disabled.
- *Timing.*  `DispatcherIsSlower` in `ResearchRuns` assumes that publishing a command
  takes longer than a transaction between its read and its write; without it a
  worker could save a status over one that a whole later stage has written.
- *Discovery.*  All runs share one window.  A daily cadence over several
  windows, and endpoints that stay DEGRADED and are never polled again, are
  modelled in `Due` but no property is stated about them.
- *Signals.*  `schedule_all_current_companies` schedules the causes that exist already
  and is covered by the delivery of a cause; an event yields at most one signal for a policy.
- *Contacts.*  Named persons (`create_human_person_observation`, suppression by
  person), encryption and the validation of addresses.
- *Knowledge.*  Loading a catalogue from files and validating it.
- *Accounts, core, configuration, scripts.*  Static tables, health checks, logging, and
  shell scripts outside the program.

## 7. Plan

Every safety and action property that a passing run checks is proved.  What is left:

1. Abstract specifications of single components, beside `CommandLedger`, and
   refinements proved step by step: a source run as an abstract job whose result is taken
   once, a provider call as a reservation in a ledger of budgets.
2. A posting as a function of its parses: `RowsFollowHistory` says it of the row's
   fields one by one.
3. Named persons in `ContactRoutes`, with suppression by person, and `SuppressionStays`
   extended to them.
