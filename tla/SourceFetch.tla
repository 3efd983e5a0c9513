---------------------------- MODULE SourceFetch ----------------------------
(***************************************************************************)
(* Fetching one public source endpoint (apps/sources): the pipeline runs   *)
(* submitted for it, the FetchAttempt rows each run collects, and the      *)
(* Celery task that begins an attempt, fetches the page without holding    *)
(* any lock, and records the result in a second transaction.               *)
(*                                                                         *)
(* The outbox delivers a run's command at least once (Outbox.tla), and the *)
(* task retries by sending itself again, so several deliveries of one run  *)
(* may be at work together.  A worker that dies between a commit and its   *)
(* acknowledgement is a Redeliver followed by the worker's normal end.     *)
(*                                                                         *)
(* An attempt "unchanged" is a NOT_MODIFIED one: it succeeds without a     *)
(* body, so the run completes whether or not there is a snapshot to parse  *)
(* again.  "failed" stands for FAILED, TOO_LARGE and UNSUPPORTED.          *)
(***************************************************************************)
EXTENDS Naturals, Sequences, FiniteSets

CONSTANTS
  Runs,          \* pipeline runs "source.ingestion" of the endpoint
  Workers,       \* Celery workers
  NoMessage,     \* the message of an idle worker
  MaxRetries,    \* max_retries of fetch_public_source_task
  DegradeAfter,  \* consecutive failures that make the endpoint DEGRADED
  MaxFaults      \* bound of the model: failures of the environment

(* A delivery of the run's command: the task's retry count, and whether    *)
(* the broker flags it as redelivered.                                     *)
Message == [run : Runs, retries : 0..MaxRetries, delivery : {"first", "again"}]

ASSUME SourceFetchAssumption ==
  /\ NoMessage \notin Message
  /\ MaxRetries \in Nat
  /\ DegradeAfter \in Nat \ {0}
  /\ MaxFaults \in Nat

VARIABLES
  run,        \* PipelineRun.status, "absent", or "refused" (no run was made)
  candidate,  \* SourceCandidate.status
  step,       \* status of the run's effect step
  attempts,   \* the run's FetchAttempt statuses, by attempt_count
  parses,     \* parse commands scheduled by the run
  snapshot,   \* whether the endpoint has a SourceSnapshot
  endpoint,   \* SourceEndpoint.status
  failures,   \* SourceEndpoint.consecutive_failures
  queue,      \* copies of each message in the broker
  phase,      \* where a worker is in the task body
  message,    \* the message a worker is handling
  working,    \* the attempt number a worker holds in memory
  published,  \* runs whose command was published at least once
  stranded,   \* runs one of whose tasks ended in an unhandled failure
  faults

endpointVars == <<endpoint, failures, snapshot>>
rowVars == <<run, candidate, step, attempts, parses, endpointVars>>
workerVars == <<phase, message, working>>
vars == <<rowVars, queue, workerVars, published, stranded, faults>>

RunStatus == {"absent", "refused", "queued", "running", "complete", "failed"}
CandidateState == {"absent", "fetch_queued", "registered", "rejected", "unsafe"}
StepState == {"absent", "running", "complete", "failed"}
Success == {"fetched", "unchanged"}
AttemptState == {"started", "failed", "blocked"} \cup Success
Phase == {"idle", "received", "fetching", "retrying"}

TypeOK ==
  /\ run \in [Runs -> RunStatus]
  /\ candidate \in [Runs -> CandidateState]
  /\ step \in [Runs -> StepState]
  /\ attempts \in [Runs -> Seq(AttemptState)]
  /\ parses \in [Runs -> Nat]
  /\ endpoint \in {"active", "degraded", "blocked"}
  /\ failures \in Nat
  /\ snapshot \in BOOLEAN
  /\ queue \in [Message -> Nat]
  /\ phase \in [Workers -> Phase]
  /\ message \in [Workers -> Message \cup {NoMessage}]
  /\ working \in [Workers -> Nat]
  /\ published \in SUBSET Runs
  /\ stranded \in SUBSET Runs
  /\ faults \in Nat

(* The endpoint may have a snapshot from runs before these.                *)
Init ==
  /\ run = [r \in Runs |-> "absent"]
  /\ candidate = [r \in Runs |-> "absent"]
  /\ step = [r \in Runs |-> "absent"]
  /\ attempts = [r \in Runs |-> << >>]
  /\ parses = [r \in Runs |-> 0]
  /\ endpoint = "active"
  /\ failures = 0
  /\ snapshot \in BOOLEAN
  /\ queue = [m \in Message |-> 0]
  /\ phase = [w \in Workers |-> "idle"]
  /\ message = [w \in Workers |-> NoMessage]
  /\ working = [w \in Workers |-> 0]
  /\ published = {}
  /\ stranded = {}
  /\ faults = 0

Fault ==
  /\ faults < MaxFaults
  /\ faults' = faults + 1

-----------------------------------------------------------------------------
(* Submission, publication, and the operator.                              *)

(* Candidate, run and outbox command commit together.                      *)
Queued(r) ==
  /\ run[r] = "absent"
  /\ run' = [run EXCEPT ![r] = "queued"]
  /\ candidate' = [candidate EXCEPT ![r] = "fetch_queued"]
  /\ UNCHANGED <<step, attempts, parses, endpointVars, queue, workerVars,
                 published, stranded, faults>>

Submit(r) == endpoint # "blocked" /\ Queued(r)

(* queue_registered_endpoint looks at no status itself: its one caller     *)
(* selects, under lock, the watches of active endpoints.                   *)
PollRegistered(r) == endpoint = "active" /\ Queued(r)

RefuseSubmission(r) ==
  /\ run[r] = "absent"
  /\ endpoint = "blocked"
  /\ run' = [run EXCEPT ![r] = "refused"]
  /\ candidate' = [candidate EXCEPT ![r] = "rejected"]
  /\ UNCHANGED <<step, attempts, parses, endpointVars, queue, workerVars,
                 published, stranded, faults>>

Fresh(r) == [run |-> r, retries |-> 0, delivery |-> "first"]

Send(m) == queue' = [queue EXCEPT ![m] = @ + 1]

(* The outbox publishes every committed command, some of them twice.       *)
Publish(r) ==
  /\ run[r] \notin {"absent", "refused"}
  /\ IF r \in published THEN Fault ELSE UNCHANGED faults
  /\ published' = published \cup {r}
  /\ Send(Fresh(r))
  /\ UNCHANGED <<rowVars, workerVars, stranded>>

(* SourceEndpoint.status is editable in the admin.                         *)
OperatorBlocks ==
  /\ endpoint # "blocked"
  /\ Fault
  /\ endpoint' = "blocked"
  /\ UNCHANGED <<run, candidate, step, attempts, parses, failures, snapshot,
                 queue, workerVars, published, stranded>>

(* The parse of a snapshot (PostingLifecycle.tla) ends by setting the      *)
(* endpoint's status as well, whatever it was.                             *)
ParseReports(result) ==
  /\ \E r \in Runs : parses[r] > 0
  /\ endpoint' = IF result = "succeeded" THEN "active" ELSE "degraded"
  /\ UNCHANGED <<run, candidate, step, attempts, parses, failures, snapshot,
                 queue, workerVars, published, stranded, faults>>

-----------------------------------------------------------------------------
(* The rows of a run.                                                      *)

Last(s) == s[Len(s)]

(* Mutant of Live: a result is recorded whatever became of the attempt.    *)
LiveRegardless(w) == working[w] \in DOMAIN attempts[message[w].run]

(* The attempt's row still reads STARTED: the guard of both recordings.    *)
Live(w) ==
  /\ working[w] \in DOMAIN attempts[message[w].run]
  /\ attempts[message[w].run][working[w]] = "started"

Settle(w, result) ==
  attempts' = [attempts EXCEPT ![message[w].run][working[w]] = result]

(* _complete_fetch.  A body is stored as a snapshot; a parse is scheduled  *)
(* if there is a snapshot, of this body or, without one, of an earlier.    *)
RecordSuccess(w, answer) ==
  LET r == message[w].run
      parsable == snapshot \/ answer = "fetched" IN
  IF Live(w)
  THEN /\ Settle(w, answer)
       /\ run' = [run EXCEPT ![r] = "complete"]
       /\ candidate' = [candidate EXCEPT ![r] = "registered"]
       /\ step' = [step EXCEPT ![r] = "complete"]
       /\ parses' = [parses EXCEPT ![r] = IF parsable THEN @ + 1 ELSE @]
       /\ snapshot' = parsable
       /\ endpoint' = "active"
       /\ failures' = 0
  ELSE UNCHANGED rowVars

(* The endpoint's side of _record_failure.                                 *)
CountFailure ==
  /\ failures' = failures + 1
  /\ endpoint' = IF failures + 1 >= DegradeAfter THEN "degraded" ELSE endpoint

RecordFailure(w, result, newRun, newCandidate) ==
  LET r == message[w].run IN
  IF Live(w)
  THEN /\ Settle(w, result)
       /\ run' = [run EXCEPT ![r] = newRun]
       /\ candidate' = [candidate EXCEPT ![r] = newCandidate]
       /\ step' = [step EXCEPT ![r] = "failed"]
       /\ CountFailure
       /\ UNCHANGED <<parses, snapshot>>
  ELSE UNCHANGED rowVars

(* Mutant of RecordExhaustion: the used-up retries are not recorded.       *)
RecordExhaustionNowhere(w) == UNCHANGED rowVars

(* mark_fetch_exhausted looks at the run only, not at its attempts.        *)
RecordExhaustion(w) ==
  LET r == message[w].run IN
  IF run[r] = "complete"
  THEN UNCHANGED rowVars
  ELSE /\ run' = [run EXCEPT ![r] = "failed"]
       /\ candidate' = [candidate EXCEPT ![r] = "rejected"]
       /\ endpoint' = "degraded"
       /\ UNCHANGED <<step, attempts, parses, failures, snapshot>>

-----------------------------------------------------------------------------
(* The task.                                                               *)

(* Mutant of Receive: a message is taken that the broker does not hold.    *)
ReceiveWithoutCopy(w, m) ==
  /\ phase[w] = "idle"
  /\ m.run \in published
  /\ queue' = [queue EXCEPT ![m] = @ - 1]
  /\ phase' = [phase EXCEPT ![w] = "received"]
  /\ message' = [message EXCEPT ![w] = m]
  /\ UNCHANGED <<rowVars, working, published, stranded, faults>>

Receive(w, m) ==
  /\ phase[w] = "idle"
  /\ queue[m] > 0
  /\ queue' = [queue EXCEPT ![m] = @ - 1]
  /\ phase' = [phase EXCEPT ![w] = "received"]
  /\ message' = [message EXCEPT ![w] = m]
  /\ UNCHANGED <<rowVars, working, published, stranded, faults>>

Finish(w) ==
  /\ phase' = [phase EXCEPT ![w] = "idle"]
  /\ message' = [message EXCEPT ![w] = NoMessage]
  /\ working' = [working EXCEPT ![w] = 0]

(* Mutant of RecoverStarted: a redelivery after a lost worker is treated   *)
(* like any duplicate.                                                     *)
RecoverStartedOnRetry(m) == m.retries > 0

RecoverStarted(m) == m.retries > 0 \/ m.delivery = "again"

(* Mutant of NothingToFetch: an attempt that succeeded is not looked for.  *)
NothingToFetchWhileStarted(r, m) ==
  /\ attempts[r] # << >>
  /\ Last(attempts[r]) = "started"
  /\ ~RecoverStarted(m)

(* _begin_fetch returns without work: the run has its result, or another   *)
(* attempt is under way and this delivery may not take it over.            *)
NothingToFetch(r, m) ==
  /\ attempts[r] # << >>
  /\ \/ Last(attempts[r]) \in Success
     \/ Last(attempts[r]) = "started" /\ ~RecoverStarted(m)

(* Mutant of Begun: the interrupted attempt is left STARTED.               *)
BegunBesideTheOld(s) == Append(s, "started")

(* The attempts after _begin_fetch: an attempt left STARTED is written off *)
(* as interrupted, and a new one is started.                               *)
Begun(s) ==
  IF s # << >> /\ Last(s) = "started"
  THEN Append([s EXCEPT ![Len(s)] = "failed"], "started")
  ELSE Append(s, "started")

(* Mutant of BeginFetch: a take-over goes on with the attempt it finds.    *)
BeginFetchReusing(w) ==
  LET r == message[w].run
      takesOver == attempts[r] # << >> /\ Last(attempts[r]) = "started" IN
  /\ phase[w] = "received"
  /\ ~NothingToFetch(r, message[w])
  /\ attempts' = IF takesOver THEN attempts
                 ELSE [attempts EXCEPT ![r] = Append(@, "started")]
  /\ step' = [step EXCEPT ![r] = "running"]
  /\ run' = [run EXCEPT ![r] = "running"]
  /\ phase' = [phase EXCEPT ![w] = "fetching"]
  /\ working' = [working EXCEPT ![w] = Len(attempts'[r])]
  /\ UNCHANGED <<candidate, parses, endpointVars, queue, message, published,
                 stranded, faults>>

BeginFetch(w) ==
  LET r == message[w].run IN
  /\ phase[w] = "received"
  /\ ~NothingToFetch(r, message[w])
  /\ attempts' = [attempts EXCEPT ![r] = Begun(@)]
  /\ step' = [step EXCEPT ![r] = "running"]
  /\ run' = [run EXCEPT ![r] = "running"]
  /\ phase' = [phase EXCEPT ![w] = "fetching"]
  /\ working' = [working EXCEPT ![w] = Len(attempts[r]) + 1]
  /\ UNCHANGED <<candidate, parses, endpointVars, queue, message, published,
                 stranded, faults>>

SkipFetch(w) ==
  /\ phase[w] = "received"
  /\ NothingToFetch(message[w].run, message[w])
  /\ Finish(w)
  /\ UNCHANGED <<rowVars, queue, published, stranded, faults>>

FetchSucceeds(w, answer) ==
  /\ phase[w] = "fetching"
  /\ RecordSuccess(w, answer)
  /\ Finish(w)
  /\ UNCHANGED <<queue, published, stranded, faults>>

(* A failure that cannot be retried: the target is blocked by policy, or   *)
(* the response is unusable.                                               *)
FetchRefused(w, result) ==
  /\ phase[w] = "fetching"
  /\ \/ result = "blocked" /\ RecordFailure(w, result, "failed", "unsafe")
     \/ result = "failed" /\ RecordFailure(w, result, "failed", "rejected")
  /\ Finish(w)
  /\ UNCHANGED <<queue, published, stranded, faults>>

(* RetryableFetchError is raised whether or not the failure was recorded.  *)
FetchFails(w) ==
  /\ phase[w] = "fetching"
  /\ RecordFailure(w, "failed", "queued", "fetch_queued")
  /\ phase' = [phase EXCEPT ![w] = "retrying"]
  /\ UNCHANGED <<queue, message, working, published, stranded, faults>>

Again(m) == [m EXCEPT !.retries = @ + 1, !.delivery = "first"]

RetryFetch(w) ==
  /\ phase[w] = "retrying"
  /\ message[w].retries < MaxRetries
  /\ Send(Again(message[w]))
  /\ Finish(w)
  /\ UNCHANGED <<rowVars, published, stranded, faults>>

MarkExhausted(w) ==
  /\ phase[w] = "retrying"
  /\ message[w].retries = MaxRetries
  /\ RecordExhaustion(w)
  /\ Finish(w)
  /\ UNCHANGED <<queue, published, stranded, faults>>

(* OperationalError in a transaction: it rolls back, and autoretry_for     *)
(* sends the task again until its retries are used up.                     *)
DatabaseError(w) ==
  /\ \/ phase[w] \in {"received", "fetching"}
     \/ phase[w] = "retrying" /\ message[w].retries = MaxRetries
  /\ Fault
  /\ IF message[w].retries < MaxRetries
     THEN Send(Again(message[w])) /\ UNCHANGED stranded
     ELSE stranded' = stranded \cup {message[w].run} /\ UNCHANGED queue
  /\ Finish(w)
  /\ UNCHANGED <<rowVars, published>>

(* The task's time limit, or an error no handler expects: Celery gives the *)
(* message up.                                                             *)
TaskAborts(w) ==
  /\ phase[w] # "idle"
  /\ Fault
  /\ stranded' = stranded \cup {message[w].run}
  /\ Finish(w)
  /\ UNCHANGED <<rowVars, queue, published>>

Redelivered(m) == [m EXCEPT !.delivery = "again"]

WorkerLost(w) ==
  /\ phase[w] # "idle"
  /\ Fault
  /\ Send(Redelivered(message[w]))
  /\ Finish(w)
  /\ UNCHANGED <<rowVars, published, stranded>>

(* The visibility timeout passes, or the connection is lost, before the    *)
(* worker acknowledges.                                                    *)
Redeliver(w) ==
  /\ phase[w] # "idle"
  /\ Fault
  /\ Send(Redelivered(message[w]))
  /\ UNCHANGED <<rowVars, workerVars, published, stranded>>

-----------------------------------------------------------------------------
Progress(w) ==
  \/ BeginFetch(w)
  \/ SkipFetch(w)
  \/ \E answer \in Success : FetchSucceeds(w, answer)
  \/ \E result \in {"failed", "blocked"} : FetchRefused(w, result)
  \/ FetchFails(w)
  \/ RetryFetch(w)
  \/ MarkExhausted(w)

Disturbance(w) ==
  DatabaseError(w) \/ TaskAborts(w) \/ WorkerLost(w) \/ Redeliver(w)

Next ==
  \/ \E r \in Runs :
       Submit(r) \/ PollRegistered(r) \/ RefuseSubmission(r) \/ Publish(r)
  \/ OperatorBlocks
  \/ \E result \in {"succeeded", "failed"} : ParseReports(result)
  \/ \E w \in Workers :
       Progress(w) \/ Disturbance(w) \/ \E m \in Message : Receive(w, m)

Spec == Init /\ [][Next]_vars

(* The outbox publishes what was committed, the broker delivers what it    *)
(* holds, and a task that runs goes on.  Nothing is assumed about how a    *)
(* fetch ends: every one of them may fail.                                 *)
Fairness ==
  /\ \A r \in Runs : WF_vars(r \notin published /\ Publish(r))
  /\ \A m \in Message : WF_vars(\E w \in Workers : Receive(w, m))
  /\ \A w \in Workers : WF_vars(Progress(w))

FairSpec == Spec /\ Fairness

-----------------------------------------------------------------------------
(* Properties.                                                             *)

(* The result of a fetch is taken once: a run never has two successful     *)
(* attempts however many deliveries fetch it at the same time, schedules   *)
(* at most one parse, and the one of a body that was fetched for certain;  *)
(* run, candidate and effect step agree about the success.                 *)
Successes(r) == {i \in DOMAIN attempts[r] : attempts[r][i] \in Success}

OneResultPerRun ==
  \A r \in Runs :
    /\ Cardinality(Successes(r)) <= 1
    /\ parses[r] <= Cardinality(Successes(r))
    /\ \A i \in Successes(r) : attempts[r][i] = "fetched" => parses[r] = 1
    /\ run[r] = "complete" <=> Successes(r) # {}
    /\ candidate[r] = "registered" <=> Successes(r) # {}
    /\ step[r] = "complete" <=> Successes(r) # {}

(* At most one attempt of a run is STARTED, and it is the newest: whoever  *)
(* takes a run over first closes the attempt it takes over.                *)
OnlyNewestIsLive ==
  \A r \in Runs : \A i \in DOMAIN attempts[r] :
    attempts[r][i] = "started" => i = Len(attempts[r])

(* Two workers never fetch for the same attempt.                           *)
AttemptsAreExclusive ==
  \A v, w \in Workers :
    phase[v] = "fetching" /\ phase[w] = "fetching" /\ v # w =>
      message[v].run # message[w].run \/ working[v] # working[w]

Carries(m, r) == m # NoMessage /\ m.run = r

(* A message that can still move the run along.                            *)
Underway(r) ==
  \/ \E m \in Message : queue[m] > 0 /\ Carries(m, r)
  \/ \E w \in Workers : Carries(message[w], r)

(* A run that waits or runs is not forgotten: a delivery of its command is *)
(* in the broker or with a worker, unless a task ended in a way the code   *)
(* does not handle.                                                        *)
UnfinishedIsUnderway ==
  \A r \in Runs :
    run[r] \in {"queued", "running"} /\ r \in published /\ r \notin stranded =>
      Underway(r)

(* An attempt that was settled keeps its result, and a run that completed  *)
(* stays complete: a late failure, an interrupted worker that comes back,  *)
(* or the exhaustion of another retry chain never overwrites them.         *)
ResultsAreFinal ==
  [][\A r \in Runs :
       /\ run[r] = "complete" => run'[r] = "complete" /\ parses'[r] = parses[r]
       /\ \A i \in DOMAIN attempts[r] :
            attempts[r][i] # "started" => attempts'[r][i] = attempts[r][i]]_vars

(* Once the failures of the environment are over, every run that was       *)
(* submitted ends and stays completed or failed, even if every single      *)
(* fetch fails; only runs whose task Celery gave up are exempt.            *)
EveryRunSettles ==
  \A r \in Runs :
    <>[](run[r] \in {"queued", "running"} => r \in stranded)

(* The policy of submit_public_source: an endpoint an operator blocked     *)
(* stays out of use until an operator says otherwise.                      *)
BlockedStaysBlocked == [][endpoint = "blocked" => endpoint' = "blocked"]_vars

(* A run that was given up as FAILED is not fetched again because its      *)
(* command was delivered twice: a duplicate has no second domain effect.   *)
FailedRunsIgnoreDuplicates ==
  [][\A r \in Runs : run[r] = "failed" => attempts'[r] = attempts[r]]_vars
=============================================================================
