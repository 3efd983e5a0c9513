------------------------------ MODULE Discovery ------------------------------
(***************************************************************************)
(* Discovery runs (apps/discovery): versions of a search definition, the   *)
(* runs scheduled for them, the lease a delivery takes on a run, the poll  *)
(* of the watched endpoints, the web search, the registration of the       *)
(* candidates it finds, and the end of the run.  The search is a call of   *)
(* ProviderCalls.tla, of which this module sees the outcomes: it returns,  *)
(* it raises a ProviderError, or the task ends while it is under way.      *)
(*                                                                         *)
(* Every step of an execution commits on its own.  Time passes in ticks: a *)
(* lease, a retry's countdown and the task's time limit count down in      *)
(* them.  All runs share one logical window; a watch is due when its       *)
(* next_poll_at is not after the window's end.                             *)
(***************************************************************************)
EXTENDS Naturals, FiniteSets

CONSTANTS
  Runs,           \* runs, as records [version, reason]
  Deliveries,     \* deliveries of discovery.execute, numbered
  Urls,           \* canonical URLs of sources
  ExcludedUrls,   \* those whose host the definition excludes
  UnsafeUrls,     \* those the URL policy refuses
  NoRun,
  Lease,          \* DISCOVERY_LEASE_DURATION, in ticks
  TimeLimit,      \* the task's time limit, in ticks
  Countdown,      \* countdown of a busy delivery's retry, in ticks
  MaxRetries,     \* max_retries of a busy delivery
  MaxVersion,     \* bound of the model: versions of the definition
  MaxRuns,        \* bound of the model: runs created
  MaxCrashes      \* bound of the model: workers lost

ASSUME DiscoveryAssumption ==
  /\ Runs \subseteq [version : 1..MaxVersion, reason : {"scheduled", "manual"}]
  /\ NoRun \notin Runs
  /\ Deliveries \subseteq Nat
  /\ TimeLimit \in Nat /\ Lease \in Nat /\ TimeLimit < Lease
  /\ Countdown \in Nat \ {0} /\ MaxRetries \in Nat
  /\ MaxRetries * Countdown >= Lease

VARIABLES
  version,     \* the newest version of the definition, the active one
  run,         \* DiscoveryRun.status
  lease,       \* ticks until lease_expires_at
  pipeline,    \* PipelineRun.status of the run
  step,        \* status of the run's effect step
  query,       \* status of the run's DiscoveryQuery
  polled,      \* endpoints queued as known endpoints, per run
  submitted,   \* URLs submitted as new sources, per run
  provenance,  \* URLs with a DiscoveryCandidate, per run
  endpoint,    \* SourceEndpoint.status
  watch,       \* EndpointWatch: absent, due or later
  searchEnabled, \* the runtime settings allow the web search
  serves,      \* the run a delivery carries
  phase,       \* where the task that handles it is
  retries,     \* its retry count
  wait,        \* ticks until its retry is due
  age,         \* ticks its task has run
  found,       \* the candidates in the task's memory
  crashes

rowVars == <<version, run, lease, pipeline, step, query>>
sourceVars == <<polled, submitted, provenance, endpoint, watch, searchEnabled>>
taskVars == <<serves, phase, retries, wait, age, found>>
discoveryVars == <<rowVars, sourceVars, taskVars, crashes>>

Terminal == {"complete", "partial", "failed", "canceled"}
Executing == {"begun", "polled", "searching", "registering", "incomplete",
              "searched", "failing"}

DiscoveryTypeOK ==
  /\ version \in 1..MaxVersion
  /\ run \in [Runs -> {"absent", "queued", "running"} \cup Terminal]
  /\ lease \in [Runs -> 0..Lease]
  /\ pipeline \in [Runs -> {"absent", "queued", "running", "complete", "failed"}]
  /\ step \in [Runs -> {"absent", "running", "complete", "failed"}]
  /\ query \in [Runs -> {"absent", "queued", "complete", "failed"}]
  /\ {polled, submitted, provenance} \subseteq [Runs -> SUBSET Urls]
  /\ endpoint \in [Urls -> {"unknown", "active", "degraded"}]
  /\ watch \in [Urls -> {"absent", "due", "later"}]
  /\ searchEnabled \in BOOLEAN
  /\ serves \in [Deliveries -> Runs \cup {NoRun}]
  /\ phase \in [Deliveries -> {"unsent", "waiting", "gone"} \cup Executing]
  /\ retries \in [Deliveries -> 0..MaxRetries]
  /\ wait \in [Deliveries -> 0..Countdown]
  /\ age \in [Deliveries -> 0..TimeLimit]
  /\ found \in [Deliveries -> SUBSET Urls]
  /\ crashes \in 0..MaxCrashes

DiscoveryInit ==
  /\ version = 1
  /\ run = [r \in Runs |-> "absent"]
  /\ lease = [r \in Runs |-> 0]
  /\ pipeline = [r \in Runs |-> "absent"]
  /\ step = [r \in Runs |-> "absent"]
  /\ query = [r \in Runs |-> "absent"]
  /\ polled = [r \in Runs |-> {}]
  /\ submitted = [r \in Runs |-> {}]
  /\ provenance = [r \in Runs |-> {}]
  /\ \E known \in SUBSET (Urls \ UnsafeUrls) :
       /\ endpoint = [u \in Urls |-> IF u \in known THEN "active" ELSE "unknown"]
       /\ \E w \in {"due", "later"} :
            watch = [u \in Urls |-> IF u \in known THEN w ELSE "absent"]
  /\ searchEnabled \in BOOLEAN
  /\ serves = [d \in Deliveries |-> NoRun]
  /\ phase = [d \in Deliveries |-> "unsent"]
  /\ retries = [d \in Deliveries |-> 0]
  /\ wait = [d \in Deliveries |-> 0]
  /\ age = [d \in Deliveries |-> 0]
  /\ found = [d \in Deliveries |-> {}]
  /\ crashes = 0

To(d, p) == phase' = [phase EXCEPT ![d] = p]

(* The delivery is acknowledged and its task is over.                      *)
Ends(d) ==
  /\ To(d, "gone")
  /\ age' = [age EXCEPT ![d] = 0]
  /\ found' = [found EXCEPT ![d] = {}]

-----------------------------------------------------------------------------
(* Definitions and runs.                                                   *)

(* A changed definition becomes the next version, and the only active one. *)
CreateDefinitionVersion ==
  /\ version < MaxVersion
  /\ version' = version + 1
  /\ UNCHANGED <<run, lease, pipeline, step, query, sourceVars, taskVars,
                 crashes>>

(* Beat, or a person: one run per version, window and reason.  Asked again *)
(* the existing run is returned.                                           *)
CreateRun(r) ==
  /\ run[r] = "absent"
  /\ r.version = version
  /\ Cardinality({q \in Runs : run[q] # "absent"}) < MaxRuns
  /\ run' = [run EXCEPT ![r] = "queued"]
  /\ pipeline' = [pipeline EXCEPT ![r] = "queued"]
  /\ UNCHANGED <<version, lease, step, query, sourceVars, taskVars, crashes>>

(* The outbox publishes the run's command, at least once; deliveries are   *)
(* numbered as they come.                                                  *)
Deliver(d, r) ==
  /\ run[r] # "absent"
  /\ phase[d] = "unsent"
  /\ \A e \in Deliveries : e < d => phase[e] # "unsent"
  /\ serves' = [serves EXCEPT ![d] = r]
  /\ To(d, "waiting")
  /\ UNCHANGED <<retries, wait, age, found, rowVars, sourceVars,
                 crashes>>

(* A fetch ends by changing the endpoint's status (SourceFetch.tla).       *)
EndpointChanges(u) ==
  /\ endpoint[u] \in {"active", "degraded"}
  /\ \E r \in Runs : u \in polled[r] \cup submitted[r]
  /\ endpoint' = [endpoint EXCEPT ![u] =
                    IF @ = "active" THEN "degraded" ELSE "active"]
  /\ UNCHANGED <<rowVars, polled, submitted, provenance, watch, searchEnabled,
                 taskVars, crashes>>

-----------------------------------------------------------------------------
(* The lease.                                                              *)

Ready(d) == phase[d] = "waiting" /\ wait[d] = 0

(* Mutant of LeaseHeld: no delivery ever finds the lease taken.            *)
LeaseNeverHeld(r) == FALSE

LeaseHeld(r) == run[r] = "running" /\ lease[r] > 0

(* _begin_execution: a run begun by a worker now lost is taken over.       *)
Begin(d) ==
  LET r == serves[d] IN
  /\ Ready(d)
  /\ run[r] \notin Terminal
  /\ ~LeaseHeld(r)
  /\ run' = [run EXCEPT ![r] = "running"]
  /\ lease' = [lease EXCEPT ![r] = Lease]
  /\ step' = [step EXCEPT ![r] = "running"]
  /\ pipeline' = [pipeline EXCEPT ![r] = "running"]
  /\ To(d, "begun")
  /\ UNCHANGED <<version, query, serves, retries, wait, age, found,
                 sourceVars, crashes>>

SkipSettled(d) ==
  /\ Ready(d)
  /\ run[serves[d]] \in Terminal
  /\ Ends(d)
  /\ UNCHANGED <<rowVars, sourceVars, serves, retries, wait, crashes>>


MayRetry(d) == retries[d] < MaxRetries

(* DiscoveryLeaseBusy: the task is sent again after the countdown, or its  *)
(* retries are used up and the message is acknowledged.                    *)
Busy(d) ==
  /\ Ready(d)
  /\ LeaseHeld(serves[d])
  /\ IF MayRetry(d)
     THEN /\ retries' = [retries EXCEPT ![d] = @ + 1]
          /\ wait' = [wait EXCEPT ![d] = Countdown]
          /\ UNCHANGED <<phase, age, found>>
     ELSE Ends(d) /\ UNCHANGED <<retries, wait>>
  /\ UNCHANGED <<rowVars, sourceVars, serves, crashes>>

-----------------------------------------------------------------------------
(* The execution.                                                          *)

(* Mutant of Due: a scheduled run polls every active watch.                *)
DueAlways(r, u) == watch[u] # "absent" /\ endpoint[u] = "active"

Due(r, u) ==
  /\ endpoint[u] = "active"
  /\ watch[u] = "due" \/ (watch[u] = "later" /\ r.reason = "manual")

(* _queue_known_endpoints: an endpoint already queued for this run is not  *)
(* queued again; its watch moves all the same.                             *)
PollEndpoints(d) ==
  LET r == serves[d]
      due == {u \in Urls \ ExcludedUrls : Due(r, u)}
  IN
  /\ phase[d] = "begun"
  /\ polled' = [polled EXCEPT ![r] = @ \cup due]
  /\ watch' = [u \in Urls |-> IF u \in due THEN "later" ELSE watch[u]]
  /\ To(d, "polled")
  /\ UNCHANGED <<rowVars, submitted, provenance, endpoint, searchEnabled, serves,
                 retries, wait, age, found, crashes>>

(* The web search is disabled in the runtime settings.                     *)
SkipWebSearch(d) ==
  /\ phase[d] = "polled"
  /\ ~searchEnabled
  /\ To(d, "searched")
  /\ UNCHANGED <<rowVars, sourceVars, serves, retries, wait, age, found,
                  crashes>>

(* The query has ordinal 1 whichever execution creates it: a second one    *)
(* violates its unique constraint, which nothing below catches.            *)
CreateQuery(d) ==
  LET r == serves[d] IN
  /\ phase[d] = "polled"
  /\ searchEnabled
  /\ IF query[r] = "absent"
     THEN /\ query' = [query EXCEPT ![r] = "queued"]
          /\ To(d, "searching")
     ELSE To(d, "failing") /\ UNCHANGED query
  /\ UNCHANGED <<version, run, lease, pipeline, step, sourceVars, serves,
                 retries, wait, age, found, crashes>>

(* The candidates, cut to max_candidates, without the excluded hosts.      *)
SearchReturns(d) ==
  /\ phase[d] = "searching"
  /\ \E us \in SUBSET (Urls \ ExcludedUrls) :
       found' = [found EXCEPT ![d] = us]
  /\ To(d, "registering")
  /\ UNCHANGED <<rowVars, sourceVars, serves, retries, wait, age,
                 crashes>>

(* Mutant of SearchFails: the run does not learn that its search failed.   *)
SearchFailsQuietly(d) ==
  /\ phase[d] = "searching"
  /\ query' = [query EXCEPT ![serves[d]] = "failed"]
  /\ To(d, "searched")
  /\ UNCHANGED <<version, run, lease, pipeline, step, sourceVars, serves,
                 retries, wait, age, found, crashes>>

(* A ProviderError, or no active policy; a result whose candidates refer   *)
(* to sources outside its catalogue is a ProviderError too.                *)
SearchFails(d) ==
  /\ phase[d] = "searching"
  /\ query' = [query EXCEPT ![serves[d]] = "failed"]
  /\ To(d, "incomplete")
  /\ UNCHANGED <<version, run, lease, pipeline, step, sourceVars, serves,
                 retries, wait, age, found, crashes>>

(* One candidate: a known endpoint makes it a duplicate, a new URL is      *)
(* submitted and fetched, an unsafe one is only recorded; its provenance   *)
(* and the watch of its endpoint are created if they are missing.          *)
RegisterCandidate(d, u) ==
  LET r == serves[d] IN
  /\ phase[d] = "registering"
  /\ u \in found[d]
  /\ found' = [found EXCEPT ![d] = @ \ {u}]
  /\ IF endpoint[u] = "unknown" /\ u \notin UnsafeUrls
     THEN /\ submitted' = [submitted EXCEPT ![r] = @ \cup {u}]
          /\ endpoint' = [endpoint EXCEPT ![u] = "active"]
     ELSE UNCHANGED <<submitted, endpoint>>
  /\ provenance' = [provenance EXCEPT ![r] = @ \cup {u}]
  /\ watch' = [watch EXCEPT ![u] =
                 IF @ = "absent" /\ endpoint'[u] = "active" THEN "later" ELSE @]
  /\ UNCHANGED <<rowVars, polled, searchEnabled, serves, phase, retries, wait,
                 age, crashes>>

(* The query completes; the output itself may be partial.                  *)
CompleteQuery(d) ==
  /\ phase[d] = "registering"
  /\ found[d] = {}
  /\ query' = [query EXCEPT ![serves[d]] = "complete"]
  /\ \E p \in {"searched", "incomplete"} : To(d, p)
  /\ UNCHANGED <<version, run, lease, pipeline, step, sourceVars, serves,
                 retries, wait, age, found, crashes>>

-----------------------------------------------------------------------------
(* The end of an execution.                                                *)

SettleRun(d, newRun, newPipeline, newStep) ==
  LET r == serves[d] IN
  /\ run' = [run EXCEPT ![r] = newRun]
  /\ lease' = [lease EXCEPT ![r] = 0]
  /\ pipeline' = [pipeline EXCEPT ![r] = newPipeline]
  /\ step' = [step EXCEPT ![r] = newStep]
  /\ Ends(d)
  /\ UNCHANGED <<version, query, sourceVars, serves, retries, wait, crashes>>

(* _complete_execution looks at neither the run's status nor its owner.    *)
CompleteExecution(d) ==
  /\ phase[d] \in {"searched", "incomplete"}
  /\ SettleRun(d, IF phase[d] = "incomplete" THEN "partial" ELSE "complete",
               "complete", "complete")

(* _fail_execution: any exception out of a step, a soft time limit too.    *)
FailExecution(d) ==
  /\ phase[d] \in Executing
  /\ SettleRun(d, "failed", "failed", "failed")

(* The worker is lost: the broker delivers the same message again, with    *)
(* the retry count it carries.                                             *)
WorkerLost(d) ==
  /\ phase[d] \in Executing
  /\ crashes < MaxCrashes
  /\ crashes' = crashes + 1
  /\ To(d, "waiting")
  /\ age' = [age EXCEPT ![d] = 0]
  /\ found' = [found EXCEPT ![d] = {}]
  /\ UNCHANGED <<rowVars, sourceVars, serves, retries, wait>>

(* The time limit ends a task before it outlives its lease.                *)
InTime(d) == phase[d] \in Executing => age[d] < TimeLimit

CapAt(n, limit) == IF n < limit THEN n ELSE limit

Tick ==
  /\ \A d \in Deliveries : InTime(d)
  /\ \/ \E r \in Runs : lease[r] > 0
     \/ \E d \in Deliveries : wait[d] > 0 \/ phase[d] \in Executing
  /\ lease' = [r \in Runs |-> IF lease[r] > 0 THEN lease[r] - 1 ELSE 0]
  /\ wait' = [d \in Deliveries |-> IF wait[d] > 0 THEN wait[d] - 1 ELSE 0]
  /\ age' = [d \in Deliveries |-> IF phase[d] \in Executing
                                  THEN CapAt(age[d] + 1, TimeLimit) ELSE 0]
  /\ UNCHANGED <<version, run, pipeline, step, query, sourceVars, serves,
                 phase, retries, found, crashes>>

-----------------------------------------------------------------------------
Work(d) ==
  \/ Begin(d)
  \/ SkipSettled(d)
  \/ Busy(d)
  \/ PollEndpoints(d)
  \/ SkipWebSearch(d)
  \/ CreateQuery(d)
  \/ SearchReturns(d)
  \/ SearchFails(d)
  \/ \E u \in Urls : RegisterCandidate(d, u)
  \/ CompleteQuery(d)
  \/ CompleteExecution(d)
  \/ FailExecution(d)

DiscoveryNext ==
  \/ CreateDefinitionVersion
  \/ \E r \in Runs : CreateRun(r)
  \/ \E d \in Deliveries, r \in Runs : Deliver(d, r)
  \/ \E u \in Urls : EndpointChanges(u)
  \/ \E d \in Deliveries : Work(d) \/ WorkerLost(d)
  \/ Tick

DiscoverySpec == DiscoveryInit /\ [][DiscoveryNext]_discoveryVars

(* A worker that is alive goes on, and time passes.                        *)
(* Nobody has to create a run or lose a worker.                            *)
DiscoveryFairness ==
  /\ \A d \in Deliveries : WF_discoveryVars(Work(d))
  /\ WF_discoveryVars(Tick)

DiscoveryFairSpec == DiscoverySpec /\ DiscoveryFairness

-----------------------------------------------------------------------------
(* Properties.                                                             *)

(* "Duplicate worker deliveries retry without overlapping effects"         *)
(* (DECISIONS.md): a run never has two executions under way, whatever is   *)
(* delivered twice or delivered again after a crash; the lease excludes    *)
(* the second as long as the time limit ends the first within it.          *)
NoOverlap ==
  \A d, e \in Deliveries :
    d # e /\ {phase[d], phase[e]} \subseteq Executing => serves[d] # serves[e]

(* A settled run tells one story in all its rows: pipeline and step agree  *)
(* with it, no lease is left, and a run counts as complete or partial only *)
(* when its own query did not stay behind (_complete_execution,            *)
(* _fail_execution and the query's rows are written in separate            *)
(* transactions).                                                          *)
SettledRunsAgree ==
  \A r \in Runs : run[r] \in Terminal =>
    /\ lease[r] = 0
    /\ run[r] = "failed" <=> pipeline[r] = "failed"
    /\ run[r] = "failed" <=> step[r] = "failed"
    /\ run[r] = "complete" => query[r] \in {"absent", "complete"}
    /\ run[r] = "partial" => query[r] \in {"complete", "failed"}

(* A scheduled run queues an endpoint for fetching at most once, either as *)
(* a known endpoint or as a new candidate, even when it is taken over and  *)
(* polls again: the watch of a source it has just registered is not due    *)
(* before the run's window ended.                                          *)
ScheduledRunFetchesOnce ==
  \A r \in Runs : r.reason = "scheduled" => polled[r] \cap submitted[r] = {}

(* A lost worker's message keeps the retry count that waiting for an       *)
(* earlier lease has used up: when the lease of the second worker lost is  *)
(* found as well, the last message is acknowledged and nothing carries the *)
(* run on.                                                                 *)
Forsaken(r) ==
  /\ crashes > 1
  /\ \A d \in Deliveries : serves[d] = r => phase[d] = "gone"
  /\ \E d \in Deliveries : serves[d] = r /\ retries[d] = MaxRetries

(* A run that was delivered settles although a worker is lost: the retries *)
(* of a busy delivery outlast one lease, so that it takes the run over.    *)
(* They outlast no second one: only more than one lost worker, and only    *)
(* with the retries spent, leaves a run behind (_begin_execution,          *)
(* execute_discovery_task).                                                *)
EveryRunSettles ==
  \A r \in Runs :
    (\E d \in Deliveries : serves[d] = r) ~> (run[r] \in Terminal \/ Forsaken(r))

=============================================================================
