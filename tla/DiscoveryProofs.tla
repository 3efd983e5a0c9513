--------------------------- MODULE DiscoveryProofs ---------------------------
(***************************************************************************)
(* Proofs about Discovery for any runs, deliveries, URLs, crashes, lease   *)
(* and time limit, the lease being the longer one, and about the paid      *)
(* calls it makes (ProviderCalls) for any calls, policies, limits and      *)
(* budgets.                                                                *)
(***************************************************************************)
EXTENDS Discovery, ProviderCalls, NumberFacts, FiniteSetTheorems, TLAPS

RunStatus == {"absent", "queued", "running"} \cup Terminal
TaskPhase == {"unsent", "waiting", "gone"} \cup Executing

LeaseTypes ==
  /\ run \in [Runs -> RunStatus]
  /\ lease \in [Runs -> Nat]
  /\ serves \in [Deliveries -> Runs \cup {NoRun}]
  /\ phase \in [Deliveries -> TaskPhase]
  /\ age \in [Deliveries -> 0..TimeLimit]
  /\ \A d \in Deliveries : phase[d] # "unsent" => serves[d] \in Runs

(* An execution's lease was taken when it began: what is left of it and    *)
(* the age of the task make up at least the whole.                         *)
LeaseCovers ==
  \A d \in Deliveries : phase[d] \in Executing =>
    /\ run[serves[d]] = "running"
    /\ lease[serves[d]] + age[d] >= Lease

LeaseInv == LeaseTypes /\ LeaseCovers /\ NoOverlap

(* The query's row is where the execution is that created it.              *)
QueryFollows(q, p) ==
  /\ p \in {"searching", "registering"} => q = "queued"
  /\ p = "searched" => q \in {"absent", "complete"}
  /\ p = "incomplete" => q \in {"complete", "failed"}

RowsInv ==
  /\ pipeline \in [Runs -> {"absent", "queued", "running", "complete", "failed"}]
  /\ step \in [Runs -> {"absent", "running", "complete", "failed"}]
  /\ query \in [Runs -> {"absent", "queued", "complete", "failed"}]
  /\ ~searchEnabled => \A r \in Runs : query[r] = "absent"
  /\ \A d \in Deliveries :
       phase[d] \in Executing => QueryFollows(query[serves[d]], phase[d])
  /\ SettledRunsAgree

(* A URL that was submitted is a source whose watch is not due any more.   *)
SubmittedInv ==
  /\ {polled, submitted} \subseteq [Runs -> SUBSET Urls]
  /\ endpoint \in [Urls -> {"unknown", "active", "degraded"}]
  /\ watch \in [Urls -> {"absent", "due", "later"}]
  /\ \A u \in Urls : endpoint[u] = "unknown" =>
       watch[u] = "absent" /\ \A r \in Runs : u \notin polled[r] \cup submitted[r]
  /\ \A r \in Runs : \A u \in submitted[r] : watch[u] # "due"
  /\ ScheduledRunFetchesOnce

-----------------------------------------------------------------------------
(* Frames: what the steps do to the lease, however they change the rest.   *)

(* A task goes on inside its execution.                                    *)
Proceeds(d) ==
  /\ phase[d] \in Executing
  /\ \E p \in Executing : phase' = [phase EXCEPT ![d] = p]
  /\ UNCHANGED <<run, lease, serves, age>>

(* A task leaves: it was not executing, it is lost, or it ends unsettled.  *)
Leaves(d) ==
  /\ phase[d] # "unsent"
  /\ \E p \in {"waiting", "gone"} : phase' = [phase EXCEPT ![d] = p]
  /\ age' = [age EXCEPT ![d] = 0]
  /\ UNCHANGED <<run, lease, serves>>

LEMMA WorkFrame ==
  ASSUME NEW d \in Deliveries, Work(d) \/ WorkerLost(d)
  PROVE  \/ Begin(d)
         \/ Leaves(d)
         \/ Proceeds(d)
         \/ \E end \in Terminal, pipe \in {"complete", "failed"} :
              /\ phase[d] \in Executing
              /\ SettleRun(d, end, pipe, pipe)
         \/ UNCHANGED <<run, lease, serves, phase, age>>
<1>1. CASE SkipSettled(d)
  BY <1>1 DEF SkipSettled, Ends, To, Ready, rowVars, sourceVars, Leaves
<1>2. CASE Busy(d)
  <2>1. CASE MayRetry(d)
    BY <1>2, <2>1 DEF Busy, rowVars
  <2>2. CASE ~MayRetry(d)
    BY <1>2, <2>2 DEF Busy, Ends, To, Ready, rowVars, Leaves
  <2>3. QED
    BY <2>1, <2>2
<1>3. CASE PollEndpoints(d)
  BY <1>3 DEF PollEndpoints, To, rowVars, Proceeds, Executing
<1>4. CASE SkipWebSearch(d)
  BY <1>4 DEF SkipWebSearch, To, rowVars, Proceeds, Executing
<1>5. CASE CreateQuery(d)
  <2>1. CASE query[serves[d]] = "absent"
    BY <1>5, <2>1 DEF CreateQuery, To, Proceeds, Executing
  <2>2. CASE query[serves[d]] # "absent"
    BY <1>5, <2>2 DEF CreateQuery, To, Proceeds, Executing
  <2>3. QED
    BY <2>1, <2>2
<1>6. CASE SearchReturns(d)
  BY <1>6 DEF SearchReturns, To, rowVars, Proceeds, Executing
<1>7. CASE SearchFails(d)
  BY <1>7 DEF SearchFails, To, Proceeds, Executing
<1>8. CASE \E u \in Urls : RegisterCandidate(d, u)
  BY <1>8 DEF RegisterCandidate, rowVars
<1>9. CASE CompleteQuery(d)
  BY <1>9 DEF CompleteQuery, To, Proceeds, Executing
<1>10. CASE CompleteExecution(d)
  <2>1. PICK end \in {"partial", "complete"} : SettleRun(d, end, "complete", "complete")
    BY <1>10 DEF CompleteExecution
  <2>2. phase[d] \in Executing /\ end \in Terminal
    BY <1>10 DEF CompleteExecution, Executing, Terminal
  <2>3. QED
    BY <2>1, <2>2
<1>11. CASE FailExecution(d)
  BY <1>11 DEF FailExecution, Terminal
<1>12. CASE WorkerLost(d)
  BY <1>12 DEF WorkerLost, To, rowVars, Leaves, Executing
<1>13. QED
  BY <1>1, <1>2, <1>3, <1>4, <1>5, <1>6, <1>7, <1>8, <1>9, <1>10, <1>11, <1>12
     DEF Work

-----------------------------------------------------------------------------
(* The lease.                                                              *)

(* Inside an execution the lease runs.                                     *)
LEMMA LeaseRuns ==
  ASSUME DiscoveryAssumption, LeaseInv, NEW d \in Deliveries,
         phase[d] \in Executing
  PROVE  /\ serves[d] \in Runs
         /\ LeaseHeld(serves[d])
BY DEF DiscoveryAssumption, LeaseInv, LeaseTypes, LeaseCovers, LeaseHeld, Executing

(* A run is begun when no execution of it is under way.                    *)
LEMMA BeginStep ==
  ASSUME DiscoveryAssumption, LeaseInv, NEW d \in Deliveries, Begin(d)
  PROVE  LeaseInv'
<1> USE DEF LeaseInv, LeaseTypes
<1>1. /\ phase[d] = "waiting"
      /\ serves[d] \in Runs
      /\ ~LeaseHeld(serves[d])
      /\ run' = [run EXCEPT ![serves[d]] = "running"]
      /\ lease' = [lease EXCEPT ![serves[d]] = Lease]
      /\ phase' = [phase EXCEPT ![d] = "begun"]
      /\ UNCHANGED <<serves, age>>
  BY DEF Begin, Ready, To
<1>2. \A e \in Deliveries : phase[e] \in Executing => serves[e] # serves[d]
  BY <1>1, LeaseRuns
<1>3. LeaseTypes'
  BY <1>1 DEF DiscoveryAssumption, RunStatus, TaskPhase, Executing
<1>4. LeaseCovers'
  <2> SUFFICES ASSUME NEW e \in Deliveries, phase'[e] \in Executing
               PROVE  run'[serves[e]] = "running" /\ lease'[serves[e]] + age[e] >= Lease
    BY <1>1 DEF LeaseCovers
  <2>1. CASE e = d
    BY <1>1, <2>1 DEF DiscoveryAssumption
  <2>2. CASE e # d
    BY <1>1, <1>2, <2>2 DEF LeaseCovers
  <2>3. QED
    BY <2>1, <2>2
<1>5. NoOverlap'
  BY <1>1, <1>2 DEF NoOverlap
<1>6. QED
  BY <1>3, <1>4, <1>5

(* An execution settles its run; the others are of other runs.             *)
LEMMA SettleStep ==
  ASSUME DiscoveryAssumption, LeaseInv, NEW d \in Deliveries,
         phase[d] \in Executing,
         NEW end \in Terminal, NEW pipe, SettleRun(d, end, pipe, pipe)
  PROVE  LeaseInv'
<1> USE DEF LeaseInv, LeaseTypes
<1>1. /\ serves[d] \in Runs
      /\ run' = [run EXCEPT ![serves[d]] = end]
      /\ lease' = [lease EXCEPT ![serves[d]] = 0]
      /\ phase' = [phase EXCEPT ![d] = "gone"]
      /\ age' = [age EXCEPT ![d] = 0]
      /\ UNCHANGED serves
  BY LeaseRuns DEF SettleRun, Ends, To
<1>2. "gone" \notin Executing
  BY DEF Executing
<1>3. \A e \in Deliveries : phase'[e] \in Executing =>
        e # d /\ phase[e] \in Executing /\ serves[e] # serves[d]
  BY <1>1, <1>2 DEF NoOverlap
<1>4. LeaseTypes'
  BY <1>1, LeaseRuns DEF DiscoveryAssumption, RunStatus, TaskPhase, Executing
<1>5. LeaseCovers'
  BY <1>1, <1>3 DEF LeaseCovers
<1>6. NoOverlap'
  BY <1>1, <1>3 DEF NoOverlap
<1>7. QED
  BY <1>4, <1>5, <1>6

(* Time passes for the lease and for the execution alike.                  *)
LEMMA TickStep ==
  ASSUME DiscoveryAssumption, LeaseInv, Tick
  PROVE  LeaseInv'
<1> USE DEF LeaseInv, LeaseTypes
<1>1. /\ lease' = [r \in Runs |-> IF lease[r] > 0 THEN lease[r] - 1 ELSE 0]
      /\ age' = [d \in Deliveries |-> IF phase[d] \in Executing
                                      THEN CapAt(age[d] + 1, TimeLimit) ELSE 0]
      /\ \A d \in Deliveries : phase[d] \in Executing => age[d] < TimeLimit
      /\ UNCHANGED <<run, serves, phase>>
  BY DEF Tick, InTime
<1>2. LeaseTypes'
  <2>1. \A r \in Runs : lease'[r] \in Nat
    BY <1>1
  <2>2. \A d \in Deliveries : age'[d] \in 0..TimeLimit
    BY <1>1 DEF CapAt, DiscoveryAssumption
  <2>3. QED
    BY <1>1, <2>1, <2>2
<1>3. ASSUME NEW d \in Deliveries, phase[d] \in Executing
      PROVE  lease'[serves[d]] + age'[d] >= Lease
  <2>1. /\ serves[d] \in Runs
        /\ lease[serves[d]] > 0
        /\ lease[serves[d]] + age[d] >= Lease
    BY <1>3, LeaseRuns DEF LeaseHeld, LeaseCovers
  <2>2. age'[d] = age[d] + 1
    BY <1>1, <1>3 DEF CapAt, DiscoveryAssumption
  <2>3. lease'[serves[d]] = lease[serves[d]] - 1
    BY <1>1, <2>1
  <2>4. QED
    BY <2>1, <2>2, <2>3 DEF DiscoveryAssumption
<1>4. LeaseCovers' /\ NoOverlap'
  BY <1>1, <1>3 DEF LeaseCovers, NoOverlap
<1>5. QED
  BY <1>2, <1>4

LEMMA LeaseStep ==
  ASSUME DiscoveryAssumption, LeaseInv, [DiscoveryNext]_discoveryVars
  PROVE  LeaseInv'
<1> USE DEF LeaseInv, LeaseTypes
<1>1. ASSUME UNCHANGED <<run, lease, serves, phase, age>>
      PROVE  LeaseInv'
  BY <1>1 DEF LeaseCovers, NoOverlap
<1>2. CASE CreateDefinitionVersion
  BY <1>1, <1>2 DEF CreateDefinitionVersion, taskVars
<1>3. ASSUME NEW r \in Runs, CreateRun(r)
      PROVE  LeaseInv'
  <2>1. /\ run[r] = "absent"
        /\ run' = [run EXCEPT ![r] = "queued"]
        /\ UNCHANGED <<lease, serves, phase, age>>
    BY <1>3 DEF CreateRun, taskVars
  <2>2. \A d \in Deliveries : phase[d] \in Executing => serves[d] # r
    BY <2>1 DEF LeaseCovers
  <2>3. QED
    BY <2>1, <2>2 DEF LeaseCovers, NoOverlap, RunStatus
<1>4. ASSUME NEW d \in Deliveries, NEW r \in Runs, Deliver(d, r)
      PROVE  LeaseInv'
  <2>1. /\ phase[d] = "unsent"
        /\ serves' = [serves EXCEPT ![d] = r]
        /\ phase' = [phase EXCEPT ![d] = "waiting"]
        /\ UNCHANGED <<run, lease, age>>
    BY <1>4 DEF Deliver, To, rowVars
  <2>2. \A e \in Deliveries : phase'[e] \in Executing =>
          e # d /\ phase[e] \in Executing /\ serves'[e] = serves[e]
    BY <2>1 DEF Executing
  <2>3. LeaseTypes'
    BY <2>1 DEF TaskPhase
  <2>4. QED
    BY <2>1, <2>2, <2>3 DEF LeaseCovers, NoOverlap
<1>5. ASSUME NEW u \in Urls, EndpointChanges(u)
      PROVE  LeaseInv'
  BY <1>1, <1>5 DEF EndpointChanges, rowVars, taskVars
<1>6. ASSUME NEW d \in Deliveries, Work(d) \/ WorkerLost(d)
      PROVE  LeaseInv'
  <2>1. CASE Begin(d)
    BY <2>1, BeginStep
  <2>2. CASE \E end \in Terminal, pipe \in {"complete", "failed"} :
               phase[d] \in Executing /\ SettleRun(d, end, pipe, pipe)
    BY <2>2, SettleStep
  <2>3. CASE Leaves(d)
    <3>1. /\ phase[d] # "unsent"
          /\ \E p \in {"waiting", "gone"} : phase' = [phase EXCEPT ![d] = p]
          /\ age' = [age EXCEPT ![d] = 0]
          /\ UNCHANGED <<run, lease, serves>>
      BY <2>3 DEF Leaves
    <3>2. \A e \in Deliveries : phase'[e] \in Executing =>
            e # d /\ phase[e] \in Executing
      BY <3>1 DEF Executing
    <3>3. LeaseTypes'
      BY <3>1 DEF TaskPhase, DiscoveryAssumption
    <3>4. QED
      BY <3>1, <3>2, <3>3 DEF LeaseCovers, NoOverlap
  <2>4. CASE Proceeds(d)
    <3>1. /\ phase[d] \in Executing
          /\ \E p \in Executing : phase' = [phase EXCEPT ![d] = p]
          /\ UNCHANGED <<run, lease, serves, age>>
      BY <2>4 DEF Proceeds
    <3>2. \A e \in Deliveries : phase'[e] \in Executing => phase[e] \in Executing
      BY <3>1
    <3>3. LeaseTypes'
      BY <3>1 DEF TaskPhase, Executing
    <3>4. QED
      BY <3>1, <3>2, <3>3 DEF LeaseCovers, NoOverlap
  <2>5. QED
    BY <1>1, <1>6, <2>1, <2>2, <2>3, <2>4, WorkFrame
<1>7. CASE Tick
  BY <1>7, TickStep
<1>8. CASE UNCHANGED discoveryVars
  BY <1>1, <1>8 DEF discoveryVars, rowVars, taskVars
<1>9. QED
  BY <1>2, <1>3, <1>4, <1>5, <1>6, <1>7, <1>8 DEF DiscoveryNext

LEMMA LeaseInit ==
  ASSUME DiscoveryAssumption, DiscoveryInit
  PROVE  LeaseInv
BY DEF DiscoveryInit, DiscoveryAssumption, LeaseInv, LeaseTypes, LeaseCovers,
   NoOverlap, RunStatus, TaskPhase, Executing

(* The lease and the time limit together: no execution outlives its lease. *)
THEOREM LeaseInvariant == DiscoverySpec => []LeaseInv
<1>1. DiscoveryInit => LeaseInv
  BY LeaseInit, DiscoveryAssumption
<1>2. LeaseInv /\ [DiscoveryNext]_discoveryVars => LeaseInv'
  BY LeaseStep, DiscoveryAssumption
<1>3. QED
  BY <1>1, <1>2, PTL DEF DiscoverySpec

(* For any lease that is longer than the time limit, a run never has two   *)
(* executions under way, however often and late its command is delivered   *)
(* (_begin_execution, DISCOVERY_LEASE_DURATION, the task's time limits).   *)
THEOREM OneExecution == DiscoverySpec => []NoOverlap
<1>1. LeaseInv => NoOverlap
  BY DEF LeaseInv
<1>2. QED
  BY <1>1, LeaseInvariant, PTL

-----------------------------------------------------------------------------
(* The rows of a settled run.                                              *)

(* What the rows of one run that has settled say.                          *)
Agrees(r) ==
  run[r] \in Terminal =>
    /\ lease[r] = 0
    /\ run[r] = "failed" <=> pipeline[r] = "failed"
    /\ run[r] = "failed" <=> step[r] = "failed"
    /\ run[r] = "complete" => query[r] \in {"absent", "complete"}
    /\ run[r] = "partial" => query[r] \in {"complete", "failed"}

(* Only these steps change a run's rows.                                   *)
RowsStay ==
  /\ UNCHANGED <<run, lease, pipeline, step, query, searchEnabled>>
  /\ \A d \in Deliveries : phase'[d] \in Executing =>
       /\ phase[d] \in Executing
       /\ serves'[d] = serves[d]
       /\ phase'[d] # phase[d] => phase'[d] \in {"begun", "polled", "registering"}
       /\ phase'[d] = "registering" => phase[d] \in {"searching", "registering"}

LEMMA RowsKept ==
  ASSUME RowsInv, RowsStay
  PROVE  RowsInv'
<1>1. ASSUME NEW d \in Deliveries, phase'[d] \in Executing
      PROVE  QueryFollows(query[serves'[d]], phase'[d])
  <2>1. QueryFollows(query[serves[d]], phase[d]) /\ serves'[d] = serves[d]
    BY <1>1 DEF RowsInv, RowsStay
  <2>2. QED
    BY <1>1, <2>1 DEF RowsStay, QueryFollows
<1>2. QED
  BY <1>1 DEF RowsInv, RowsStay, SettledRunsAgree

(* One delivery's step in an execution changes its query and its phase.    *)
LEMMA QueryStep ==
  ASSUME DiscoveryAssumption, LeaseInv, RowsInv, NEW d \in Deliveries,
         phase[d] \in Executing,
         NEW q \in {"absent", "queued", "complete", "failed"}, NEW p \in Executing,
         query' = [query EXCEPT ![serves[d]] = q],
         phase' = [phase EXCEPT ![d] = p],
         QueryFollows(q, p), searchEnabled \/ q = "absent",
         UNCHANGED <<run, lease, pipeline, step, serves, searchEnabled>>
  PROVE  RowsInv'
<1>1. serves[d] \in Runs /\ run[serves[d]] = "running"
  BY LeaseRuns DEF LeaseInv, LeaseCovers
<1>2. query' \in [Runs -> {"absent", "queued", "complete", "failed"}]
  BY DEF RowsInv
<1>3. ASSUME NEW e \in Deliveries, phase'[e] \in Executing
      PROVE  QueryFollows(query'[serves[e]], phase'[e])
  <2>1. CASE e = d
    BY <1>1, <2>1 DEF RowsInv, LeaseInv, LeaseTypes
  <2>2. CASE e # d
    <3>1. phase'[e] = phase[e] /\ phase[e] \in Executing
      BY <1>3, <2>2 DEF LeaseInv, LeaseTypes
    <3>2. serves[e] # serves[d]
      BY <2>2, <3>1 DEF LeaseInv, NoOverlap
    <3>3. query'[serves[e]] = query[serves[e]]
      BY <3>1, <3>2, LeaseRuns DEF RowsInv
    <3>4. QED
      BY <3>1, <3>3 DEF RowsInv
  <2>3. QED
    BY <2>1, <2>2
<1>4. ~searchEnabled => \A r \in Runs : query'[r] = "absent"
  BY <1>1 DEF RowsInv
<1>5. ASSUME NEW r \in Runs
      PROVE  Agrees(r)'
  <2>1. CASE r = serves[d]
    BY <1>1, <2>1 DEF Agrees, Terminal
  <2>2. CASE r # serves[d]
    BY <2>2 DEF Agrees, RowsInv, SettledRunsAgree
  <2>3. QED
    BY <2>1, <2>2
<1>6. QED
  BY <1>2, <1>3, <1>4, <1>5 DEF RowsInv, SettledRunsAgree, Agrees

(* The run settles as the phase of its execution says.                     *)
LEMMA SettleRows ==
  ASSUME DiscoveryAssumption, LeaseInv, RowsInv, NEW d \in Deliveries,
         phase[d] \in Executing,
         NEW end \in Terminal, NEW pipe \in {"complete", "failed"},
         SettleRun(d, end, pipe, pipe),
         end = "failed" <=> pipe = "failed",
         end = "complete" => query[serves[d]] \in {"absent", "complete"},
         end = "partial" => query[serves[d]] \in {"complete", "failed"}
  PROVE  RowsInv'
<1>1. /\ serves[d] \in Runs
      /\ run' = [run EXCEPT ![serves[d]] = end]
      /\ lease' = [lease EXCEPT ![serves[d]] = 0]
      /\ pipeline' = [pipeline EXCEPT ![serves[d]] = pipe]
      /\ step' = [step EXCEPT ![serves[d]] = pipe]
      /\ phase' = [phase EXCEPT ![d] = "gone"]
      /\ UNCHANGED <<query, serves, searchEnabled>>
  BY LeaseRuns DEF SettleRun, Ends, To, sourceVars
<1>2. \A e \in Deliveries : phase'[e] \in Executing =>
        phase'[e] = phase[e] /\ phase[e] \in Executing
  BY <1>1 DEF Executing, LeaseInv, LeaseTypes
<1>3. \A e \in Deliveries : phase'[e] \in Executing =>
        QueryFollows(query[serves[e]], phase'[e])
  BY <1>2 DEF RowsInv
<1>4. ASSUME NEW r \in Runs
      PROVE  Agrees(r)'
  <2>1. CASE r = serves[d]
    BY <1>1, <2>1 DEF Agrees, RowsInv, LeaseInv, LeaseTypes
  <2>2. CASE r # serves[d]
    BY <1>1, <2>2 DEF Agrees, RowsInv, SettledRunsAgree, LeaseInv, LeaseTypes
  <2>3. QED
    BY <2>1, <2>2
<1>5. /\ pipeline' \in [Runs -> {"absent", "queued", "running", "complete", "failed"}]
      /\ step' \in [Runs -> {"absent", "running", "complete", "failed"}]
  BY <1>1 DEF RowsInv
<1>6. QED
  BY <1>1, <1>3, <1>4, <1>5 DEF RowsInv, SettledRunsAgree, Agrees

(* A run that begins, and one that is created, is not settled.             *)
LEMMA UnsettledRows ==
  ASSUME RowsInv, LeaseInv, NEW r \in Runs, r \notin {q \in Runs : run[q] \in Terminal},
         NEW status \in {"queued", "running"},
         run' = [run EXCEPT ![r] = status],
         pipeline' = [pipeline EXCEPT ![r] = status],
         \A q \in Runs \ {r} : lease'[q] = lease[q] /\ step'[q] = step[q],
         step' \in [Runs -> {"absent", "running", "complete", "failed"}],
         UNCHANGED <<query, serves, searchEnabled>>,
         \A d \in Deliveries : phase'[d] \in Executing =>
           phase'[d] = "begun" \/ (phase'[d] = phase[d] /\ phase[d] \in Executing)
  PROVE  RowsInv'
<1>1. \A d \in Deliveries : phase'[d] \in Executing =>
        QueryFollows(query[serves[d]], phase'[d])
  BY DEF RowsInv, QueryFollows
<1>2. ASSUME NEW q \in Runs
      PROVE  Agrees(q)'
  <2>1. CASE q = r
    BY <2>1 DEF Agrees, Terminal, LeaseInv, LeaseTypes
  <2>2. CASE q # r
    BY <2>2 DEF Agrees, RowsInv, SettledRunsAgree, LeaseInv, LeaseTypes
  <2>3. QED
    BY <2>1, <2>2
<1>3. pipeline' \in [Runs -> {"absent", "queued", "running", "complete", "failed"}]
  BY DEF RowsInv
<1>4. QED
  BY <1>1, <1>2, <1>3 DEF RowsInv, SettledRunsAgree, Agrees

LEMMA RowsStep ==
  ASSUME DiscoveryAssumption, LeaseInv, RowsInv, [DiscoveryNext]_discoveryVars
  PROVE  RowsInv'
<1>1. CASE CreateDefinitionVersion
  <2>1. RowsStay
    BY <1>1 DEF CreateDefinitionVersion, taskVars, sourceVars, RowsStay
  <2>2. QED
    BY <2>1, RowsKept
<1>2. ASSUME NEW r \in Runs, CreateRun(r)
      PROVE  RowsInv'
  <2>1. /\ run[r] = "absent"
        /\ run' = [run EXCEPT ![r] = "queued"]
        /\ pipeline' = [pipeline EXCEPT ![r] = "queued"]
        /\ UNCHANGED <<lease, step, query, serves, phase, searchEnabled>>
    BY <1>2 DEF CreateRun, taskVars, sourceVars
  <2>2. run[r] \notin Terminal
    BY <2>1 DEF Terminal
  <2>3. QED
    BY <2>1, <2>2, UnsettledRows DEF RowsInv
<1>3. ASSUME NEW d \in Deliveries, NEW r \in Runs, Deliver(d, r)
      PROVE  RowsInv'
  <2>1. /\ phase[d] = "unsent"
        /\ serves' = [serves EXCEPT ![d] = r]
        /\ phase' = [phase EXCEPT ![d] = "waiting"]
        /\ UNCHANGED <<run, lease, pipeline, step, query, searchEnabled>>
    BY <1>3 DEF Deliver, To, rowVars, sourceVars
  <2>2. RowsStay
    BY <2>1 DEF RowsStay, Executing, LeaseInv, LeaseTypes
  <2>3. QED
    BY <2>2, RowsKept
<1>4. ASSUME NEW u \in Urls, EndpointChanges(u)
      PROVE  RowsInv'
  <2>1. RowsStay
    BY <1>4 DEF EndpointChanges, rowVars, taskVars, RowsStay
  <2>2. QED
    BY <2>1, RowsKept
<1>5. ASSUME NEW d \in Deliveries, Begin(d)
      PROVE  RowsInv'
  <2>1. /\ serves[d] \in Runs
        /\ run[serves[d]] \notin Terminal
        /\ run' = [run EXCEPT ![serves[d]] = "running"]
        /\ lease' = [lease EXCEPT ![serves[d]] = Lease]
        /\ step' = [step EXCEPT ![serves[d]] = "running"]
        /\ pipeline' = [pipeline EXCEPT ![serves[d]] = "running"]
        /\ phase' = [phase EXCEPT ![d] = "begun"]
        /\ UNCHANGED <<query, serves, searchEnabled>>
    BY <1>5 DEF Begin, Ready, To, sourceVars, LeaseInv, LeaseTypes
  <2>2. \A e \in Deliveries : phase'[e] \in Executing =>
          phase'[e] = "begun" \/ (phase'[e] = phase[e] /\ phase[e] \in Executing)
    BY <2>1 DEF LeaseInv, LeaseTypes
  <2>3. step' \in [Runs -> {"absent", "running", "complete", "failed"}]
    BY <2>1 DEF RowsInv
  <2>4. \A q \in Runs \ {serves[d]} : lease'[q] = lease[q] /\ step'[q] = step[q]
    BY <2>1 DEF LeaseInv, LeaseTypes, RowsInv
  <2>5. QED
    BY <2>1, <2>2, <2>3, <2>4, UnsettledRows
<1>6. ASSUME NEW d \in Deliveries, SkipSettled(d) \/ Busy(d) \/ WorkerLost(d)
      PROVE  RowsInv'
  <2>1. /\ UNCHANGED <<run, lease, pipeline, step, query, serves, searchEnabled>>
        /\ \E p \in {"waiting", "gone"} :
             phase' = [phase EXCEPT ![d] = p] \/ UNCHANGED phase
    <3>1. CASE SkipSettled(d)
      BY <3>1 DEF SkipSettled, Ends, To, rowVars, sourceVars
    <3>2. CASE Busy(d)
      BY <3>2 DEF Busy, Ends, To, rowVars, sourceVars
    <3>3. CASE WorkerLost(d)
      BY <3>3 DEF WorkerLost, To, rowVars, sourceVars
    <3>4. QED
      BY <1>6, <3>1, <3>2, <3>3
  <2>2. RowsStay
    BY <2>1 DEF RowsStay, Executing, LeaseInv, LeaseTypes
  <2>3. QED
    BY <2>2, RowsKept
<1>7. ASSUME NEW d \in Deliveries, PollEndpoints(d) \/ SearchReturns(d)
      PROVE  RowsInv'
  <2>1. /\ UNCHANGED <<run, lease, pipeline, step, query, serves, searchEnabled>>
        /\ \/ phase[d] = "begun" /\ phase' = [phase EXCEPT ![d] = "polled"]
           \/ phase[d] = "searching" /\ phase' = [phase EXCEPT ![d] = "registering"]
    BY <1>7 DEF PollEndpoints, SearchReturns, To, rowVars, sourceVars
  <2>2. RowsStay
    BY <2>1 DEF RowsStay, Executing, LeaseInv, LeaseTypes
  <2>3. QED
    BY <2>2, RowsKept
<1>8. ASSUME NEW d \in Deliveries, NEW u \in Urls, RegisterCandidate(d, u)
      PROVE  RowsInv'
  <2>1. RowsStay
    BY <1>8 DEF RegisterCandidate, rowVars, RowsStay
  <2>2. QED
    BY <2>1, RowsKept
<1>9. ASSUME NEW d \in Deliveries, SkipWebSearch(d)
      PROVE  RowsInv'
  <2>1. /\ phase[d] = "polled" /\ ~searchEnabled
        /\ phase' = [phase EXCEPT ![d] = "searched"]
        /\ UNCHANGED <<run, lease, pipeline, step, query, serves, searchEnabled>>
    BY <1>9 DEF SkipWebSearch, To, rowVars, sourceVars
  <2>2. phase[d] \in Executing /\ "searched" \in Executing
    BY <2>1 DEF Executing
  <2>3. serves[d] \in Runs
    BY <2>2, LeaseRuns
  <2>4. query[serves[d]] = "absent" /\ query' = [query EXCEPT ![serves[d]] = "absent"]
    BY <2>1, <2>3 DEF RowsInv
  <2>5. QED
    BY <2>1, <2>2, <2>4, QueryStep DEF QueryFollows
<1>10. ASSUME NEW d \in Deliveries, CreateQuery(d)
       PROVE  RowsInv'
  <2>1. /\ phase[d] = "polled" /\ searchEnabled
        /\ UNCHANGED <<run, lease, pipeline, step, serves, searchEnabled>>
    BY <1>10 DEF CreateQuery, sourceVars
  <2>2. /\ phase[d] \in Executing
        /\ {"searching", "failing"} \subseteq Executing
    BY <2>1 DEF Executing
  <2>3. serves[d] \in Runs
    BY <2>2, LeaseRuns
  <2>4. CASE query[serves[d]] = "absent"
    <3>1. /\ query' = [query EXCEPT ![serves[d]] = "queued"]
          /\ phase' = [phase EXCEPT ![d] = "searching"]
      BY <1>10, <2>4 DEF CreateQuery, To
    <3>2. QED
      BY <2>1, <2>2, <3>1, QueryStep DEF QueryFollows
  <2>5. CASE query[serves[d]] # "absent"
    <3>1. /\ query' = [query EXCEPT ![serves[d]] = query[serves[d]]]
          /\ phase' = [phase EXCEPT ![d] = "failing"]
      BY <1>10, <2>5 DEF CreateQuery, To, RowsInv
    <3>2. query[serves[d]] \in {"absent", "queued", "complete", "failed"}
      BY <2>3 DEF RowsInv
    <3>3. QED
      BY <2>1, <2>2, <3>1, <3>2, QueryStep DEF QueryFollows
  <2>6. QED
    BY <2>4, <2>5
<1>11. ASSUME NEW d \in Deliveries, SearchFails(d) \/ CompleteQuery(d)
       PROVE  RowsInv'
  <2>1. /\ phase[d] \in {"searching", "registering"}
        /\ UNCHANGED <<run, lease, pipeline, step, serves, searchEnabled>>
        /\ \E q \in {"complete", "failed"}, p \in {"searched", "incomplete"} :
             /\ q = "failed" => p = "incomplete"
             /\ query' = [query EXCEPT ![serves[d]] = q]
             /\ phase' = [phase EXCEPT ![d] = p]
    <3>1. CASE SearchFails(d)
      BY <3>1 DEF SearchFails, To, sourceVars
    <3>2. CASE CompleteQuery(d)
      BY <3>2 DEF CompleteQuery, To, sourceVars
    <3>3. QED
      BY <1>11, <3>1, <3>2
  <2>2. /\ phase[d] \in Executing
        /\ {"searched", "incomplete"} \subseteq Executing
    BY <2>1 DEF Executing
  <2>3. searchEnabled
    <3>1. serves[d] \in Runs
      BY <2>2, LeaseRuns
    <3>2. query[serves[d]] = "queued"
      BY <2>1, <2>2 DEF RowsInv, QueryFollows
    <3>3. QED
      BY <3>1, <3>2 DEF RowsInv
  <2>4. QED
    BY <2>1, <2>2, <2>3, QueryStep DEF QueryFollows
<1>12. ASSUME NEW d \in Deliveries, CompleteExecution(d)
       PROVE  RowsInv'
  <2>1. phase[d] \in Executing
    BY <1>12 DEF CompleteExecution, Executing
  <2>2. QueryFollows(query[serves[d]], phase[d])
    BY <2>1 DEF RowsInv
  <2>3. CASE phase[d] = "incomplete"
    <3>1. SettleRun(d, "partial", "complete", "complete")
      BY <1>12, <2>3 DEF CompleteExecution
    <3>2. QED
      BY <2>1, <2>2, <2>3, <3>1, SettleRows DEF QueryFollows, Terminal
  <2>4. CASE phase[d] = "searched"
    <3>1. SettleRun(d, "complete", "complete", "complete")
      BY <1>12, <2>4 DEF CompleteExecution
    <3>2. QED
      BY <2>1, <2>2, <2>4, <3>1, SettleRows DEF QueryFollows, Terminal
  <2>5. QED
    BY <1>12, <2>3, <2>4 DEF CompleteExecution
<1>13. ASSUME NEW d \in Deliveries, FailExecution(d)
       PROVE  RowsInv'
  BY <1>13, SettleRows DEF FailExecution, Terminal
<1>14. CASE Tick
  <2>1. /\ lease' = [r \in Runs |-> IF lease[r] > 0 THEN lease[r] - 1 ELSE 0]
        /\ UNCHANGED <<run, pipeline, step, query, serves, phase, searchEnabled>>
    BY <1>14 DEF Tick, sourceVars
  <2>2. \A r \in Runs : lease[r] = 0 => lease'[r] = 0
    BY <2>1
  <2>3. QED
    BY <2>1, <2>2 DEF RowsInv, SettledRunsAgree
<1>15. CASE UNCHANGED discoveryVars
  <2>1. RowsStay
    BY <1>15 DEF discoveryVars, rowVars, sourceVars, taskVars, RowsStay
  <2>2. QED
    BY <2>1, RowsKept
<1>16. QED
  BY <1>1, <1>2, <1>3, <1>4, <1>5, <1>6, <1>7, <1>8, <1>9, <1>10, <1>11, <1>12,
     <1>13, <1>14, <1>15 DEF DiscoveryNext, Work

(* For any number of runs, deliveries and lost workers, the rows of a      *)
(* settled run agree, although each is written in a transaction of its own *)
(* (_complete_execution, _fail_execution, _run_web_discovery).             *)
THEOREM RowsAgree == DiscoverySpec => []SettledRunsAgree
<1>1. DiscoveryInit => LeaseInv /\ RowsInv
  <2>1. DiscoveryInit => RowsInv
    BY DEF DiscoveryInit, RowsInv, SettledRunsAgree, Terminal, Executing
  <2>2. QED
    BY <2>1, LeaseInit, DiscoveryAssumption
<1>2. LeaseInv /\ RowsInv /\ [DiscoveryNext]_discoveryVars => (LeaseInv /\ RowsInv)'
  BY LeaseStep, RowsStep, DiscoveryAssumption
<1>3. RowsInv => SettledRunsAgree
  BY DEF RowsInv
<1>4. QED
  BY <1>1, <1>2, <1>3, PTL DEF DiscoverySpec

-----------------------------------------------------------------------------
(* Sources.                                                                *)

LEMMA PollStep ==
  ASSUME SubmittedInv, LeaseTypes, NEW d \in Deliveries, PollEndpoints(d)
  PROVE  SubmittedInv'
<1> USE DEF SubmittedInv
<1> DEFINE due == {u \in Urls \ ExcludedUrls : Due(serves[d], u)}
<1>1. /\ polled' = [polled EXCEPT ![serves[d]] = @ \cup due]
      /\ watch' = [u \in Urls |-> IF u \in due THEN "later" ELSE watch[u]]
      /\ UNCHANGED <<submitted, endpoint>>
  BY DEF PollEndpoints
<1>2. /\ due \subseteq Urls
      /\ \A u \in due : endpoint[u] = "active"
      /\ \A u \in due : watch[u] = "due" \/ serves[d].reason = "manual"
  BY DEF Due
<1> HIDE DEF due
<1>3. /\ polled' \in [Runs -> SUBSET Urls]
      /\ watch' \in [Urls -> {"absent", "due", "later"}]
  BY <1>1, <1>2
<1>4. ASSUME NEW u \in Urls, endpoint[u] = "unknown"
      PROVE  watch'[u] = "absent" /\ \A r \in Runs : u \notin polled'[r] \cup submitted[r]
  BY <1>1, <1>2, <1>4
<1>5. \A r \in Runs : \A u \in submitted[r] : watch'[u] # "due"
  BY <1>1, <1>3
<1>6. ASSUME NEW r \in Runs, r.reason = "scheduled"
      PROVE  polled'[r] \cap submitted[r] = {}
  <2>1. CASE r = serves[d]
    BY <1>1, <1>2, <1>6, <2>1 DEF ScheduledRunFetchesOnce
  <2>2. CASE r # serves[d]
    BY <1>1, <1>6, <2>2 DEF ScheduledRunFetchesOnce
  <2>3. QED
    BY <2>1, <2>2
<1>7. QED
  BY <1>1, <1>3, <1>4, <1>5, <1>6 DEF ScheduledRunFetchesOnce

LEMMA RegisterStep ==
  ASSUME SubmittedInv, LeaseTypes, NEW d \in Deliveries, NEW u \in Urls,
         RegisterCandidate(d, u)
  PROVE  SubmittedInv'
<1> USE DEF SubmittedInv
<1>1. /\ UNCHANGED polled
      /\ watch' = [watch EXCEPT ![u] =
                     IF @ = "absent" /\ endpoint'[u] = "active" THEN "later" ELSE @]
  BY DEF RegisterCandidate
<1>2. CASE endpoint[u] = "unknown" /\ u \notin UnsafeUrls
  <2>1. /\ submitted' = [submitted EXCEPT ![serves[d]] = @ \cup {u}]
        /\ endpoint' = [endpoint EXCEPT ![u] = "active"]
    BY <1>2 DEF RegisterCandidate
  <2>2. /\ watch[u] = "absent"
        /\ \A r \in Runs : u \notin polled[r] \cup submitted[r]
    BY <1>2
  <2>3. /\ submitted' \in [Runs -> SUBSET Urls]
        /\ endpoint' \in [Urls -> {"unknown", "active", "degraded"}]
        /\ watch' \in [Urls -> {"absent", "due", "later"}]
        /\ watch'[u] = "later" /\ endpoint'[u] = "active"
        /\ \A v \in Urls \ {u} : watch'[v] = watch[v] /\ endpoint'[v] = endpoint[v]
    BY <1>1, <2>1, <2>2
  <2>4. \A r \in Runs : submitted'[r] \subseteq submitted[r] \cup {u}
    BY <2>1
  <2>5. ScheduledRunFetchesOnce'
    BY <1>1, <2>2, <2>4 DEF ScheduledRunFetchesOnce
  <2>6. QED
    BY <1>1, <2>3, <2>4, <2>5
<1>3. CASE ~(endpoint[u] = "unknown" /\ u \notin UnsafeUrls)
  <2>1. UNCHANGED <<submitted, endpoint>>
    BY <1>3 DEF RegisterCandidate
  <2>2. CASE watch[u] = "absent" /\ endpoint[u] = "active"
    <3>1. watch' = [watch EXCEPT ![u] = "later"]
      BY <1>1, <2>1, <2>2
    <3>2. QED
      BY <1>1, <2>1, <2>2, <3>1 DEF ScheduledRunFetchesOnce
  <2>3. CASE ~(watch[u] = "absent" /\ endpoint[u] = "active")
    <3>1. watch' = [watch EXCEPT ![u] = watch[u]]
      BY <1>1, <2>1, <2>3
    <3>2. UNCHANGED watch
      BY <3>1
    <3>3. QED
      BY <1>1, <2>1, <3>2 DEF ScheduledRunFetchesOnce
  <2>4. QED
    BY <2>2, <2>3
<1>4. QED
  BY <1>2, <1>3

(* However often a scheduled run is taken over and polls again, it fetches *)
(* each source as a known endpoint or as a new one, never both: nothing    *)
(* makes a watch due again within a run's window (_queue_known_endpoints,  *)
(* _register_discovery_candidate).                                         *)
THEOREM FetchedOnce == DiscoverySpec => []ScheduledRunFetchesOnce
<1>1. DiscoveryInit => LeaseInv /\ SubmittedInv
  <2>1. ASSUME DiscoveryInit
        PROVE  SubmittedInv
    <3>1. PICK known \in SUBSET (Urls \ UnsafeUrls) :
            /\ endpoint = [u \in Urls |-> IF u \in known THEN "active" ELSE "unknown"]
            /\ \E w \in {"due", "later"} :
                 watch = [u \in Urls |-> IF u \in known THEN w ELSE "absent"]
      BY <2>1 DEF DiscoveryInit
    <3>2. polled = [r \in Runs |-> {}] /\ submitted = [r \in Runs |-> {}]
      BY <2>1 DEF DiscoveryInit
    <3>3. QED
      BY <3>1, <3>2 DEF SubmittedInv, ScheduledRunFetchesOnce
  <2>2. QED
    BY <2>1, LeaseInit, DiscoveryAssumption
<1>2. LeaseInv /\ SubmittedInv /\ [DiscoveryNext]_discoveryVars => SubmittedInv'
  <2> SUFFICES ASSUME LeaseInv, SubmittedInv, [DiscoveryNext]_discoveryVars
               PROVE  SubmittedInv'
    OBVIOUS
  <2>1. CASE UNCHANGED <<polled, submitted, endpoint, watch>>
    BY <2>1 DEF SubmittedInv, ScheduledRunFetchesOnce
  <2>2. ASSUME NEW u \in Urls, EndpointChanges(u)
        PROVE  SubmittedInv'
    <3>1. /\ endpoint[u] # "unknown"
          /\ endpoint' = [endpoint EXCEPT ![u] =
                            IF @ = "active" THEN "degraded" ELSE "active"]
          /\ UNCHANGED <<polled, submitted, watch>>
      BY <2>2 DEF EndpointChanges
    <3>2. QED
      BY <3>1 DEF SubmittedInv, ScheduledRunFetchesOnce
  <2>3. ASSUME NEW d \in Deliveries, PollEndpoints(d)
        PROVE  SubmittedInv'
    BY <2>3, PollStep DEF LeaseInv
  <2>4. ASSUME NEW d \in Deliveries, NEW u \in Urls, RegisterCandidate(d, u)
        PROVE  SubmittedInv'
    BY <2>4, RegisterStep DEF LeaseInv
  <2>5. ASSUME NEW d \in Deliveries,
               \/ Begin(d) \/ SkipSettled(d) \/ Busy(d) \/ SkipWebSearch(d)
               \/ CreateQuery(d) \/ SearchReturns(d) \/ SearchFails(d)
               \/ CompleteQuery(d) \/ CompleteExecution(d) \/ FailExecution(d)
               \/ WorkerLost(d)
        PROVE  UNCHANGED <<polled, submitted, endpoint, watch>>
    BY <2>5 DEF Begin, SkipSettled, Busy, SkipWebSearch, CreateQuery, SearchReturns,
       SearchFails, CompleteQuery, CompleteExecution, FailExecution, SettleRun,
       WorkerLost, sourceVars
  <2>6. ASSUME \/ CreateDefinitionVersion \/ Tick \/ UNCHANGED discoveryVars
               \/ \E r \in Runs : CreateRun(r)
               \/ \E d \in Deliveries, r \in Runs : Deliver(d, r)
        PROVE  UNCHANGED <<polled, submitted, endpoint, watch>>
    BY <2>6 DEF CreateDefinitionVersion, Tick, discoveryVars, CreateRun, Deliver,
       sourceVars
  <2>7. QED
    BY <2>1, <2>2, <2>3, <2>4, <2>5, <2>6 DEF DiscoveryNext, Work
<1>3. SubmittedInv => ScheduledRunFetchesOnce
  BY DEF SubmittedInv
<1>4. QED
  BY <1>1, <1>2, <1>3, LeaseStep, DiscoveryAssumption, PTL DEF DiscoverySpec

-----------------------------------------------------------------------------
(* Provider calls.                                                         *)

(* An admitted call is still to be counted; what it was admitted on stands *)
(* until then: its policy is active and the others leave it room.          *)
AdmissionStands ==
  \A c \in Calls :
    /\ caller[c] = "created" => call[c] = "queued"
    /\ caller[c] = "admitted" =>
         /\ call[c] = "queued"
         /\ PolicyOf[c] \in activePolicies
         /\ Cardinality(RunningBeside(c)) < CallLimit[PolicyOf[c]]

(* Calls admitted at one time hold different locks.                        *)
AdmittedApart ==
  \A c, d \in Calls :
    c # d /\ caller[c] = "admitted" /\ caller[d] = "admitted" => ~SameLock(c, d)

ProviderInv ==
  /\ ProviderTypeOK
  /\ OneActivePerOperation(activePolicies)
  /\ AdmissionStands
  /\ AdmittedApart
  /\ CallsWithinLimit

RunningCalls == {c \in Calls : call[c] = "running"}

-----------------------------------------------------------------------------
(* Cardinalities of sets of calls.                                         *)

LEMMA CallSets ==
  ASSUME ProviderAssumption, NEW S \in SUBSET Calls, NEW T \in SUBSET S
  PROVE  /\ Cardinality(S) \in Nat
         /\ Cardinality(T) \in Nat
         /\ Cardinality(T) <= Cardinality(S)
<1>1. IsFiniteSet(Calls)
  BY DEF ProviderAssumption
<1>2. IsFiniteSet(S)
  BY <1>1, FS_Subset
<1>3. IsFiniteSet(T) /\ Cardinality(T) <= Cardinality(S)
  BY <1>2, FS_Subset
<1>4. QED
  BY <1>2, <1>3, FS_CardinalityType

(* While no further call runs, what the limit allows now it allows then.   *)
LEMMA LimitKept ==
  ASSUME ProviderAssumption, ProviderInv, RunningCalls' \subseteq RunningCalls
  PROVE  /\ CallsWithinLimit'
         /\ \A c \in Calls : caller[c] = "admitted" =>
              Cardinality(RunningBeside(c)') < CallLimit[PolicyOf[c]]
<1>1. ASSUME NEW op \in Operations, Running(op)' # {}
      PROVE  \E p \in Policies : /\ OperationOf[p] = op
                                 /\ Cardinality(Running(op)') <= CallLimit[p]
  <2>1. Running(op)' \subseteq Running(op) /\ Running(op) \subseteq Calls
    BY DEF Running, RunningCalls
  <2>2. PICK p \in Policies : /\ OperationOf[p] = op
                              /\ Cardinality(Running(op)) <= CallLimit[p]
    BY <1>1, <2>1 DEF ProviderInv, CallsWithinLimit
  <2>3. /\ Cardinality(Running(op)) \in Nat
        /\ Cardinality(Running(op)') \in Nat
        /\ Cardinality(Running(op)') <= Cardinality(Running(op))
    BY <2>1, CallSets
  <2>4. CallLimit[p] \in Nat
    BY DEF ProviderAssumption
  <2>5. QED
    BY <2>2, <2>3, <2>4
<1>2. ASSUME NEW c \in Calls, caller[c] = "admitted"
      PROVE  Cardinality(RunningBeside(c)') < CallLimit[PolicyOf[c]]
  <2>1. RunningBeside(c)' \subseteq RunningBeside(c) /\ RunningBeside(c) \subseteq Calls
    BY DEF RunningBeside, RunningCalls
  <2>2. /\ Cardinality(RunningBeside(c)) \in Nat
        /\ Cardinality(RunningBeside(c)') \in Nat
        /\ Cardinality(RunningBeside(c)') <= Cardinality(RunningBeside(c))
    BY <2>1, CallSets
  <2>3. Cardinality(RunningBeside(c)) < CallLimit[PolicyOf[c]]
    BY <1>2 DEF ProviderInv, AdmissionStands
  <2>4. CallLimit[PolicyOf[c]] \in Nat
    BY DEF ProviderAssumption
  <2>5. QED
    BY <2>2, <2>3, <2>4
<1>3. QED
  BY <1>1, <1>2 DEF CallsWithinLimit

-----------------------------------------------------------------------------
(* An authorisation commits.  No other admitted call is of its operation:  *)
(* both policies would be the active one, and the two hold one lock.       *)
LEMMA StartStep ==
  ASSUME ProviderAssumption, ProviderInv, NEW c \in Calls, StartCall(c)
  PROVE  ProviderInv'
<1> USE DEF ProviderInv, ProviderTypeOK
<1>1. /\ caller[c] = "admitted"
      /\ call' = [call EXCEPT ![c] = "running"]
      /\ caller' = [caller EXCEPT ![c] = "calling"]
      /\ UNCHANGED <<startedDay, activePolicies, today>>
  BY DEF StartCall, Becomes, Goes
<1>2. ProviderTypeOK'
  BY <1>1 DEF CallStatus, CallerPhase
<1>3. ASSUME NEW d \in Calls \ {c}, caller[d] = "admitted"
      PROVE  OperationOf[PolicyOf[d]] # OperationOf[PolicyOf[c]]
  <2>1. {PolicyOf[c], PolicyOf[d]} \subseteq activePolicies
    BY <1>1, <1>3 DEF AdmissionStands
  <2>2. PolicyOf[c] # PolicyOf[d]
    BY <1>1, <1>3 DEF AdmittedApart, SameLock
  <2>3. QED
    BY <2>1, <2>2 DEF OneActivePerOperation
<1>4. ASSUME NEW d \in Calls \ {c}, caller[d] = "admitted"
      PROVE  RunningBeside(d)' = RunningBeside(d)
  BY <1>1, <1>3, <1>4 DEF RunningBeside
<1>5. AdmissionStands'
  <2> SUFFICES ASSUME NEW d \in Calls
               PROVE  /\ caller'[d] = "created" => call'[d] = "queued"
                      /\ caller'[d] = "admitted" =>
                           /\ call'[d] = "queued"
                           /\ PolicyOf[d] \in activePolicies
                           /\ Cardinality(RunningBeside(d)') < CallLimit[PolicyOf[d]]
    BY <1>1 DEF AdmissionStands
  <2>1. CASE d = c
    BY <1>1, <2>1
  <2>2. CASE d # c
    BY <1>1, <1>4, <2>2 DEF AdmissionStands
  <2>3. QED
    BY <2>1, <2>2
<1>6. AdmittedApart'
  BY <1>1 DEF AdmittedApart, SameLock
<1>7. CallsWithinLimit'
  <2> SUFFICES ASSUME NEW op \in Operations, Running(op)' # {}
               PROVE  \E p \in Policies : /\ OperationOf[p] = op
                                          /\ Cardinality(Running(op)') <= CallLimit[p]
    BY DEF CallsWithinLimit
  <2>1. CASE op = OperationOf[PolicyOf[c]]
    <3>1. /\ Running(op)' = RunningBeside(c) \cup {c}
          /\ c \notin RunningBeside(c)
          /\ RunningBeside(c) \subseteq Calls
      BY <1>1, <2>1 DEF Running, RunningBeside
    <3>2. IsFiniteSet(RunningBeside(c))
      BY <3>1, FS_Subset DEF ProviderAssumption
    <3>3. /\ Cardinality(Running(op)') = Cardinality(RunningBeside(c)) + 1
          /\ Cardinality(RunningBeside(c)) \in Nat
      BY <3>1, <3>2, FS_AddElement, FS_CardinalityType
    <3>4. Cardinality(RunningBeside(c)) < CallLimit[PolicyOf[c]]
      BY <1>1 DEF AdmissionStands
    <3>5. PolicyOf[c] \in Policies /\ CallLimit[PolicyOf[c]] \in Nat
      BY DEF ProviderAssumption
    <3>6. QED
      BY <2>1, <3>3, <3>4, <3>5
  <2>2. CASE op # OperationOf[PolicyOf[c]]
    <3>1. Running(op)' = Running(op)
      BY <1>1, <2>2 DEF Running
    <3>2. QED
      BY <3>1 DEF CallsWithinLimit
  <2>3. QED
    BY <2>1, <2>2
<1>8. QED
  BY <1>1, <1>2, <1>5, <1>6, <1>7

(* A call is admitted under its locks, or fails.                           *)
LEMMA AuthorizeStep ==
  ASSUME ProviderAssumption, ProviderInv, NEW c \in Calls, Authorize(c)
  PROVE  ProviderInv'
<1> USE DEF ProviderInv, ProviderTypeOK
<1>1. CASE PolicyAllows(c) /\ WithinLimits(c)
  <2>1. /\ caller[c] = "created"
        /\ LocksFree(c)
        /\ caller' = [caller EXCEPT ![c] = "admitted"]
        /\ startedDay' = [startedDay EXCEPT ![c] = today]
        /\ UNCHANGED <<call, activePolicies, today>>
    BY <1>1 DEF Authorize, Goes
  <2>2. ProviderTypeOK'
    BY <2>1 DEF CallStatus, CallerPhase
  <2>3. \A d \in Calls : RunningBeside(d)' = RunningBeside(d)
    BY <2>1 DEF RunningBeside
  <2>4. /\ PolicyOf[c] \in activePolicies
        /\ Cardinality(RunningBeside(c)) < CallLimit[PolicyOf[c]]
    BY <1>1 DEF PolicyAllows, WithinLimits
  <2>5. AdmissionStands'
    BY <2>1, <2>3, <2>4 DEF AdmissionStands
  <2>6. AdmittedApart'
    BY <2>1 DEF AdmittedApart, LocksFree, SameLock
  <2>7. CallsWithinLimit'
    BY <2>1, LimitKept DEF RunningCalls
  <2>8. QED
    BY <2>1, <2>2, <2>5, <2>6, <2>7
<1>2. CASE ~(PolicyAllows(c) /\ WithinLimits(c))
  <2>1. /\ caller[c] = "created"
        /\ caller' = [caller EXCEPT ![c] = "raised"]
        /\ call' = [call EXCEPT ![c] = "failed"]
        /\ UNCHANGED <<startedDay, activePolicies, today>>
    BY <1>2 DEF Authorize, Goes, Becomes
  <2>2. ProviderTypeOK'
    BY <2>1 DEF CallStatus, CallerPhase
  <2>3. RunningCalls' \subseteq RunningCalls
    BY <2>1 DEF RunningCalls
  <2>4. AdmissionStands'
    BY <2>1, <2>3, LimitKept DEF AdmissionStands
  <2>5. AdmittedApart'
    BY <2>1 DEF AdmittedApart, SameLock
  <2>6. QED
    BY <2>1, <2>2, <2>3, <2>4, <2>5, LimitKept
<1>3. QED
  BY <1>1, <1>2

(* A call that is not admitted is created, answers, fails, or is lost.     *)
LEMMA OtherCallStep ==
  ASSUME ProviderAssumption, ProviderInv, NEW c \in Calls,
         \/ CreateCall(c)
         \/ CallCompletes(c)
         \/ CallFails(c)
         \/ CallReturns(c)
         \/ CallerLost(c)
  PROVE  ProviderInv'
<1> USE DEF ProviderInv, ProviderTypeOK
<1>1. PICK place \in CallerPhase \ {"admitted"}, status \in CallStatus \ {"running"} :
        /\ caller' = [caller EXCEPT ![c] = place]
        /\ \/ call' = [call EXCEPT ![c] = status] /\ caller[c] # "admitted"
           \/ UNCHANGED call
        /\ place = "created" => call'[c] = "queued"
        /\ UNCHANGED <<startedDay, activePolicies, today>>
  <2>1. CASE CreateCall(c)
    <3>1. caller[c] # "admitted"
      BY <2>1 DEF CreateCall, AdmissionStands
    <3>2. QED
      BY <2>1, <3>1 DEF CreateCall, Goes, Becomes, CallerPhase, CallStatus
  <2>2. CASE CallCompletes(c)
    BY <2>2 DEF CallCompletes, Goes, Becomes, CallerPhase, CallStatus
  <2>3. CASE CallFails(c)
    BY <2>3 DEF CallFails, FailCall, Goes, Becomes, CallerPhase, CallStatus
  <2>4. CASE CallReturns(c)
    BY <2>4 DEF CallReturns, FailCall, Goes, Becomes, CallerPhase, CallStatus
  <2>5. CASE CallerLost(c)
    <3>1. /\ caller' = [caller EXCEPT ![c] = "lost"]
          /\ UNCHANGED <<call, startedDay, activePolicies, today>>
      BY <2>5 DEF CallerLost, Goes
    <3>2. "lost" \in CallerPhase \ {"admitted"} /\ "failed" \in CallStatus \ {"running"}
      BY DEF CallerPhase, CallStatus
    <3>3. QED
      BY <3>1, <3>2
  <2>6. QED
    BY <2>1, <2>2, <2>3, <2>4, <2>5
<1>2. ProviderTypeOK'
  BY <1>1
<1>3. RunningCalls' \subseteq RunningCalls
  BY <1>1 DEF RunningCalls
<1>4. AdmissionStands'
  BY <1>1, <1>3, LimitKept DEF AdmissionStands
<1>5. AdmittedApart'
  BY <1>1 DEF AdmittedApart, SameLock
<1>6. QED
  BY <1>1, <1>2, <1>3, <1>4, <1>5, LimitKept

(* Another policy becomes active; no admitted call is of the old one.      *)
LEMMA PolicyStep ==
  ASSUME ProviderAssumption, ProviderInv, NEW p \in Policies, NEW q \in Policies,
         ReplacePolicy(p, q)
  PROVE  ProviderInv'
<1> USE DEF ProviderInv, ProviderTypeOK
<1>1. ProviderTypeOK' /\ OneActivePerOperation(activePolicies')
  BY DEF ReplacePolicy, OneActivePerOperation
<1>2. RunningCalls' = RunningCalls
  BY DEF ReplacePolicy, RunningCalls
<1>3. AdmissionStands'
  BY <1>2, LimitKept DEF AdmissionStands, ReplacePolicy
<1>4. AdmittedApart'
  BY DEF AdmittedApart, SameLock, ReplacePolicy
<1>5. QED
  BY <1>1, <1>2, <1>3, <1>4, LimitKept

-----------------------------------------------------------------------------
LEMMA ProviderBegins == ASSUME ProviderInit PROVE ProviderInv
<1>1. ProviderTypeOK /\ OneActivePerOperation(activePolicies)
  BY DEF ProviderInit, ProviderTypeOK, CallStatus, CallerPhase
<1>2. AdmissionStands /\ AdmittedApart
  BY DEF ProviderInit, AdmissionStands, AdmittedApart
<1>3. CallsWithinLimit
  BY DEF ProviderInit, CallsWithinLimit, Running
<1>4. QED
  BY <1>1, <1>2, <1>3 DEF ProviderInv

LEMMA ProviderKept == ASSUME ProviderInv, [ProviderNext]_providerVars PROVE ProviderInv'
<1>1. ASSUME NEW c \in Calls, CreateCall(c) \/ ProviderStep(c) \/ CallerLost(c)
      PROVE  ProviderInv'
  BY <1>1, ProviderAssumption, StartStep, AuthorizeStep, OtherCallStep DEF ProviderStep
<1>2. ASSUME NEW p \in Policies, NEW q \in Policies, ReplacePolicy(p, q)
      PROVE  ProviderInv'
  BY <1>2, ProviderAssumption, PolicyStep
<1>3. ASSUME UNCHANGED <<call, caller, startedDay, activePolicies>>, today' \in Nat
      PROVE  ProviderInv'
  BY <1>3 DEF ProviderInv, ProviderTypeOK, AdmissionStands, AdmittedApart,
     CallsWithinLimit, RunningBeside, Running, SameLock
<1>4. CASE NextDay
  BY <1>3, <1>4 DEF NextDay, ProviderInv, ProviderTypeOK
<1>5. CASE UNCHANGED providerVars
  BY <1>3, <1>5 DEF providerVars, ProviderInv, ProviderTypeOK
<1>6. QED
  BY <1>1, <1>2, <1>4, <1>5 DEF ProviderNext

(* For any number of callers, policies and limits, an operation has at     *)
(* most as many calls under way as the loosest limit of its policies,      *)
(* however authorisations interleave, callers are lost and policies are    *)
(* replaced (_authorize_call).                                             *)
THEOREM LimitIsNeverExceeded == ProviderSpec => []CallsWithinLimit
<1>1. ProviderInit => ProviderInv
  BY ProviderBegins
<1>2. ProviderInv /\ [ProviderNext]_providerVars => ProviderInv'
  BY ProviderKept
<1>3. ProviderInv => CallsWithinLimit
  BY DEF ProviderInv
<1>4. QED
  BY <1>1, <1>2, <1>3, PTL DEF ProviderSpec

-----------------------------------------------------------------------------
(* Budgets.                                                                *)

(* The bootstrap command gives every policy the one ModelCapability row it *)
(* creates (bootstrap_ftl_platform.py), so that authorisations of all      *)
(* operations take turns.                                                  *)
OneCapability == \A p, q \in Policies : CapabilityOf[p] = CapabilityOf[q]

OfDay(day) == {c \in Reserving : startedDay[c] = day}
OfMonth(month) == {c \in Reserving : MonthOf(startedDay[c]) = month}

(* What an admitted call is about to reserve fits beside all that is       *)
(* reserved since the beginning of its day, and of its month.              *)
AdmissionHasRoom ==
  \A c \in Calls : caller[c] = "admitted" =>
    /\ SpentSince(startedDay[c], c) + Cost[c] <= DailyLimit[PolicyOf[c]]
    /\ SpentSince(MonthOf(startedDay[c]) * DaysPerMonth, c) + Cost[c]
         <= MonthlyLimit[PolicyOf[c]]

DaysInBudget ==
  \A day \in Nat :
    OfDay(day) # {} => \E p \in Policies : Spend(OfDay(day)) <= DailyLimit[p]

MonthsInBudget ==
  \A month \in Nat :
    OfMonth(month) # {} =>
      \E p \in Policies : Spend(OfMonth(month)) <= MonthlyLimit[p]

(* A call that is being made has its cost reserved.                        *)
CallingReserves == \A c \in Calls : caller[c] = "calling" => call[c] = "running"

BudgetInv ==
  /\ ProviderInv
  /\ CallingReserves
  /\ AdmissionHasRoom
  /\ DaysInBudget
  /\ MonthsInBudget

LEMMA SpendOfSubset ==
  ASSUME ProviderAssumption, NEW S \in SUBSET Calls, NEW T \in SUBSET S
  PROVE  /\ Spend(S) \in Nat
         /\ Spend(T) \in Nat
         /\ Spend(T) <= Spend(S)
<1>1. IsFiniteSet(S)
  BY FS_Subset DEF ProviderAssumption
<1>2. \A c \in S : Cost[c] \in Nat
  BY DEF ProviderAssumption
<1>3. QED
  BY <1>1, <1>2, SumIsMonotone DEF Spend

LEMMA SpendWithCall ==
  ASSUME ProviderAssumption, NEW S \in SUBSET Calls, NEW c \in Calls \ S
  PROVE  Spend(S \cup {c}) = Spend(S) + Cost[c]
<1>1. IsFiniteSet(S)
  BY FS_Subset DEF ProviderAssumption
<1>2. \A d \in S \cup {c} : Cost[d] \in Nat
  BY DEF ProviderAssumption
<1>3. QED
  BY <1>1, <1>2, SumAddsElement DEF Spend

(* A month begins on a day of its own.                                     *)
LEMMA MonthBegins ==
  ASSUME ProviderAssumption, NEW day \in Nat
  PROVE  /\ MonthOf(day) \in Nat
         /\ MonthOf(day) * DaysPerMonth \in Nat
         /\ MonthOf(day) * DaysPerMonth <= day
<1>1. DaysPerMonth \in Nat /\ DaysPerMonth > 0
  BY DEF ProviderAssumption
<1>2. QED
  BY <1>1 DEF MonthOf

(* While no further call reserves, there is as much room as before.        *)
LEMMA BudgetKept ==
  ASSUME ProviderAssumption, BudgetInv, Reserving' \subseteq Reserving,
         \A c \in Reserving : startedDay'[c] = startedDay[c]
  PROVE  /\ DaysInBudget'
         /\ MonthsInBudget'
         /\ \A c \in Calls, day \in Nat :
              /\ SpentSince(day, c)' \in Nat
              /\ SpentSince(day, c) \in Nat
              /\ SpentSince(day, c)' <= SpentSince(day, c)
<1>1. Reserving \subseteq Calls
  BY DEF Reserving
<1>2. ASSUME NEW day \in Nat, OfDay(day)' # {}
      PROVE  \E p \in Policies : Spend(OfDay(day)') <= DailyLimit[p]
  <2>1. OfDay(day)' \subseteq OfDay(day) /\ OfDay(day) \subseteq Calls
    BY <1>1 DEF OfDay
  <2>2. PICK p \in Policies : Spend(OfDay(day)) <= DailyLimit[p]
    BY <1>2, <2>1 DEF BudgetInv, DaysInBudget
  <2>3. /\ Spend(OfDay(day)) \in Nat
        /\ Spend(OfDay(day)') \in Nat
        /\ Spend(OfDay(day)') <= Spend(OfDay(day))
    BY <2>1, SpendOfSubset
  <2>4. DailyLimit[p] \in Nat
    BY DEF ProviderAssumption
  <2>5. QED
    BY <2>2, <2>3, <2>4
<1>3. ASSUME NEW month \in Nat, OfMonth(month)' # {}
      PROVE  \E p \in Policies : Spend(OfMonth(month)') <= MonthlyLimit[p]
  <2>1. OfMonth(month)' \subseteq OfMonth(month) /\ OfMonth(month) \subseteq Calls
    BY <1>1 DEF OfMonth
  <2>2. PICK p \in Policies : Spend(OfMonth(month)) <= MonthlyLimit[p]
    BY <1>3, <2>1 DEF BudgetInv, MonthsInBudget
  <2>3. /\ Spend(OfMonth(month)) \in Nat
        /\ Spend(OfMonth(month)') \in Nat
        /\ Spend(OfMonth(month)') <= Spend(OfMonth(month))
    BY <2>1, SpendOfSubset
  <2>4. MonthlyLimit[p] \in Nat
    BY DEF ProviderAssumption
  <2>5. QED
    BY <2>2, <2>3, <2>4
<1>4. ASSUME NEW c \in Calls, NEW day \in Nat
      PROVE  /\ SpentSince(day, c)' \in Nat
             /\ SpentSince(day, c) \in Nat
             /\ SpentSince(day, c)' <= SpentSince(day, c)
  <2> DEFINE Others == {d \in Reserving \ {c} : startedDay[d] >= day}
  <2>1. Others' \subseteq Others /\ Others \subseteq Calls
    BY <1>1
  <2>2. SpentSince(day, c) = Spend(Others) /\ SpentSince(day, c)' = Spend(Others')
    BY DEF SpentSince, Spend
  <2> HIDE DEF Others
  <2>3. QED
    BY <2>1, <2>2, SpendOfSubset
<1>5. DaysInBudget' /\ MonthsInBudget'
  BY <1>2, <1>3 DEF DaysInBudget, MonthsInBudget, Spend
<1>6. QED
  BY <1>4, <1>5

(* The call that starts is the only one admitted, and what it was admitted *)
(* beside is at least what was reserved on its day and in its month.       *)
LEMMA BudgetStart ==
  ASSUME ProviderAssumption, OneCapability, BudgetInv, NEW c \in Calls, StartCall(c)
  PROVE  AdmissionHasRoom' /\ DaysInBudget' /\ MonthsInBudget'
<1> USE DEF BudgetInv, ProviderInv, ProviderTypeOK
<1>1. /\ caller[c] = "admitted"
      /\ call[c] = "queued"
      /\ call' = [call EXCEPT ![c] = "running"]
      /\ caller' = [caller EXCEPT ![c] = "calling"]
      /\ UNCHANGED <<startedDay, activePolicies, today>>
  BY DEF StartCall, Becomes, Goes, AdmissionStands
<1>2. Reserving \subseteq Calls /\ c \notin Reserving /\ Reserving' = Reserving \cup {c}
  BY <1>1 DEF Reserving
<1>3. AdmissionHasRoom'
  <2>1. ASSUME NEW d \in Calls, caller'[d] = "admitted" PROVE FALSE
    <3>1. d # c /\ caller[d] = "admitted"
      BY <1>1, <2>1
    <3>2. PolicyOf[c] \in Policies /\ PolicyOf[d] \in Policies
      BY DEF ProviderAssumption
    <3>3. SameLock(c, d)
      BY <3>2 DEF SameLock, OneCapability
    <3>4. QED
      BY <1>1, <3>1, <3>3 DEF AdmittedApart
  <2>2. QED
    BY <2>1 DEF AdmissionHasRoom
<1>4. /\ startedDay[c] \in Nat
      /\ Cost[c] \in Nat
      /\ PolicyOf[c] \in Policies
      /\ DailyLimit[PolicyOf[c]] \in Nat
      /\ MonthlyLimit[PolicyOf[c]] \in Nat
  BY DEF ProviderAssumption
<1>5. DaysInBudget'
  <2>1. ASSUME NEW day \in Nat, OfDay(day)' # {}
        PROVE  \E p \in Policies : Spend(OfDay(day)') <= DailyLimit[p]
    <3>1. CASE day = startedDay[c]
      <4>1. PICK S \in SUBSET Calls : S = {d \in Reserving \ {c} : startedDay[d] >= day}
        BY <1>2
      <4>2. Spend(S) + Cost[c] <= DailyLimit[PolicyOf[c]]
        BY <1>1, <3>1, <4>1 DEF AdmissionHasRoom, SpentSince
      <4>3. PICK T \in SUBSET S : T = OfDay(day)
        <5>1. \A d \in OfDay(day) : d \in Reserving \ {c} /\ startedDay[d] >= day
          BY <1>2, <2>1 DEF OfDay
        <5>2. OfDay(day) \subseteq S
          BY <4>1, <5>1
        <5>3. QED
          BY <5>2
      <4>4. OfDay(day)' = T \cup {c} /\ c \in Calls \ T /\ T \in SUBSET Calls
        BY <1>1, <1>2, <3>1, <4>1, <4>3 DEF OfDay
      <4>5. Spend(T) \in Nat /\ Spend(S) \in Nat /\ Spend(T) <= Spend(S)
        BY SpendOfSubset
      <4>6. Spend(T \cup {c}) = Spend(T) + Cost[c]
        BY <4>4, SpendWithCall
      <4>7. Spend(T \cup {c}) <= DailyLimit[PolicyOf[c]]
        BY <1>4, <4>2, <4>5, <4>6
      <4>8. QED
        BY <1>4, <4>4, <4>7
    <3>2. CASE day # startedDay[c]
      <4>1. OfDay(day)' = OfDay(day)
        BY <1>1, <1>2, <3>2 DEF OfDay
      <4>2. QED
        BY <2>1, <4>1 DEF DaysInBudget
    <3>3. QED
      BY <3>1, <3>2
  <2>2. QED
    BY <2>1 DEF DaysInBudget, Spend
<1>6. MonthsInBudget'
  <2>1. ASSUME NEW month \in Nat, OfMonth(month)' # {}
        PROVE  \E p \in Policies : Spend(OfMonth(month)') <= MonthlyLimit[p]
    <3>1. CASE month = MonthOf(startedDay[c])
      <4>1. PICK S \in SUBSET Calls :
              S = {d \in Reserving \ {c} : startedDay[d] >= month * DaysPerMonth}
        BY <1>2
      <4>2. Spend(S) + Cost[c] <= MonthlyLimit[PolicyOf[c]]
        BY <1>1, <3>1, <4>1 DEF AdmissionHasRoom, SpentSince
      <4>3. \A d \in OfMonth(month) : startedDay[d] >= month * DaysPerMonth
        <5>1. ASSUME NEW d \in OfMonth(month) PROVE startedDay[d] >= month * DaysPerMonth
          <6>1. startedDay[d] \in Nat /\ MonthOf(startedDay[d]) = month
            BY <1>2 DEF OfMonth
          <6>2. QED
            BY <6>1, MonthBegins
        <5>2. QED
          BY <5>1
      <4>4. PICK T \in SUBSET S : T = OfMonth(month)
        BY <1>2, <4>1, <4>3 DEF OfMonth
      <4>5. OfMonth(month)' = T \cup {c} /\ c \in Calls \ T /\ T \in SUBSET Calls
        BY <1>1, <1>2, <3>1, <4>1, <4>4 DEF OfMonth, MonthOf
      <4>6. Spend(T) \in Nat /\ Spend(S) \in Nat /\ Spend(T) <= Spend(S)
        BY SpendOfSubset
      <4>7. Spend(T \cup {c}) = Spend(T) + Cost[c]
        BY <4>5, SpendWithCall
      <4>8. Spend(T \cup {c}) <= MonthlyLimit[PolicyOf[c]]
        BY <1>4, <4>2, <4>6, <4>7
      <4>9. QED
        BY <1>4, <4>5, <4>8
    <3>2. CASE month # MonthOf(startedDay[c])
      <4>1. OfMonth(month)' = OfMonth(month)
        BY <1>1, <1>2, <3>2 DEF OfMonth, MonthOf
      <4>2. QED
        BY <2>1, <4>1 DEF MonthsInBudget
    <3>3. QED
      BY <3>1, <3>2
  <2>2. QED
    BY <2>1 DEF MonthsInBudget, Spend
<1>7. QED
  BY <1>3, <1>5, <1>6

(* No call begins to reserve; a call is admitted on what the locked reads  *)
(* found, or was before.                                                   *)
NothingReserved ==
  /\ Reserving' \subseteq Reserving
  /\ \A c \in Reserving : startedDay'[c] = startedDay[c]
  /\ CallingReserves'
  /\ \A c \in Calls : caller'[c] = "admitted" =>
       \/ caller[c] = "admitted" /\ startedDay'[c] = startedDay[c]
       \/ startedDay'[c] = today /\ WithinLimits(c)

LEMMA OnlyStartsReserve ==
  ASSUME ProviderAssumption, BudgetInv, [ProviderNext]_providerVars,
         \A c \in Calls : ~StartCall(c)
  PROVE  NothingReserved
<1> USE DEF BudgetInv, ProviderInv, ProviderTypeOK, NothingReserved, CallingReserves
<1>1. ASSUME NEW c \in Calls, Authorize(c) PROVE NothingReserved
  <2>1. caller[c] = "created" /\ call[c] = "queued"
    BY <1>1 DEF Authorize, AdmissionStands
  <2>2. CASE PolicyAllows(c) /\ WithinLimits(c)
    <3>1. /\ caller' = [caller EXCEPT ![c] = "admitted"]
          /\ startedDay' = [startedDay EXCEPT ![c] = today]
          /\ UNCHANGED call
      BY <1>1, <2>2 DEF Authorize, Goes
    <3>2. QED
      BY <2>1, <2>2, <3>1 DEF Reserving
  <2>3. CASE ~(PolicyAllows(c) /\ WithinLimits(c))
    <3>1. /\ caller' = [caller EXCEPT ![c] = "raised"]
          /\ call' = [call EXCEPT ![c] = "failed"]
          /\ UNCHANGED startedDay
      BY <1>1, <2>3 DEF Authorize, Goes, Becomes
    <3>2. QED
      BY <2>1, <3>1 DEF Reserving
  <2>4. QED
    BY <2>2, <2>3
<1>2. ASSUME NEW c \in Calls,
             CreateCall(c) \/ CallCompletes(c) \/ CallFails(c) \/ CallReturns(c)
               \/ CallerLost(c)
      PROVE  NothingReserved
  <2>1. PICK place \in {"created", "answered", "raised", "returned", "lost"} :
          caller' = [caller EXCEPT ![c] = place]
    BY <1>2 DEF CreateCall, CallCompletes, CallFails, CallReturns, CallerLost,
       FailCall, Goes
  <2>2. UNCHANGED startedDay
    BY <1>2 DEF CreateCall, CallCompletes, CallFails, CallReturns, CallerLost, FailCall
  <2>3. \/ UNCHANGED call
        \/ call[c] = "running"
             /\ \E status \in CallStatus : call' = [call EXCEPT ![c] = status]
        \/ \E status \in {"queued", "failed"} :
             call' = [call EXCEPT ![c] = status]
    <3>1. CASE CallFails(c)
      BY <3>1 DEF CallFails, FailCall, Becomes, CallStatus
    <3>2. CASE CallCompletes(c)
      BY <3>2 DEF CallCompletes, Becomes, CallStatus
    <3>3. QED
      BY <1>2, <3>1, <3>2 DEF CreateCall, CallReturns, CallerLost, FailCall, Becomes
  <2>4. QED
    BY <2>1, <2>2, <2>3 DEF Reserving
<1>3. ASSUME UNCHANGED <<call, caller, startedDay>> PROVE NothingReserved
  BY <1>3 DEF Reserving
<1>4. QED
  BY <1>1, <1>2, <1>3 DEF ProviderNext, ProviderStep, NextDay, ReplacePolicy, providerVars

LEMMA BudgetStep ==
  ASSUME ProviderAssumption, BudgetInv, NothingReserved, startedDay' \in [Calls -> Nat]
  PROVE  AdmissionHasRoom' /\ DaysInBudget' /\ MonthsInBudget'
<1>1. DaysInBudget' /\ MonthsInBudget'
  BY BudgetKept DEF NothingReserved
<1>2. ASSUME NEW c \in Calls, caller'[c] = "admitted"
      PROVE  /\ SpentSince(startedDay[c], c)' + Cost[c] <= DailyLimit[PolicyOf[c]]
             /\ SpentSince(MonthOf(startedDay[c]) * DaysPerMonth, c)' + Cost[c]
                  <= MonthlyLimit[PolicyOf[c]]
  <2>1. PICK day \in Nat : day = startedDay'[c]
    OBVIOUS
  <2>2. PICK first \in Nat : first = MonthOf(day) * DaysPerMonth
    BY MonthBegins
  <2>3. /\ SpentSince(day, c) + Cost[c] <= DailyLimit[PolicyOf[c]]
        /\ SpentSince(first, c) + Cost[c] <= MonthlyLimit[PolicyOf[c]]
    <3>1. CASE caller[c] = "admitted" /\ startedDay'[c] = startedDay[c]
      BY <2>1, <2>2, <3>1 DEF BudgetInv, AdmissionHasRoom
    <3>2. CASE startedDay'[c] = today /\ WithinLimits(c)
      BY <2>1, <2>2, <3>2 DEF WithinLimits
    <3>3. QED
      BY <1>2, <3>1, <3>2 DEF NothingReserved
  <2>4. \A d \in Nat : /\ SpentSince(d, c)' \in Nat
                       /\ SpentSince(d, c) \in Nat
                       /\ SpentSince(d, c)' <= SpentSince(d, c)
    BY BudgetKept DEF NothingReserved
  <2>5. /\ Cost[c] \in Nat
        /\ DailyLimit[PolicyOf[c]] \in Nat
        /\ MonthlyLimit[PolicyOf[c]] \in Nat
    BY DEF ProviderAssumption
  <2>6. /\ SpentSince(startedDay[c], c)' = SpentSince(day, c)'
        /\ SpentSince(MonthOf(startedDay[c]) * DaysPerMonth, c)' = SpentSince(first, c)'
    BY <2>1, <2>2 DEF SpentSince, MonthOf
  <2>7. /\ SpentSince(day, c)' + Cost[c] <= DailyLimit[PolicyOf[c]]
        /\ SpentSince(first, c)' + Cost[c] <= MonthlyLimit[PolicyOf[c]]
    BY <2>3, <2>4, <2>5
  <2>8. QED
    BY <2>6, <2>7
<1>3. QED
  BY <1>1, <1>2 DEF AdmissionHasRoom

(* For any callers, policies and budgets: while all policies have the one  *)
(* capability, what the calls of a day, and of a month, may cost at most   *)
(* stays within the largest budget of a policy (_authorize_call,           *)
(* _reserved_spend).                                                       *)
THEOREM BudgetIsNeverExceeded ==
  ASSUME OneCapability
  PROVE  ProviderSpec => []SpendWithinBudget
<1>1. ProviderInit => BudgetInv
  <2> SUFFICES ASSUME ProviderInit
               PROVE  BudgetInv
    OBVIOUS
  <2>1. ProviderInv
    BY ProviderBegins
  <2>2. CallingReserves /\ AdmissionHasRoom
    BY DEF ProviderInit, CallingReserves, AdmissionHasRoom
  <2>3. Reserving = {}
    BY DEF ProviderInit, Reserving
  <2>4. DaysInBudget /\ MonthsInBudget
    BY <2>3 DEF DaysInBudget, MonthsInBudget, OfDay, OfMonth
  <2>5. QED
    BY <2>1, <2>2, <2>4 DEF BudgetInv
<1>2. BudgetInv /\ [ProviderNext]_providerVars => BudgetInv'
  <2> SUFFICES ASSUME BudgetInv, [ProviderNext]_providerVars
               PROVE  BudgetInv'
    OBVIOUS
  <2>1. ProviderInv'
    BY ProviderKept DEF BudgetInv
  <2>2. ASSUME NEW c \in Calls, StartCall(c)
        PROVE  CallingReserves' /\ AdmissionHasRoom' /\ DaysInBudget' /\ MonthsInBudget'
    <3>1. CallingReserves'
      BY <2>2 DEF StartCall, Becomes, Goes, BudgetInv, CallingReserves, ProviderInv,
         ProviderTypeOK
    <3>2. QED
      BY <2>2, <3>1, ProviderAssumption, OneCapability, BudgetStart
  <2>3. ASSUME \A c \in Calls : ~StartCall(c)
        PROVE  CallingReserves' /\ AdmissionHasRoom' /\ DaysInBudget' /\ MonthsInBudget'
    <3>1. NothingReserved
      BY <2>3, ProviderAssumption, OnlyStartsReserve
    <3>2. startedDay' \in [Calls -> Nat]
      BY <2>1 DEF ProviderInv, ProviderTypeOK
    <3>3. CallingReserves'
      BY <3>1 DEF NothingReserved
    <3>4. QED
      BY <3>1, <3>2, <3>3, ProviderAssumption, BudgetStep
  <2>4. QED
    BY <2>1, <2>2, <2>3 DEF BudgetInv
<1>3. BudgetInv => SpendWithinBudget
  <2> SUFFICES ASSUME BudgetInv, NEW day \in 0..today
               PROVE  /\ OfDay(day) # {} =>
                           \E p \in Policies : Spend(OfDay(day)) <= DailyLimit[p]
                      /\ OfMonth(MonthOf(day)) # {} =>
                           \E p \in Policies :
                             Spend(OfMonth(MonthOf(day))) <= MonthlyLimit[p]
    BY DEF SpendWithinBudget, OfDay, OfMonth
  <2>1. day \in Nat /\ MonthOf(day) \in Nat
    BY ProviderAssumption, MonthBegins
  <2>2. QED
    BY <2>1 DEF BudgetInv, DaysInBudget, MonthsInBudget
<1>4. QED
  BY <1>1, <1>2, <1>3, PTL DEF ProviderSpec
=============================================================================
