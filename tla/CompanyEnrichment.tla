-------------------------- MODULE CompanyEnrichment --------------------------
(***************************************************************************)
(* Enrichment of a company's profile (apps/companies): runs scheduled per  *)
(* day, the fetch of the official pages by a task that may be retried,     *)
(* lost or taken over, and the value of one profile field, the legal name, *)
(* which people edit as well.                                              *)
(*                                                                         *)
(* A run begins in one transaction, fetches without a lock, and ends in    *)
(* another one.                                                            *)
(***************************************************************************)
EXTENDS Naturals, FiniteSets

CONSTANTS
  ProfileRuns,        \* runs, one per day
  Tasks,              \* deliveries of companies.enrich_profile
  RunOf,              \* the run a delivery carries
  Names,              \* legal names
  Unknown,            \* the empty name
  MaxProfileRetries,  \* max_retries of the task
  MaxEdits,           \* bound of the model: edits by people
  MaxLost,            \* bound of the model: workers lost
  MaxAborted          \* bound of the model: tasks ended by their time limit

ASSUME CompanyAssumption ==
  /\ RunOf \in [Tasks -> ProfileRuns]
  /\ Unknown \notin Names
  /\ {MaxProfileRetries, MaxEdits, MaxLost, MaxAborted} \subseteq Nat

VARIABLES
  profile,      \* CompanyProfileRun.status
  running,      \* its steps in status RUNNING
  task,         \* where a delivery is
  tries,        \* its retry count
  redelivered,  \* the broker marks it as redelivered
  name,         \* Company.legal_name
  applied,      \* the last observation of it that was applied
  active,       \* the company is no longer PROVISIONAL
  confirmed,    \* its domain is SOURCE_CONFIRMED
  edits, lost, aborted

companyVars == <<name, applied, active, confirmed, edits>>
deliveryVars == <<task, tries, redelivered, lost, aborted>>
enrichmentVars == <<profile, running, deliveryVars, companyVars>>

Done == {"complete", "partial"}

CompanyInit ==
  /\ profile = [r \in ProfileRuns |-> "absent"]
  /\ running = [r \in ProfileRuns |-> 0]
  /\ task = [d \in Tasks |-> "unsent"]
  /\ tries = [d \in Tasks |-> 0]
  /\ redelivered = [d \in Tasks |-> FALSE]
  /\ name = Unknown
  /\ applied = Unknown
  /\ active = FALSE /\ confirmed = FALSE
  /\ edits = 0 /\ lost = 0 /\ aborted = 0

Moves(d, place) == task' = [task EXCEPT ![d] = place]

-----------------------------------------------------------------------------
(* Scheduling.                                                             *)

(* Once per company, domain, parser version and day.                       *)
ScheduleEnrichment(r) ==
  /\ profile[r] = "absent"
  /\ profile' = [profile EXCEPT ![r] = "queued"]
  /\ UNCHANGED <<running, deliveryVars, companyVars>>

(* The outbox publishes the run's command; an uncertain acknowledgement    *)
(* makes it publish another one.                                           *)
DeliverEnrichment(d) ==
  /\ task[d] = "unsent"
  /\ profile[RunOf[d]] # "absent"
  /\ Moves(d, "waiting")
  /\ UNCHANGED <<profile, running, tries, redelivered, lost, aborted, companyVars>>

(* A person changes the company's name.                                    *)
EditName(v) ==
  /\ edits < MaxEdits
  /\ v # name
  /\ name' = v
  /\ edits' = edits + 1
  /\ UNCHANGED <<profile, running, deliveryVars, applied, active, confirmed>>

-----------------------------------------------------------------------------
(* The task.                                                               *)

RecoverStarted(d) == redelivered[d] \/ tries[d] > 0

MayBegin(d) ==
  LET r == RunOf[d] IN
  /\ profile[r] \notin Done
  /\ profile[r] = "running" => RecoverStarted(d)

(* _begin_enrichment: a run left running is taken over, its step is not    *)
(* closed.                                                                 *)
BeginEnrichment(d) ==
  LET r == RunOf[d] IN
  /\ task[d] = "waiting"
  /\ MayBegin(d)
  /\ profile' = [profile EXCEPT ![r] = "running"]
  /\ running' = [running EXCEPT ![r] = @ + 1]
  /\ Moves(d, "fetching")
  /\ UNCHANGED <<tries, redelivered, lost, aborted, companyVars>>

SkipEnrichment(d) ==
  /\ task[d] = "waiting"
  /\ ~MayBegin(d)
  /\ Moves(d, "gone")
  /\ UNCHANGED <<profile, running, tries, redelivered, lost, aborted, companyVars>>

(* _can_apply: the name is unknown, or it is the one applied last.         *)
CanApply == name = Unknown \/ name = applied

(* _complete_enrichment: the name found, if one is, is observed and maybe  *)
(* applied.  The run is complete when every field of the company is known. *)
CompleteEnrichment(d) ==
  LET r == RunOf[d] IN
  /\ task[d] = "fetching"
  /\ running[r] = 1
  /\ \E v \in Names \cup {Unknown} :
       /\ IF v # Unknown /\ CanApply
          THEN name' = v /\ applied' = v
          ELSE UNCHANGED <<name, applied>>
       /\ active' = (active \/ (name' # Unknown /\ v # Unknown))
       /\ confirmed' = (confirmed \/ name' # Unknown)
  /\ \E s \in Done :
       /\ s = "complete" => name' # Unknown
       /\ profile' = [profile EXCEPT ![r] = s]
  /\ running' = [running EXCEPT ![r] = 0]
  /\ Moves(d, "gone")
  /\ UNCHANGED <<tries, redelivered, lost, aborted, edits>>

(* The query for the one running step finds none or several: an exception  *)
(* that nothing catches rolls the completion back and ends the task.       *)
CompletionRaises(d) ==
  /\ task[d] = "fetching"
  /\ running[RunOf[d]] # 1
  /\ Moves(d, "gone")
  /\ UNCHANGED <<profile, running, tries, redelivered, lost, aborted, companyVars>>

(* Mutant of StepsAfterFailure: only the task's own step is closed.        *)
OwnStepOnly(r) == [running EXCEPT ![r] = IF @ > 0 THEN @ - 1 ELSE 0]

(* Every running step of the run fails with it.                            *)
StepsAfterFailure(r) == [running EXCEPT ![r] = 0]

(* _record_failure, which does not look at the run's status.               *)
RecordFailure(d, status) ==
  /\ profile' = [profile EXCEPT ![RunOf[d]] = status]
  /\ running' = StepsAfterFailure(RunOf[d])

(* A retryable fetch error, or an artifact that cannot be stored.          *)
FailRetryable(d) ==
  /\ task[d] = "fetching"
  /\ RecordFailure(d, "queued")
  /\ IF tries[d] < MaxProfileRetries
     THEN /\ tries' = [tries EXCEPT ![d] = @ + 1]
          /\ Moves(d, "waiting")
     ELSE Moves(d, "exhausted") /\ UNCHANGED tries
  /\ UNCHANGED <<redelivered, lost, aborted, companyVars>>

(* mark_company_enrichment_exhausted looks at the run without a lock ...   *)
FindExhausted(d) ==
  /\ task[d] = "exhausted"
  /\ Moves(d, IF profile[RunOf[d]] = "queued" THEN "marking" ELSE "gone")
  /\ UNCHANGED <<profile, running, tries, redelivered, lost, aborted, companyVars>>

(* ... and marks it in another transaction, whatever became of it: a       *)
(* duplicate may have begun the run again, or completed it.                *)
MarkExhausted(d) ==
  /\ task[d] = "marking"
  /\ RecordFailure(d, "failed")
  /\ Moves(d, "gone")
  /\ UNCHANGED <<tries, redelivered, lost, aborted, companyVars>>

(* The pages do not confirm the company's identity, or are refused.        *)
FailForGood(d) ==
  /\ task[d] = "fetching"
  /\ RecordFailure(d, "failed")
  /\ Moves(d, "gone")
  /\ UNCHANGED <<tries, redelivered, lost, aborted, companyVars>>

(* The worker is lost: the broker delivers the message again, marked.      *)
EnricherLost(d) ==
  /\ task[d] = "fetching"
  /\ lost < MaxLost
  /\ lost' = lost + 1
  /\ redelivered' = [redelivered EXCEPT ![d] = TRUE]
  /\ Moves(d, "waiting")
  /\ UNCHANGED <<profile, running, tries, aborted, companyVars>>

(* The soft time limit raises where nothing catches it.                    *)
EnricherTimesOut(d) ==
  /\ task[d] = "fetching"
  /\ aborted < MaxAborted
  /\ aborted' = aborted + 1
  /\ Moves(d, "gone")
  /\ UNCHANGED <<profile, running, tries, redelivered, lost, companyVars>>

-----------------------------------------------------------------------------
EnrichmentNext ==
  \/ \E r \in ProfileRuns : ScheduleEnrichment(r)
  \/ \E v \in Names \cup {Unknown} : EditName(v)
  \/ \E d \in Tasks :
       \/ DeliverEnrichment(d)
       \/ BeginEnrichment(d)
       \/ SkipEnrichment(d)
       \/ CompleteEnrichment(d)
       \/ CompletionRaises(d)
       \/ FailRetryable(d)
       \/ FindExhausted(d)
       \/ MarkExhausted(d)
       \/ FailForGood(d)
       \/ EnricherLost(d)
       \/ EnricherTimesOut(d)

EnrichmentSpec == CompanyInit /\ [][EnrichmentNext]_enrichmentVars

-----------------------------------------------------------------------------
(* Properties.                                                             *)

(* Whatever is delivered twice, taken over, retried or marked late as      *)
(* exhausted, the steps follow the run: one that is settled or waits for a *)
(* retry has no step left running, and one that runs has some              *)
(* (_complete_enrichment, _record_failure).                                *)
StepsFollowRun ==
  \A r \in ProfileRuns : (profile[r] = "running") <=> (running[r] > 0)

(* "Broker/worker restart loses no canonical progress" (docs 24:203): a    *)
(* run under way is carried on by some delivery.                           *)
RunIsCarriedOn ==
  \A r \in ProfileRuns :
    profile[r] = "running" =>
      \E d \in Tasks : RunOf[d] = r /\ task[d] \in {"waiting", "fetching"}
=============================================================================
