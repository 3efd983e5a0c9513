---------------------------- MODULE ResearchRuns ----------------------------
(***************************************************************************)
(* Standard research on an opportunity (apps/research): one run per        *)
(* fingerprint of its inputs, in two stages.  The public stage asks the    *)
(* provider for a report; the extraction stage turns the stored report     *)
(* into claims and a dossier.  A stage begins in one transaction, calls    *)
(* the provider outside any, and registers its effect in another one,      *)
(* which locks the run and looks for the effect again.                     *)
(*                                                                         *)
(* The first transaction of the public stage reads the run without a lock  *)
(* and writes its status later, so it is two actions here.                 *)
(***************************************************************************)
EXTENDS Naturals, FiniteSets

CONSTANTS
  Inputs,       \* input fingerprints of the opportunity, each with its run
  Jobs,         \* deliveries of the two commands
  JobOf,        \* the run and the stage a delivery carries
  MaxJobsLost   \* bound of the model: messages lost with a worker or dropped

Stages == {"public", "extract"}

ASSUME ResearchAssumption ==
  /\ JobOf \in [Jobs -> Inputs \X Stages]
  /\ MaxJobsLost \in Nat

VARIABLES
  research,    \* ResearchRun.status
  progress,    \* PipelineRun.status of the run
  report,      \* runs with a report artifact and the public stage's effect
  dossier,     \* runs with a dossier and the extraction stage's effect
  currentRun,  \* the runs with is_current
  outlook,     \* the opportunity's research status and next action
  place,       \* where a delivery is
  unrecorded,  \* commands a delivery of which was dropped, nothing recorded
  jobsLost

lossVars == <<unrecorded, jobsLost>>
researchVars == <<research, progress, report, dossier, currentRun, outlook,
                  place, lossVars>>
runVars == <<research, progress, report, dossier, currentRun, outlook>>

UnderWay == {"queued", "in_progress", "extracting"}
Held == {"read", "calling", "raising"}    \* places on a worker

ResearchInit ==
  /\ research = [f \in Inputs |-> "absent"]
  /\ progress = [f \in Inputs |-> "absent"]
  /\ report = {} /\ dossier = {}
  /\ currentRun = {}
  /\ outlook = [status |-> "not_requested", next |-> "review"]
  /\ place = [j \in Jobs |-> "unsent"]
  /\ unrecorded = {} /\ jobsLost = 0

RunOfJob(j) == JobOf[j][1]
StageOfJob(j) == JobOf[j][2]
Effect(stage) == IF stage = "public" THEN report ELSE dossier

Places(j, p) == place' = [place EXCEPT ![j] = p]

-----------------------------------------------------------------------------
(* request_standard_research.  Inputs already researched return their run, *)
(* whatever became of it.                                                  *)
RequestResearch(f) ==
  /\ research[f] = "absent"
  /\ research' = [research EXCEPT ![f] = "queued"]
  /\ progress' = [progress EXCEPT ![f] = "queued"]
  /\ currentRun' = {f}
  /\ outlook' = [status |-> "queued", next |-> "research_in_progress"]
  /\ UNCHANGED <<report, dossier, place, lossVars>>

(* The command of a stage exists once the run, or the report, does; the    *)
(* outbox may publish it more than once.                                   *)
Commanded(f, stage) ==
  IF stage = "public" THEN research[f] # "absent" ELSE f \in report

DeliverJob(j) ==
  /\ place[j] = "unsent"
  /\ Commanded(RunOfJob(j), StageOfJob(j))
  /\ Places(j, "waiting")
  /\ UNCHANGED <<runVars, lossVars>>

-----------------------------------------------------------------------------
(* The first transaction.                                                  *)

StageReady(f, stage) ==
  IF stage = "public" THEN research[f] \in {"queued", "in_progress"}
                      ELSE research[f] = "extracting"

(* Assumption on timing: the dispatcher takes longer to publish the        *)
(* extraction command than a transaction between its read and its write.   *)
DispatcherIsSlower(f) ==
  \A j \in Jobs : JobOf[j] = <<f, "public">> => place[j] # "read"

SkipJob(j) ==
  /\ place[j] = "waiting"
  /\ RunOfJob(j) \in Effect(StageOfJob(j))
  /\ Places(j, "gone")
  /\ UNCHANGED <<runVars, lossVars>>

TakeJob(j) ==
  LET f == RunOfJob(j) IN
  /\ place[j] = "waiting"
  /\ f \notin Effect(StageOfJob(j))
  /\ StageOfJob(j) = "extract" => DispatcherIsSlower(f)
  /\ Places(j, IF ~StageReady(f, StageOfJob(j)) THEN "raising"
               ELSE IF StageOfJob(j) = "public" THEN "read"
               ELSE "calling")
  /\ UNCHANGED <<runVars, lossVars>>

(* execute_public_research writes the status it decided on when it read.   *)
SavePublic(j) ==
  LET f == RunOfJob(j) IN
  /\ place[j] = "read"
  /\ research' = [research EXCEPT ![f] = "in_progress"]
  /\ progress' = [progress EXCEPT ![f] = "running"]
  /\ outlook' = [outlook EXCEPT !.status = "in_progress"]
  /\ Places(j, "calling")
  /\ UNCHANGED <<report, dossier, currentRun, lossVars>>

-----------------------------------------------------------------------------
(* The second transaction.                                                 *)

(* Another delivery has registered the effect during the call.             *)
EffectExists(j) ==
  /\ place[j] = "calling"
  /\ RunOfJob(j) \in Effect(StageOfJob(j))
  /\ Places(j, "gone")
  /\ UNCHANGED <<runVars, lossVars>>

(* The report is stored and registered, the extraction commanded.  The     *)
(* pipeline keeps its status.                                              *)
RegisterReport(j) ==
  LET f == RunOfJob(j) IN
  /\ place[j] = "calling" /\ StageOfJob(j) = "public"
  /\ f \notin report
  /\ report' = report \cup {f}
  /\ research' = [research EXCEPT ![f] = "extracting"]
  /\ Places(j, "gone")
  /\ UNCHANGED <<progress, dossier, currentRun, outlook, lossVars>>

(* Claims and dossier are stored.                                          *)
RegisterDossier(j) ==
  LET f == RunOfJob(j) IN
  /\ place[j] = "calling" /\ StageOfJob(j) = "extract"
  /\ f \notin dossier
  /\ dossier' = dossier \cup {f}
  /\ research' = [research EXCEPT ![f] = "complete"]
  /\ progress' = [progress EXCEPT ![f] = "complete"]
  /\ outlook' = [status |-> "complete", next |-> "solution_design"]
  /\ Places(j, "gone")
  /\ UNCHANGED <<report, currentRun, lossVars>>

-----------------------------------------------------------------------------
(* Failure.                                                                *)

(* No policy is active, the provider refuses or fails, its answer is not   *)
(* valid, the time is up: the transaction at hand, if any, is rolled back. *)
JobRaises(j) ==
  /\ place[j] \in {"read", "calling"}
  /\ Places(j, "raising")
  /\ UNCHANGED <<runVars, lossVars>>

(* Mutant of Concluded: a failed pipeline stays as it is, too.             *)
ConcludedOrFailed(f) == progress[f] \in {"complete", "failed"}

Concluded(f) == progress[f] = "complete"

(* Mutant of StatusAfterFailure: the stage that failed decides.            *)
StatusByStage(j) == IF StageOfJob(j) = "extract" THEN "partial" ELSE "failed"

StatusAfterFailure(j) == IF RunOfJob(j) \in report THEN "partial" ELSE "failed"

(* mark_research_failed, in a transaction of its own, which locks.         *)
MarkFailed(j) ==
  LET f == RunOfJob(j)
      status == StatusAfterFailure(j) IN
  /\ place[j] = "raising"
  /\ IF Concluded(f)
     THEN UNCHANGED <<research, progress, outlook>>
     ELSE /\ research' = [research EXCEPT ![f] = status]
          /\ progress' = [progress EXCEPT ![f] = "failed"]
          /\ outlook' = [status |-> status,
                         next   |-> IF status = "partial"
                                    THEN "review_partial_research"
                                    ELSE "retry_research"]
  /\ Places(j, "gone")
  /\ UNCHANGED <<report, dossier, currentRun, lossVars>>

JobTrouble ==
  /\ jobsLost < MaxJobsLost
  /\ jobsLost' = jobsLost + 1

(* The worker is lost and the broker delivers the message again, or an     *)
(* OperationalError, of a stage or of mark_research_failed, is retried.    *)
JobLost(j) ==
  /\ place[j] \in Held
  /\ JobTrouble
  /\ Places(j, "waiting")
  /\ UNCHANGED <<runVars, unrecorded>>

(* An OperationalError after the last retry, or the task's time limit: the *)
(* message is acknowledged, and no failure is recorded.                    *)
JobDropped(j) ==
  /\ place[j] \in Held \cup {"waiting"}
  /\ JobTrouble
  /\ unrecorded' = unrecorded \cup {JobOf[j]}
  /\ Places(j, "gone")
  /\ UNCHANGED runVars

-----------------------------------------------------------------------------
ResearchNext ==
  \/ \E f \in Inputs : RequestResearch(f)
  \/ \E j \in Jobs :
       \/ DeliverJob(j)
       \/ SkipJob(j)
       \/ TakeJob(j)
       \/ SavePublic(j)
       \/ EffectExists(j)
       \/ RegisterReport(j)
       \/ RegisterDossier(j)
       \/ JobRaises(j)
       \/ MarkFailed(j)
       \/ JobLost(j)
       \/ JobDropped(j)

ResearchSpec == ResearchInit /\ [][ResearchNext]_researchVars

-----------------------------------------------------------------------------
(* Properties.                                                             *)

(* A failure keeps what was paid for, whichever delivery of whichever      *)
(* stage fails, and when (mark_research_failed): a run that ends partial   *)
(* has its report, one that ends failed has none to keep, and one with a   *)
(* dossier is complete for good.                                           *)
ResultsArePreserved ==
  \A f \in Inputs :
    /\ research[f] = "partial" => f \in report
    /\ research[f] = "failed" => f \notin report
    /\ research[f] = "complete" <=> f \in dossier

(* A command is carried on while it is still to be published or one of its *)
(* deliveries is under way.                                                *)
CarriedOn(f, stage) ==
  LET mine == {j \in Jobs : JobOf[j] = <<f, stage>>} IN
  /\ Commanded(f, stage)
  /\ \/ \A j \in mine : place[j] = "unsent"
     \/ \E j \in mine : place[j] \in Held \cup {"waiting"}

(* The command whose effect a run waits for.                               *)
Awaited(f) == IF f \in report THEN "extract" ELSE "public"

(* No interleaving of duplicates, failures and lost workers leaves a run   *)
(* under way with nobody to end it, and its opportunity with research in   *)
(* progress for ever: the command whose effect is missing is carried on,   *)
(* unless a delivery of that very command was dropped unrecorded.          *)
ResearchIsCarriedOn ==
  \A f \in Inputs :
    research[f] \in UnderWay =>
      \/ CarriedOn(f, Awaited(f))
      \/ <<f, Awaited(f)>> \in unrecorded
=============================================================================
