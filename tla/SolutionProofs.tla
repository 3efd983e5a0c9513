--------------------------- MODULE SolutionProofs ---------------------------
(***************************************************************************)
(* Proofs about the runs that a solution rests on (ResearchRuns), for any  *)
(* inputs, any number of deliveries of either command and any number of    *)
(* lost workers, and about SolutionDesign for any releases, research runs, *)
(* versions, activations and commands delivered again.                     *)
(***************************************************************************)
EXTENDS ResearchRuns, SolutionDesign, TLAPS

-----------------------------------------------------------------------------
(* Research runs.                                                          *)

ResearchTypes ==
  /\ research \in [Inputs -> UnderWay \cup {"absent", "partial", "failed", "complete"}]
  /\ progress \in [Inputs -> {"absent", "queued", "running", "complete", "failed"}]
  /\ place \in [Jobs -> Held \cup {"unsent", "waiting", "gone"}]

(* No delivery before its command: the public stage is commanded with the  *)
(* run, the extraction by the transaction that stores the report.          *)
CommandsComeFirst ==
  /\ dossier \subseteq report
  /\ \A f \in Inputs : f \in report => research[f] # "absent"
  /\ \A j \in Jobs :
       place[j] # "unsent" => Commanded(RunOfJob(j), StageOfJob(j))

(* A public delivery between its read and its write: no extraction of the  *)
(* run is on a worker or over, which is what the timing assumption gives,  *)
(* unless it was dropped before it began.                                  *)
ReaderIsAhead ==
  \A j \in Jobs : place[j] = "read" =>
    /\ StageOfJob(j) = "public"
    /\ RunOfJob(j) \notin dossier
    /\ \A i \in Jobs : StageOfJob(i) = "extract" /\ RunOfJob(i) = RunOfJob(j)
         => \/ place[i] \in {"unsent", "waiting"}
            \/ place[i] = "gone" /\ JobOf[i] \in unrecorded

(* The pipeline is complete with its dossier, not before.                  *)
ProgressFollowsDossier ==
  \A f \in Inputs : progress[f] = "complete" <=> f \in dossier

ResultsInv ==
  /\ ResearchTypes
  /\ CommandsComeFirst
  /\ ReaderIsAhead
  /\ ProgressFollowsDossier
  /\ ResultsArePreserved

(* A delivery carries one stage of one run.                                *)
LEMMA JobParts ==
  \A j \in Jobs : /\ RunOfJob(j) \in Inputs
                  /\ StageOfJob(j) \in Stages
                  /\ JobOf[j] = <<RunOfJob(j), StageOfJob(j)>>
BY ResearchAssumption DEF RunOfJob, StageOfJob

-----------------------------------------------------------------------------
(* Results.                                                                *)

(* Every step of every delivery keeps ResultsInv.                          *)
LEMMA ResultsStep == ResultsInv /\ [ResearchNext]_researchVars => ResultsInv'
<1> SUFFICES ASSUME ResultsInv, [ResearchNext]_researchVars PROVE ResultsInv'
  OBVIOUS
<1> USE JobParts DEF ResultsInv, ResearchTypes, CommandsComeFirst, ReaderIsAhead,
        ProgressFollowsDossier, ResultsArePreserved, UnderWay, Held, Stages,
        Places, Effect, Commanded, lossVars
<1>1. ASSUME NEW f \in Inputs, RequestResearch(f) PROVE ResultsInv'
  BY <1>1 DEF RequestResearch
<1>2. ASSUME NEW j \in Jobs, DeliverJob(j) PROVE ResultsInv'
  BY <1>2 DEF DeliverJob, Commanded, runVars
<1>3. ASSUME NEW j \in Jobs, SkipJob(j) PROVE ResultsInv'
  BY <1>3 DEF SkipJob, runVars
<1>4. ASSUME NEW j \in Jobs, TakeJob(j) PROVE ResultsInv'
  BY <1>4 DEF TakeJob, DispatcherIsSlower, StageReady, runVars
<1>5. ASSUME NEW j \in Jobs, SavePublic(j) PROVE ResultsInv'
  BY <1>5 DEF SavePublic
<1>6. ASSUME NEW j \in Jobs, EffectExists(j) PROVE ResultsInv'
  BY <1>6 DEF EffectExists, runVars
<1>7. ASSUME NEW j \in Jobs, RegisterReport(j) PROVE ResultsInv'
  BY <1>7 DEF RegisterReport
<1>8. ASSUME NEW j \in Jobs, RegisterDossier(j) PROVE ResultsInv'
  BY <1>8 DEF RegisterDossier
<1>9. ASSUME NEW j \in Jobs, JobRaises(j) PROVE ResultsInv'
  BY <1>9 DEF JobRaises, runVars
<1>10. ASSUME NEW j \in Jobs, MarkFailed(j) PROVE ResultsInv'
  BY <1>10 DEF MarkFailed, Concluded, StatusAfterFailure
<1>11. ASSUME NEW j \in Jobs, JobLost(j) PROVE ResultsInv'
  BY <1>11 DEF JobLost, JobTrouble, runVars
<1>12. ASSUME NEW j \in Jobs, JobDropped(j) PROVE ResultsInv'
  BY <1>12 DEF JobDropped, JobTrouble, runVars
<1>13. CASE UNCHANGED researchVars
  BY <1>13 DEF researchVars
<1>14. QED
  BY <1>1, <1>2, <1>3, <1>4, <1>5, <1>6, <1>7, <1>8, <1>9, <1>10, <1>11, <1>12,
     <1>13 DEF ResearchNext

(* ResultsInv is an invariant.                                             *)
THEOREM ResultsInvariant == ResearchSpec => []ResultsInv
<1>1. ResearchInit => ResultsInv
  BY JobParts DEF ResearchInit, ResultsInv, ResearchTypes, CommandsComeFirst,
     ReaderIsAhead, ProgressFollowsDossier, ResultsArePreserved, UnderWay, Held,
     Commanded
<1>2. QED
  BY <1>1, ResultsStep, PTL DEF ResearchSpec

(* What a failure keeps, in every reachable state: a partial run has its   *)
(* report, a failed one has none, and one with a dossier is complete.      *)
THEOREM ResultsSurviveFailures == ResearchSpec => []ResultsArePreserved
<1>1. ResultsInv => ResultsArePreserved
  BY DEF ResultsInv
<1>2. QED
  BY <1>1, ResultsInvariant, PTL

-----------------------------------------------------------------------------
(* Progress.                                                               *)

(* Whatever ends the stage that is carried on ends the run with it,        *)
(* commands the other stage, or leaves its command among the dropped ones. *)
LEMMA CarriedOnStep ==
  ResultsInv /\ ResultsInv' /\ ResearchIsCarriedOn /\ [ResearchNext]_researchVars
    => ResearchIsCarriedOn'
<1> DEFINE Mine(f) == \/ CarriedOn(f, Awaited(f))
                      \/ <<f, Awaited(f)>> \in unrecorded
<1> SUFFICES ASSUME ResultsInv, ResultsInv', ResearchIsCarriedOn,
                    [ResearchNext]_researchVars,
                    NEW f \in Inputs, research'[f] \in UnderWay
             PROVE  Mine(f)'
  BY DEF ResearchIsCarriedOn
<1> USE JobParts DEF ResultsInv, ResearchTypes, CommandsComeFirst, ReaderIsAhead,
        ProgressFollowsDossier, ResultsArePreserved, UnderWay, Held, Stages,
        Places, Effect, Commanded, ResearchIsCarriedOn, CarriedOn, Awaited, lossVars
<1> DEFINE Goal == Mine(f)
<1>1. ASSUME NEW g \in Inputs, RequestResearch(g) PROVE Goal'
  BY <1>1 DEF RequestResearch
<1>2. ASSUME NEW j \in Jobs, DeliverJob(j) PROVE Goal'
  BY <1>2 DEF DeliverJob, runVars
<1>3. ASSUME NEW j \in Jobs, SkipJob(j) PROVE Goal'
  BY <1>3 DEF SkipJob, runVars
<1>4. ASSUME NEW j \in Jobs, TakeJob(j) PROVE Goal'
  BY <1>4 DEF TakeJob, DispatcherIsSlower, StageReady, runVars
<1>5. ASSUME NEW j \in Jobs, SavePublic(j) PROVE Goal'
  BY <1>5 DEF SavePublic
<1>6. ASSUME NEW j \in Jobs, EffectExists(j) PROVE Goal'
  BY <1>6 DEF EffectExists, runVars
<1>7. ASSUME NEW j \in Jobs, RegisterReport(j) PROVE Goal'
  BY <1>7 DEF RegisterReport
<1>8. ASSUME NEW j \in Jobs, RegisterDossier(j) PROVE Goal'
  BY <1>8 DEF RegisterDossier
<1>9. ASSUME NEW j \in Jobs, JobRaises(j) PROVE Goal'
  BY <1>9 DEF JobRaises, runVars
<1>10. ASSUME NEW j \in Jobs, MarkFailed(j) PROVE Goal'
  BY <1>10 DEF MarkFailed, Concluded, StatusAfterFailure
<1>11. ASSUME NEW j \in Jobs, JobLost(j) PROVE Goal'
  BY <1>11 DEF JobLost, JobTrouble, runVars
<1>12. ASSUME NEW j \in Jobs, JobDropped(j) PROVE Goal'
  BY <1>12 DEF JobDropped, JobTrouble, runVars
<1>13. CASE UNCHANGED researchVars
  BY <1>13 DEF researchVars
<1>14. QED
  BY <1>1, <1>2, <1>3, <1>4, <1>5, <1>6, <1>7, <1>8, <1>9, <1>10, <1>11, <1>12,
     <1>13 DEF ResearchNext

(* The command a run under way waits for is still to be published, or a    *)
(* delivery of it is at work, or one was dropped and its failure could not *)
(* be recorded: nothing else leaves a run for nobody to end.               *)
THEOREM NoRunIsAbandoned == ResearchSpec => []ResearchIsCarriedOn
<1>1. ResearchInit => ResearchIsCarriedOn
  BY DEF ResearchInit, ResearchIsCarriedOn, UnderWay
<1>2. QED
  BY <1>1, CarriedOnStep, ResultsInvariant, PTL DEF ResearchSpec

-----------------------------------------------------------------------------
(* Solution designs.                                                       *)

VersionType ==
  [release : Releases, run : 1..MaxDossiers, edit : BOOLEAN, matched : BOOLEAN]

SolutionTypes ==
  /\ versions \in Seq(VersionType)
  /\ solution \in [current : Nat, approved : Nat,
                   status : {"draft", "approved", "stale"}]
  /\ solution.current \in 0..Len(versions)

(* A design holds the opportunity alone, and the research it checked is    *)
(* the current one until it lets go.                                       *)
DesignHolds ==
  /\ findings \in [run : Nat, status : {"none", "open", "complete", "expired"}]
  /\ \A k \in designing : k \in Keys /\ designing = {k} /\ k[1] = findings.run

(* An approval is of a version, and of one whose assets were matched.      *)
ApprovalInv ==
  /\ SolutionTypes
  /\ solution.status = "approved" =>
       /\ solution.current # 0
       /\ solution.approved = solution.current
       /\ versions[solution.current].matched
  /\ nextAction = "buyer_role_research" => solution.status = "approved"

-----------------------------------------------------------------------------
(* Versions.                                                               *)

(* A version is added at the end and becomes the current draft.            *)
LEMMA VersionCreated ==
  ASSUME ApprovalInv, NEW r \in Releases, NEW d \in 1..MaxDossiers,
         NEW edit \in BOOLEAN, CreateVersion(r, d, edit)
  PROVE  /\ ApprovalInv'
         /\ versions'[Len(versions')].run = d
<1> USE DEF ApprovalInv, SolutionTypes
<1> DEFINE v == [release |-> r, run |-> d, edit |-> edit, matched |-> FALSE]
<1>1. v \in VersionType /\ v.run = d
  BY DEF VersionType
<1> HIDE DEF v
<1>2. /\ versions' = Append(versions, v)
      /\ solution' = [solution EXCEPT !.current = Len(versions) + 1, !.status = "draft"]
      /\ nextAction' = "asset_matching"
  BY DEF CreateVersion, Drafted, v
<1>3. /\ versions' \in Seq(VersionType)
      /\ Len(versions') = Len(versions) + 1
      /\ versions'[Len(versions')] = v
  BY <1>1, <1>2
<1>4. solution' = [current |-> Len(versions) + 1, approved |-> solution.approved,
                   status |-> "draft"]
  BY <1>2
<1>5. /\ solution' \in [current : Nat, approved : Nat,
                        status : {"draft", "approved", "stale"}]
      /\ solution'.current = Len(versions) + 1
      /\ solution'.status = "draft"
  BY <1>4
<1>6. QED
  BY <1>1, <1>2, <1>3, <1>5

-----------------------------------------------------------------------------
(* Approvals.                                                              *)

LEMMA ApprovalStep ==
  ASSUME SolutionAssumption, ApprovalInv, DesignHolds, [SolutionNext]_solutionVars
  PROVE  ApprovalInv'
<1> USE DEF ApprovalInv
<1>1. CASE UNCHANGED <<versions, solution, nextAction>>
  BY <1>1 DEF SolutionTypes
<1>2. ASSUME nextAction' # "buyer_role_research",
             UNCHANGED <<versions, solution>>
      PROVE  ApprovalInv'
  BY <1>2 DEF SolutionTypes
<1>3. CASE ResearchMoves
  BY <1>1, <1>3 DEF ResearchMoves
<1>4. ASSUME NEW a \in activating, ActivateRelease(a)
      PROVE  ApprovalInv'
  <2>1. CASE Joined(a) /\ DependsOnOther(a)
    <3>1. /\ solution' = [solution EXCEPT !.status = "stale"]
          /\ nextAction' = "refresh_solution_for_knowledge_release"
          /\ UNCHANGED versions
      BY <1>4, <2>1 DEF ActivateRelease
    <3>2. QED
      BY <3>1 DEF SolutionTypes
  <2>2. CASE ~(Joined(a) /\ DependsOnOther(a))
    BY <1>1, <1>4, <2>2 DEF ActivateRelease
  <2>3. QED
    BY <2>1, <2>2
<1>5. ASSUME NEW k \in Keys, RequestDesign(k)
      PROVE  ApprovalInv'
  BY <1>2, <1>5 DEF RequestDesign
<1>6. ASSUME NEW k \in Keys, FinishDesign(k)
      PROVE  ApprovalInv'
  <2>1. k[2] \in Releases /\ k[1] \in 1..MaxDossiers /\ CreateVersion(k[2], k[1], FALSE)
    BY <1>6 DEF FinishDesign, Keys
  <2>2. QED
    BY <2>1, VersionCreated
<1>7. ASSUME NEW p \in failing, MarkSolutionFailed(p)
      PROVE  ApprovalInv'
  <2>1. /\ UNCHANGED <<versions, solution>>
        /\ nextAction' \in {nextAction, "review_solution_failure"}
    BY <1>7 DEF MarkSolutionFailed
  <2>2. QED
    BY <1>1, <1>2, <2>1
<1>8. ASSUME \/ \E k \in Keys : BeginDesign(k) \/ DesignRolledBack(k) \/ DesignRaises(k)
             \/ \E r \in Releases : BeginActivation(r)
      PROVE  ApprovalInv'
  BY <1>1, <1>8 DEF BeginDesign, DesignRolledBack, DesignRaises, BeginActivation
<1>9. ASSUME NEW v \in 1..MaxVersions, MatchAssets(v)
      PROVE  ApprovalInv'
  <2>1. /\ v \in DOMAIN versions
        /\ versions' = [versions EXCEPT ![v].matched = TRUE]
        /\ nextAction' = "review_solution"
        /\ UNCHANGED solution
    BY <1>9 DEF MatchAssets
  <2> DEFINE version == [versions[v] EXCEPT !.matched = TRUE]
  <2>2. v \in 1..Len(versions) /\ versions[v] \in VersionType
    BY <2>1 DEF SolutionTypes
  <2>3. version \in VersionType /\ version.matched
    BY <2>2 DEF VersionType
  <2>4. versions' = [versions EXCEPT ![v] = version]
    BY <2>1
  <2> HIDE DEF version
  <2>5. /\ versions' \in Seq(VersionType)
        /\ Len(versions') = Len(versions)
        /\ versions'[v] = version
    BY <2>2, <2>3, <2>4 DEF SolutionTypes
  <2>6. \A w \in 1..Len(versions) : versions[w].matched => versions'[w].matched
    BY <2>2, <2>3, <2>4, <2>5 DEF SolutionTypes
  <2>7. QED
    BY <2>1, <2>5, <2>6 DEF SolutionTypes
<1>10. ASSUME NEW v \in 1..MaxVersions, MatchRaises(v)
       PROVE  ApprovalInv'
  BY <1>1, <1>10 DEF MatchRaises
<1>11. CASE EditSolution
  <2>1. solution.current \in 1..Len(versions)
    BY <1>11 DEF EditSolution, SolutionTypes
  <2>2. versions[solution.current] \in VersionType
    BY <2>1 DEF SolutionTypes
  <2>3. CreateVersion(versions[solution.current].release,
                      versions[solution.current].run, TRUE)
    BY <1>11 DEF EditSolution
  <2>4. QED
    BY <2>2, <2>3, VersionCreated DEF VersionType
<1>12. CASE ApproveSolution
  <2>1. /\ solution.current # 0
        /\ versions[solution.current].matched
        /\ solution' = [solution EXCEPT !.approved = solution.current,
                                        !.status = "approved"]
        /\ nextAction' = "buyer_role_research"
        /\ UNCHANGED versions
    BY <1>12 DEF ApproveSolution
  <2>2. QED
    BY <2>1 DEF SolutionTypes
<1>13. CASE UNCHANGED solutionVars
  BY <1>1, <1>13 DEF solutionVars
<1>14. QED
  BY <1>3, <1>4, <1>5, <1>6, <1>7, <1>8, <1>9, <1>10, <1>11, <1>12, <1>13
     DEF SolutionNext

-----------------------------------------------------------------------------
(* Designs.                                                                *)

LEMMA DesignStep ==
  ASSUME SolutionAssumption, DesignHolds, [SolutionNext]_solutionVars
  PROVE  DesignHolds'
<1>1. CASE UNCHANGED <<findings, designing>>
  BY <1>1 DEF DesignHolds
<1>2. CASE ResearchMoves
  <2>1. /\ UNCHANGED designing
        /\ findings' \in [run : Nat, status : {"none", "open", "complete", "expired"}]
        /\ designing = {} \/ findings'.run = findings.run
    BY <1>2 DEF ResearchMoves, DesignHolds, OpportunityFree, workVars
  <2>2. QED
    BY <2>1 DEF DesignHolds
<1>3. ASSUME NEW k \in Keys, BeginDesign(k)
      PROVE  DesignHolds'
  <2>1. designing' = {k} /\ k[1] = findings.run /\ UNCHANGED findings
    BY <1>3 DEF BeginDesign, InputsStand, CurrentKeys
  <2>2. QED
    BY <2>1 DEF DesignHolds
<1>4. ASSUME NEW k \in Keys, FinishDesign(k) \/ DesignRolledBack(k)
      PROVE  DesignHolds'
  <2>1. designing' = {} /\ UNCHANGED findings
    BY <1>4 DEF FinishDesign, DesignRolledBack
  <2>2. QED
    BY <2>1 DEF DesignHolds
<1>5. ASSUME \/ \E k \in Keys : RequestDesign(k) \/ DesignRaises(k)
             \/ \E p \in failing : MarkSolutionFailed(p)
      PROVE  DesignHolds'
  BY <1>1, <1>5 DEF RequestDesign, DesignRaises, MarkSolutionFailed
<1>6. ASSUME NEW v \in 1..MaxVersions, MatchAssets(v) \/ MatchRaises(v)
      PROVE  DesignHolds'
  BY <1>1, <1>6 DEF MatchAssets, MatchRaises
<1>7. CASE EditSolution \/ ApproveSolution \/ UNCHANGED solutionVars
  BY <1>1, <1>7 DEF EditSolution, ApproveSolution, workVars, solutionVars
<1>8. ASSUME \/ \E r \in Releases : BeginActivation(r)
             \/ \E a \in activating : ActivateRelease(a)
      PROVE  DesignHolds'
  BY <1>1, <1>8 DEF BeginActivation, ActivateRelease, workVars
<1>9. QED
  BY <1>2, <1>3, <1>4, <1>5, <1>6, <1>7, <1>8 DEF SolutionNext

SolutionInv == ApprovalInv /\ DesignHolds

(* Locks and versions together: the invariant the two results rest on.     *)
THEOREM SolutionInvariant == SolutionSpec => []SolutionInv
<1>1. SolutionInit => SolutionInv
  BY DEF SolutionInit, SolutionInv, ApprovalInv, SolutionTypes, DesignHolds
<1>2. SolutionInv /\ [SolutionNext]_solutionVars => SolutionInv'
  BY ApprovalStep, DesignStep, SolutionAssumption DEF SolutionInv
<1>3. QED
  BY <1>1, <1>2, PTL DEF SolutionSpec

(* For any history of edits, designs, late matches, failures and           *)
(* activations, what is shown as approved is the current version, matched, *)
(* and contact research is the next action of nothing else.                *)
THEOREM ApprovalIsOfCurrent == SolutionSpec => []ApprovalStands
<1>1. SolutionInv => ApprovalStands
  BY DEF SolutionInv, ApprovalInv, ApprovalStands
<1>2. QED
  BY <1>1, SolutionInvariant, PTL

(* However late a design's command is delivered, the version it writes is  *)
(* of the research run current then: the run cannot change while the       *)
(* design holds the opportunity (execute_solution_design).                 *)
THEOREM DesignsFollowResearch == SolutionSpec => DesignsAreCurrent
<1>1. ASSUME SolutionInv, [SolutionNext]_solutionVars,
             designing # {}, versions' # versions
      PROVE  versions'[Len(versions')].run = findings.run
  <2>1. PICK k \in Keys : FinishDesign(k)
    <3>1. ~OpportunityFree
      BY <1>1 DEF OpportunityFree
    <3>2. \/ \E k \in Keys : FinishDesign(k)
          \/ UNCHANGED versions
      BY <1>1, <3>1 DEF SolutionNext, ResearchMoves, BeginActivation, ActivateRelease, RequestDesign,
         BeginDesign, DesignRolledBack, DesignRaises, MarkSolutionFailed, MatchAssets,
         MatchRaises, EditSolution, ApproveSolution, solutionVars
    <3>3. QED
      BY <1>1, <3>2
  <2>2. /\ k \in designing
        /\ k[2] \in Releases /\ k[1] \in 1..MaxDossiers
        /\ CreateVersion(k[2], k[1], FALSE)
    BY <2>1 DEF FinishDesign, Keys
  <2>3. versions'[Len(versions')].run = k[1]
    BY <1>1, <2>2, VersionCreated DEF SolutionInv
  <2>4. QED
    BY <1>1, <2>2, <2>3 DEF SolutionInv, DesignHolds
<1>2. SolutionInv /\ [SolutionNext]_solutionVars
        => [designing # {} /\ versions' # versions
              => versions'[Len(versions')].run = findings.run]_solutionVars
  BY <1>1
<1>3. QED
  BY <1>2, SolutionInvariant, PTL DEF SolutionSpec, DesignsAreCurrent
=============================================================================
