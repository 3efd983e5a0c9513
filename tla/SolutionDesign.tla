--------------------------- MODULE SolutionDesign ---------------------------
(***************************************************************************)
(* Solution versions of one opportunity (apps/solutions) and the release   *)
(* of the knowledge catalogue they are bound to (apps/knowledge): design   *)
(* and asset matching by workers, edits and approvals by people, the       *)
(* activation of a release, which makes solutions stale.                   *)
(*                                                                         *)
(* Row locks.  A design locks the opportunity, checks its inputs and       *)
(* writes, at its end, the solution state; everybody else locks the state, *)
(* if anything, and writes the opportunity at the end.  While a design     *)
(* holds the opportunity the others therefore wait for it, or deadlock     *)
(* with it and one of them is rolled back.  An activation reads which      *)
(* version is current before it waits, and PostgreSQL joins the state to   *)
(* that version again when the wait is over; on SQLite it never waits.     *)
(***************************************************************************)
EXTENDS Naturals, Sequences, FiniteSets

CONSTANTS
  Releases,          \* releases of the catalogue
  MaxDossiers,       \* bound of the model: research runs
  MaxVersions,       \* bound of the model: solution versions
  MaxActivations,    \* bound of the model: activations
  MaxResent          \* bound of the model: commands delivered again

ASSUME SolutionAssumption ==
  /\ {MaxDossiers, MaxVersions, MaxActivations, MaxResent} \subseteq Nat
  /\ Releases # {}

VARIABLES
  release,      \* the active release, {} before the first activation
  activating,   \* the activation at work, in a set: what it has read
  activations,
  findings,     \* the current research run: its number and its status
  requested,    \* design pipelines: pairs of a research run and a release
  versions,     \* SolutionVersion, by number
  solution,     \* OpportunitySolutionState: current, approved, status
  nextAction,   \* the opportunity's next_action_key
  delivered,    \* design and match commands delivered: pipelines, versions
  resent,
  designing,    \* the design that holds the opportunity, in a set
  failing       \* pipelines whose task has raised, to be marked failed

catalogueVars == <<release, activating, activations>>
workVars == <<requested, delivered, resent, designing, failing>>
solutionVars == <<catalogueVars, findings, versions, solution, nextAction,
                  workVars>>

Keys == (1..MaxDossiers) \X Releases       \* what a design's fingerprint names

SolutionInit ==
  /\ release = {}
  /\ activating = {} /\ activations = 0
  /\ findings = [run |-> 0, status |-> "none"]
  /\ requested = {}
  /\ versions = <<>>
  /\ solution = [current |-> 0, approved |-> 0, status |-> "draft"]
  /\ nextAction = "none"
  /\ delivered = [design |-> {}, match |-> {}]
  /\ resent = 0
  /\ designing = {}
  /\ failing = {}

OpportunityFree == designing = {}
CurrentKeys == {k \in Keys : findings.status = "complete"
                               /\ k[1] = findings.run /\ k[2] \in release}

-----------------------------------------------------------------------------
(* The inputs: research (module ResearchRuns) and the catalogue.           *)

(* A new run becomes the current one; it completes; its dossier expires.   *)
ResearchMoves ==
  /\ \/ /\ OpportunityFree
        /\ findings.run < MaxDossiers
        /\ findings' = [run |-> findings.run + 1, status |-> "open"]
     \/ /\ OpportunityFree
        /\ findings.status = "open"
        /\ findings' = [findings EXCEPT !.status = "complete"]
     \/ /\ findings.status = "complete"
        /\ findings' = [findings EXCEPT !.status = "expired"]
  /\ UNCHANGED <<catalogueVars, versions, solution, nextAction, workVars>>

(* activate_knowledge_release holds the registry's row, so activations go  *)
(* one by one; the query of invalidate_for_knowledge_release takes its     *)
(* snapshot, and then waits for the rows it wants to lock.                 *)
BeginActivation(r) ==
  /\ activating = {} /\ r \notin release
  /\ activations < MaxActivations
  /\ activating' = {[release |-> r, seen |-> solution.current]}
  /\ activations' = activations + 1
  /\ UNCHANGED <<release, findings, versions, solution, nextAction, workVars>>

(* The state is still joined to the version that the query has seen.       *)
Joined(a) == a.seen # 0 /\ a.seen = solution.current

DependsOnOther(a) == versions[a.seen].release # a.release

(* A state that was edited or redesigned during the wait drops out.        *)
ActivateRelease(a) ==
  /\ a \in activating
  /\ activating' = {}
  /\ release' = {a.release}
  /\ Joined(a) => OpportunityFree
  /\ IF Joined(a) /\ DependsOnOther(a)
     THEN /\ solution' = [solution EXCEPT !.status = "stale"]
          /\ nextAction' = "refresh_solution_for_knowledge_release"
     ELSE UNCHANGED <<solution, nextAction>>
  /\ UNCHANGED <<activations, findings, versions, workVars>>

-----------------------------------------------------------------------------
(* Versions.                                                               *)

(* Mutant of Drafted: the status is set when the state is created only.    *)
DraftedOnce(s, v) == [s EXCEPT !.current = v]

Drafted(s, v) == [s EXCEPT !.current = v, !.status = "draft"]

(* _create_solution_version.                                               *)
CreateVersion(r, d, edit) ==
  /\ Len(versions) < MaxVersions
  /\ versions' = Append(versions, [release |-> r, run |-> d, edit |-> edit,
                                   matched |-> FALSE])
  /\ solution' = Drafted(solution, Len(versions) + 1)
  /\ nextAction' = "asset_matching"

(* The pipeline of a version: an edit has one of its own.                  *)
DesignOf(k) == <<k, 0>>
PipelineOf(v) ==
  <<<<versions[v].run, versions[v].release>>, IF versions[v].edit THEN v ELSE 0>>

-----------------------------------------------------------------------------
(* Design.                                                                 *)

(* Inputs a design was requested for before return its pipeline.           *)
RequestDesign(k) ==
  /\ OpportunityFree
  /\ k \in CurrentKeys \ requested
  /\ requested' = requested \cup {k}
  /\ nextAction' = "solution_design_in_progress"
  /\ UNCHANGED <<catalogueVars, findings, versions, solution, delivered,
                 resent, designing, failing>>

Designed(k) == \E v \in DOMAIN versions : PipelineOf(v) = DesignOf(k)

(* A command reaches a worker, for the first time or again.                *)
Deliverable(kind, c) == c \in delivered[kind] => resent < MaxResent

Delivery(kind, c) ==
  /\ Deliverable(kind, c)
  /\ delivered' = [delivered EXCEPT ![kind] = @ \cup {c}]
  /\ resent' = resent + IF c \in delivered[kind] THEN 1 ELSE 0

(* Mutant of InputsStand: the inputs are not compared again.               *)
InputsNotCompared(k) == k \in requested

InputsStand(k) == k \in CurrentKeys

(* execute_solution_design up to its check: the opportunity is locked.  A  *)
(* replay of a design that has its version does nothing.                   *)
BeginDesign(k) ==
  /\ OpportunityFree
  /\ k \in requested
  /\ ~Designed(k)
  /\ InputsStand(k)
  /\ Deliverable("design", k)
  /\ designing' = {k}
  /\ UNCHANGED <<catalogueVars, findings, versions, solution, nextAction,
                 requested, delivered, resent, failing>>

FinishDesign(k) ==
  /\ k \in designing
  /\ Delivery("design", k)
  /\ CreateVersion(k[2], k[1], FALSE)
  /\ designing' = {}
  /\ UNCHANGED <<catalogueVars, findings, requested, failing>>

(* The worker is lost or chosen as the victim of a deadlock: the task is   *)
(* delivered or tried again.                                               *)
DesignRolledBack(k) ==
  /\ k \in designing
  /\ designing' = {}
  /\ UNCHANGED <<catalogueVars, findings, versions, solution, nextAction,
                 requested, delivered, resent, failing>>

(* Research or knowledge changed, or the design does not validate.         *)
DesignRaises(k) ==
  /\ OpportunityFree
  /\ k \in requested
  /\ ~Designed(k)
  /\ Delivery("design", k)
  /\ failing' = failing \cup {DesignOf(k)}
  /\ UNCHANGED <<catalogueVars, findings, versions, solution, nextAction,
                 requested, designing>>

-----------------------------------------------------------------------------
(* Matching, of whichever version the command names.                       *)

MatchAssets(v) ==
  /\ OpportunityFree
  /\ v \in DOMAIN versions
  /\ ~versions[v].matched
  /\ Delivery("match", v)
  /\ versions' = [versions EXCEPT ![v].matched = TRUE]
  /\ nextAction' = "review_solution"
  /\ UNCHANGED <<catalogueVars, findings, solution, requested, designing,
                 failing>>

MatchRaises(v) ==
  /\ v \in DOMAIN versions
  /\ ~versions[v].matched
  /\ Delivery("match", v)
  /\ failing' = failing \cup {PipelineOf(v)}
  /\ UNCHANGED <<catalogueVars, findings, versions, solution, nextAction,
                 requested, designing>>

(* mark_solution_failed.  A pipeline whose version has been matched is     *)
(* complete.                                                               *)
MarkSolutionFailed(p) ==
  /\ p \in failing
  /\ failing' = failing \ {p}
  /\ IF \E v \in DOMAIN versions : PipelineOf(v) = p /\ versions[v].matched
     THEN UNCHANGED nextAction
     ELSE OpportunityFree /\ nextAction' = "review_solution_failure"
  /\ UNCHANGED <<catalogueVars, findings, versions, solution, requested,
                 delivered, resent, designing>>

-----------------------------------------------------------------------------
(* People.                                                                 *)

(* create_edited_solution: of the current version, on its own inputs.      *)
EditSolution ==
  /\ OpportunityFree
  /\ solution.current # 0
  /\ LET source == versions[solution.current] IN
       CreateVersion(source.release, source.run, TRUE)
  /\ UNCHANGED <<catalogueVars, findings, workVars>>

(* approve_solution: the current version, once it is matched.              *)
ApproveSolution ==
  /\ OpportunityFree
  /\ solution.current # 0
  /\ versions[solution.current].matched
  /\ solution' = [solution EXCEPT !.approved = solution.current,
                                  !.status = "approved"]
  /\ nextAction' = "buyer_role_research"
  /\ UNCHANGED <<catalogueVars, findings, versions, workVars>>

-----------------------------------------------------------------------------
SolutionNext ==
  \/ ResearchMoves
  \/ \E r \in Releases : BeginActivation(r)
  \/ \E a \in activating : ActivateRelease(a)
  \/ \E k \in Keys :
       \/ RequestDesign(k)
       \/ BeginDesign(k)
       \/ FinishDesign(k)
       \/ DesignRolledBack(k)
       \/ DesignRaises(k)
  \/ \E p \in failing : MarkSolutionFailed(p)
  \/ \E v \in 1..MaxVersions : MatchAssets(v) \/ MatchRaises(v)
  \/ EditSolution
  \/ ApproveSolution

SolutionSpec == SolutionInit /\ [][SolutionNext]_solutionVars

-----------------------------------------------------------------------------
(* Properties.                                                             *)

(* The solution shown as approved is the one a person approved, which is   *)
(* the current one and had its assets matched; and contact research is the *)
(* next action of nothing else.  Whatever is edited, designed, matched     *)
(* late, marked failed or activated in between, an approval of another     *)
(* version never stands for this one (approve_solution,                    *)
(* _create_solution_version, invalidate_for_knowledge_release).            *)
ApprovalStands ==
  /\ solution.status = "approved" =>
       /\ solution.approved = solution.current
       /\ versions[solution.current].matched
  /\ nextAction = "buyer_role_research" => solution.status = "approved"

(* A version that a design writes is made from the research that is        *)
(* current when it is written, however late or often its command is        *)
(* delivered (execute_solution_design, request_standard_research).         *)
DesignsAreCurrent ==
  [][ designing # {} /\ versions' # versions
        => versions'[Len(versions')].run = findings.run ]_solutionVars

(* "Research or active-knowledge changes make dependent current outputs    *)
(* stale" (IMPLEMENTATION_STATUS.md:58): a current version that was made   *)
(* from other research than the completed current run, or from another     *)
(* release than the active one, says so.                                   *)
ChangesMakeStale ==
  LET v == versions[solution.current]
      changed == \/ findings.status = "complete" /\ v.run # findings.run
                 \/ v.release \notin release IN
  solution.current # 0 /\ changed => solution.status = "stale"
=============================================================================
