---------------------------- MODULE ContactRoutes ----------------------------
(***************************************************************************)
(* Contact research on one opportunity (apps/contacts): a run per approved *)
(* solution version infers buyer roles and scans registered pages of the   *)
(* company for routes; people add, review, suppress and select routes.     *)
(*                                                                         *)
(* A scan locks its target together with the run, the opportunity and the  *)
(* company until it commits, the fetch included, so scans are atomic.  A   *)
(* route is known by the HMAC of its address: once per company, but an     *)
(* entry of the suppression list holds for an address wherever it occurs.  *)
(***************************************************************************)
EXTENDS Naturals, FiniteSets

CONSTANTS
  MaxSolutions,     \* bound of the model: approved solution versions
  Pages,            \* official pages of the company
  PagesOf,          \* those among the sources of a version's research
  Addresses,        \* HMACs of addresses
  NullableLocks,    \* the database locks rows across a nullable join:
                    \* SQLite, which locks nothing; PostgreSQL refuses to
  MaxReplays        \* bound of the model: commands delivered again

Solutions == 1..MaxSolutions

ASSUME ContactAssumption ==
  /\ {MaxSolutions, MaxReplays} \subseteq Nat
  /\ PagesOf \in [Solutions -> SUBSET Pages]
  /\ NullableLocks \in BOOLEAN

VARIABLES
  approval,     \* the approved version and whether its state is APPROVED
  contactRun,   \* ContactResearchRun.status, by solution version
  pipelineRun,  \* PipelineRun.status of the run
  inferred,     \* runs with a BuyerRoleResult
  target,       \* ContactSourceTarget.status, by run and page
  route,        \* ContactRoute of the company, by address
  suppressed,   \* whether a SuppressionEntry names the address, and whose
  selections,   \* ContactSelection: route and solution version
  taken,        \* commands delivered: the run, and a page or the roles
  replays,
  spoiled       \* runs whose task has raised, to be marked failed

Roles == "roles"

peopleVars == <<approval, suppressed, selections>>
contactVars == <<approval, contactRun, pipelineRun, inferred, target, route,
                 suppressed, selections, taken, replays, spoiled>>

NoRoute == [role |-> 0, eligibility |-> "none", legal |-> "none"]

ContactInit ==
  /\ approval = [version |-> 0, approved |-> FALSE]
  /\ contactRun = [s \in Solutions |-> "absent"]
  /\ pipelineRun = [s \in Solutions |-> "absent"]
  /\ inferred = {}
  /\ target = [s \in Solutions |-> [p \in Pages |-> "none"]]
  /\ route = [a \in Addresses |-> NoRoute]
  /\ suppressed = [a \in Addresses |-> "no"]
  /\ selections = {}
  /\ taken = {}
  /\ replays = 0
  /\ spoiled = {}

RunBecomes(s, run, pipeline) ==
  /\ contactRun' = [contactRun EXCEPT ![s] = run]
  /\ pipelineRun' = [pipelineRun EXCEPT ![s] = pipeline]

(* A command reaches a worker, for the first time or again.                *)
Takes(s, command) ==
  /\ taken' = taken \cup {<<s, command>>}
  /\ IF taken' = taken
     THEN replays < MaxReplays /\ replays' = replays + 1
     ELSE UNCHANGED replays

Raises(s) == spoiled' = spoiled \cup {s}

-----------------------------------------------------------------------------
(* The solution (module SolutionDesign): a version is approved, the state  *)
(* leaves APPROVED for a newer version or a new release, or the version    *)
(* that a release made stale is approved again.                            *)
ApprovalMoves ==
  /\ \/ /\ approval.version < MaxSolutions
        /\ approval' = [version |-> approval.version + 1, approved |-> TRUE]
     \/ /\ approval.version # 0
        /\ approval' = [approval EXCEPT !.approved = ~@]
  /\ UNCHANGED <<contactRun, pipelineRun, inferred, target, route, suppressed,
                 selections, taken, replays, spoiled>>

(* request_contact_research: a version researched before returns its run.  *)
RequestContacts(s) ==
  /\ approval = [version |-> s, approved |-> TRUE]
  /\ contactRun[s] = "absent"
  /\ RunBecomes(s, "queued", "queued")
  /\ UNCHANGED <<peopleVars, inferred, target, route, taken, replays, spoiled>>

(* execute_buyer_role_inference: roles, and a target for each page.        *)
InferRoles(s) ==
  /\ contactRun[s] # "absent" /\ s \notin inferred
  /\ Takes(s, Roles)
  /\ inferred' = inferred \cup {s}
  /\ target' = [target EXCEPT ![s] =
                  [p \in Pages |-> IF p \in PagesOf[s] THEN "queued" ELSE "none"]]
  /\ IF PagesOf[s] = {} THEN RunBecomes(s, "complete", "complete")
                        ELSE RunBecomes(s, "running", "running")
  /\ UNCHANGED <<peopleVars, route, spoiled>>

InferenceRaises(s) ==
  /\ contactRun[s] # "absent" /\ s \notin inferred
  /\ Takes(s, Roles)
  /\ Raises(s)
  /\ UNCHANGED <<peopleVars, contactRun, pipelineRun, inferred, target, route>>

-----------------------------------------------------------------------------
(* Scans.                                                                  *)

(* _is_suppressed, for a route without a person, by its address.           *)
IsSuppressed(a) == suppressed[a] # "no"

(* _store_route: a route the company has already is left as it is.         *)
Stored(found, s) ==
  [a \in Addresses |->
     IF a \in found /\ route[a] = NoRoute
     THEN [role        |-> s,
           eligibility |-> IF IsSuppressed(a) THEN "suppressed" ELSE "unreviewed",
           legal       |-> "not_reviewed"]
     ELSE route[a]]

Scanned(statuses) == {p \in Pages : statuses[p] # "none"}
FailedPages(statuses) == {p \in Pages : statuses[p] = "failed"}

Summary(statuses) ==
  IF FailedPages(statuses) = {} THEN "complete"
  ELSE IF FailedPages(statuses) = Scanned(statuses) THEN "failed"
  ELSE "partial"

(* _settle_contact_run, once no target of the run is queued.               *)
Settle(s, statuses) ==
  IF \E p \in Pages : statuses[p] = "queued"
  THEN UNCHANGED <<contactRun, pipelineRun>>
  ELSE RunBecomes(s, Summary(statuses),
                  IF Summary(statuses) = "failed" THEN "failed" ELSE "complete")

TargetBecomes(s, p, status) ==
  /\ target' = [target EXCEPT ![s][p] = status]
  /\ Settle(s, target'[s])

(* _person_and_routes: what a page may yield.                              *)
RoutesOn(p) == SUBSET Addresses

(* execute_contact_source_scan.  The page is fetched and gives addresses,  *)
(* or fails in a way that is recorded.                                     *)
ScanPage(s, p) ==
  /\ target[s][p] = "queued"
  /\ Takes(s, p)
  /\ \/ /\ \E found \in RoutesOn(p) : route' = Stored(found, s)
        /\ TargetBecomes(s, p, "complete")
     \/ /\ TargetBecomes(s, p, "failed")
        /\ UNCHANGED route
  /\ UNCHANGED <<peopleVars, inferred, spoiled>>

(* Any other exception rolls the scan back: the time limit, or, when the   *)
(* scan of a failed target is delivered again, the step whose key exists.  *)
ScanRaises(s, p) ==
  /\ target[s][p] \in {"queued", "failed"}
  /\ Takes(s, p)
  /\ Raises(s)
  /\ UNCHANGED <<peopleVars, contactRun, pipelineRun, inferred, target, route>>

(* Mutant of HasEnded: whatever it is, the run fails.                      *)
NeverEnds(s) == pipelineRun[s] = "absent"

HasEnded(s) == pipelineRun[s] \in {"complete", "failed"}

(* mark_contact_pipeline_failed, in a transaction of its own.              *)
MarkContactFailed(s) ==
  /\ s \in spoiled
  /\ spoiled' = spoiled \ {s}
  /\ IF HasEnded(s) THEN UNCHANGED <<contactRun, pipelineRun>>
                    ELSE RunBecomes(s, "failed", "failed")
  /\ UNCHANGED <<peopleVars, inferred, target, route, taken, replays>>

-----------------------------------------------------------------------------
(* People.                                                                 *)

(* create_human_route, for a role of some run.                             *)
AddHumanRoute(a, s) ==
  /\ s \in inferred
  /\ route[a] = NoRoute
  /\ route' = Stored({a}, s)
  /\ UNCHANGED <<peopleVars, contactRun, pipelineRun, inferred, target, taken,
                 replays, spoiled>>

(* Mutant of Reviewed: the reviewer's decision is taken as it is.          *)
ReviewedAsDecided(a, eligibility) == eligibility

(* The suppression list is looked at again, under the route's lock.        *)
Reviewed(a, eligibility) ==
  IF IsSuppressed(a) THEN "suppressed" ELSE eligibility

(* review_contact_route.                                                   *)
ReviewRoute(a) ==
  /\ NullableLocks
  /\ route[a] # NoRoute
  /\ \E eligibility \in {"eligible_after_human_review", "blocked", "suppressed"} :
     \E legal \in {"approved", "blocked"} :
       route' = [route EXCEPT ![a].eligibility = Reviewed(a, eligibility),
                              ![a].legal = legal]
  /\ UNCHANGED <<peopleVars, contactRun, pipelineRun, inferred, target, taken,
                 replays, spoiled>>

(* add_suppression, of a route of the company: its mark follows.           *)
SuppressRoute(a) ==
  /\ route[a] # NoRoute
  /\ suppressed' = [suppressed EXCEPT ![a] = "here"]
  /\ route' = [route EXCEPT ![a].eligibility = "suppressed"]
  /\ UNCHANGED <<approval, selections, contactRun, pipelineRun, inferred,
                 target, taken, replays, spoiled>>

(* The same, of another company's route with that address.                 *)
SuppressElsewhere(a) ==
  /\ suppressed[a] = "no"
  /\ suppressed' = [suppressed EXCEPT ![a] = "elsewhere"]
  /\ UNCHANGED <<approval, selections, contactRun, pipelineRun, inferred,
                 target, route, taken, replays, spoiled>>

(* select_contact_route.  It reads the approval and the suppression list   *)
(* without locking them.  One step all the same: where it can run at all,  *)
(* under SQLite, a transaction cannot write once another one has committed *)
(* since its first read; PostgreSQL refuses its lock of the route.         *)
SelectRoute(a) ==
  /\ NullableLocks
  /\ route[a] # NoRoute
  /\ approval = [version |-> route[a].role, approved |-> TRUE]
  /\ ~IsSuppressed(a)
  /\ route[a].eligibility = "eligible_after_human_review"
  /\ route[a].legal = "approved"
  /\ selections' = selections \cup {<<a, approval.version>>}
  /\ UNCHANGED <<approval, suppressed, contactRun, pipelineRun, inferred,
                 target, route, taken, replays, spoiled>>

-----------------------------------------------------------------------------
ContactNext ==
  \/ ApprovalMoves
  \/ \E s \in Solutions :
       \/ RequestContacts(s)
       \/ InferRoles(s)
       \/ InferenceRaises(s)
       \/ MarkContactFailed(s)
       \/ \E p \in Pages : ScanPage(s, p) \/ ScanRaises(s, p)
       \/ \E a \in Addresses : AddHumanRoute(a, s)
  \/ \E a \in Addresses :
       \/ ReviewRoute(a)
       \/ SuppressRoute(a)
       \/ SuppressElsewhere(a)
       \/ SelectRoute(a)

ContactSpec == ContactInit /\ [][ContactNext]_contactVars

-----------------------------------------------------------------------------
(* Properties.                                                             *)

(* A run all of whose targets have settled says how they settled, whatever *)
(* is delivered again or raises before or after (_settle_contact_run,      *)
(* mark_contact_pipeline_failed).                                          *)
RunFollowsTargets ==
  \A s \in inferred :
    (\A p \in Pages : target[s][p] # "queued")
      => contactRun[s] = Summary(target[s])

(* "Suppression is synchronous": a route suppressed through the company    *)
(* keeps the mark that says so to whoever selects it, whichever scans find *)
(* the address again, whatever a later review decides, and whatever other  *)
(* companies' lists say (add_suppression, review_contact_route,            *)
(* _store_route).                                                          *)
SuppressedIsMarked ==
  \A a \in Addresses : suppressed[a] = "here" => route[a].eligibility = "suppressed"
=============================================================================
