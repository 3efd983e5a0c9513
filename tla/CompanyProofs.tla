---------------------------- MODULE CompanyProofs ----------------------------
(***************************************************************************)
(* Proofs about a company: its contact research (ContactRoutes), for any   *)
(* solutions, pages, addresses and replayed commands, and the enrichment   *)
(* of its profile (CompanyEnrichment), for any runs, deliveries, retries   *)
(* and lost workers.                                                       *)
(***************************************************************************)
EXTENDS ContactRoutes, CompanyEnrichment, TLAPS

-----------------------------------------------------------------------------
(* Contact research.                                                       *)

RunTypeInv ==
  /\ contactRun \in [Solutions -> {"absent", "queued", "running", "complete",
                                   "partial", "failed"}]
  /\ pipelineRun \in [Solutions -> {"absent", "queued", "running", "complete", "failed"}]
  /\ inferred \subseteq Solutions
  /\ spoiled \subseteq Solutions
  /\ target \in [Solutions -> [Pages -> {"none", "queued", "complete", "failed"}]]

(* A run with a result was requested; one whose targets have settled is    *)
(* over, so that a failure marked later finds it ended.                    *)
SettledRunHasEnded ==
  \A s \in inferred :
    /\ contactRun[s] # "absent"
    /\ (\A p \in Pages : target[s][p] # "queued") => HasEnded(s)

ContactInv == RunTypeInv /\ SettledRunHasEnded /\ RunFollowsTargets

(* Only these actions change a run or its targets.                         *)
LEMMA RunFrame ==
  ASSUME [ContactNext]_contactVars
  PROVE  \/ \E s \in Solutions :
              \/ RequestContacts(s)
              \/ InferRoles(s)
              \/ InferenceRaises(s)
              \/ MarkContactFailed(s)
              \/ \E p \in Pages : ScanPage(s, p) \/ ScanRaises(s, p)
         \/ UNCHANGED <<contactRun, pipelineRun, inferred, spoiled, target>>
<1>1. ASSUME NEW s \in Solutions, NEW a \in Addresses, AddHumanRoute(a, s)
      PROVE  UNCHANGED <<contactRun, pipelineRun, inferred, spoiled, target>>
  BY <1>1 DEF AddHumanRoute
<1>2. ASSUME NEW a \in Addresses,
             ReviewRoute(a) \/ SuppressRoute(a) \/ SuppressElsewhere(a) \/ SelectRoute(a)
      PROVE  UNCHANGED <<contactRun, pipelineRun, inferred, spoiled, target>>
  BY <1>2 DEF ReviewRoute, SuppressRoute, SuppressElsewhere, SelectRoute
<1>3. ASSUME ApprovalMoves \/ UNCHANGED contactVars
      PROVE  UNCHANGED <<contactRun, pipelineRun, inferred, spoiled, target>>
  BY <1>3 DEF ApprovalMoves, contactVars
<1>4. QED
  BY <1>1, <1>2, <1>3 DEF ContactNext

(* The summary is one of the three ways a run settles.                     *)
LEMMA SummaryType ==
  ASSUME NEW statuses
  PROVE  Summary(statuses) \in {"complete", "partial", "failed"}
BY DEF Summary

(* A page of a run settles, and with the last one the run.                 *)
LEMMA TargetStep ==
  ASSUME ContactInv, NEW s \in Solutions, NEW p \in Pages,
         target[s][p] = "queued",
         NEW status \in {"complete", "failed"},
         TargetBecomes(s, p, status),
         UNCHANGED <<inferred, spoiled>>
  PROVE  ContactInv'
<1> USE DEF ContactInv, RunTypeInv
<1>1. /\ target' \in [Solutions -> [Pages -> {"none", "queued", "complete", "failed"}]]
      /\ \A t \in Solutions \ {s} : target'[t] = target[t]
  BY DEF TargetBecomes
<1>2. Settle(s, target'[s])
  BY DEF TargetBecomes
<1>3. CASE \E q \in Pages : target'[s][q] = "queued"
  <2>1. UNCHANGED <<contactRun, pipelineRun>>
    BY <1>2, <1>3 DEF Settle
  <2>2. SettledRunHasEnded'
    <3> SUFFICES ASSUME NEW t \in inferred
                 PROVE  /\ contactRun[t] # "absent"
                        /\ (\A q \in Pages : target'[t][q] # "queued") => HasEnded(t)'
      BY <2>1 DEF SettledRunHasEnded
    <3>1. CASE t = s
      BY <1>3, <3>1 DEF SettledRunHasEnded
    <3>2. CASE t # s
      BY <1>1, <2>1, <3>2 DEF SettledRunHasEnded, HasEnded
    <3>3. QED
      BY <3>1, <3>2
  <2>3. RunFollowsTargets'
    <3> SUFFICES ASSUME NEW t \in inferred,
                        \A q \in Pages : target'[t][q] # "queued"
                 PROVE  contactRun[t] = Summary(target'[t])
      BY <2>1 DEF RunFollowsTargets
    <3>1. t # s
      BY <1>3
    <3>2. target'[t] = target[t]
      BY <1>1, <3>1
    <3>3. QED
      BY <3>2 DEF RunFollowsTargets
  <2>4. QED
    BY <1>1, <2>1, <2>2, <2>3
<1>4. CASE ~(\E q \in Pages : target'[s][q] = "queued")
  <2> DEFINE end == IF Summary(target'[s]) = "failed" THEN "failed" ELSE "complete"
  <2>1. RunBecomes(s, Summary(target'[s]), end)
    BY <1>2, <1>4 DEF Settle
  <2> HIDE DEF end
  <2>2. end \in {"complete", "failed"}
    BY DEF end
  <2>3. /\ contactRun'[s] = Summary(target'[s])
        /\ pipelineRun'[s] = end
        /\ \A t \in Solutions \ {s} : /\ contactRun'[t] = contactRun[t]
                                      /\ pipelineRun'[t] = pipelineRun[t]
        /\ RunTypeInv'
    BY <1>1, <2>1, <2>2, SummaryType DEF RunBecomes
  <2>4. SettledRunHasEnded'
    BY <1>1, <2>2, <2>3, SummaryType DEF SettledRunHasEnded, HasEnded
  <2>5. RunFollowsTargets'
    BY <1>1, <2>3 DEF RunFollowsTargets
  <2>6. QED
    BY <2>3, <2>4, <2>5
<1>5. QED
  BY <1>3, <1>4

(* Every other step keeps a settled run as its targets say: roles are      *)
(* inferred once, a scan needs a queued page, and a failure marked late    *)
(* finds the run ended.                                                    *)
LEMMA ContactStep ==
  ASSUME ContactAssumption, ContactInv, [ContactNext]_contactVars
  PROVE  ContactInv'
<1> USE DEF ContactInv, RunTypeInv
<1>1. ASSUME NEW s \in Solutions, RequestContacts(s)
      PROVE  ContactInv'
  <2>1. s \notin inferred
    BY <1>1 DEF RequestContacts, SettledRunHasEnded
  <2>2. /\ \A t \in Solutions \ {s} :
             contactRun'[t] = contactRun[t] /\ pipelineRun'[t] = pipelineRun[t]
        /\ UNCHANGED <<inferred, spoiled, target>>
        /\ RunTypeInv'
    BY <1>1 DEF RequestContacts, RunBecomes
  <2>3. SettledRunHasEnded'
    BY <2>1, <2>2 DEF SettledRunHasEnded, HasEnded
  <2>4. RunFollowsTargets'
    BY <2>1, <2>2 DEF RunFollowsTargets
  <2>5. QED
    BY <2>2, <2>3, <2>4
<1>2. ASSUME NEW s \in Solutions, InferRoles(s)
      PROVE  ContactInv'
  <2> DEFINE statuses == [p \in Pages |-> IF p \in PagesOf[s] THEN "queued" ELSE "none"]
             end == IF PagesOf[s] = {} THEN "complete" ELSE "running"
  <2>1. /\ s \notin inferred
        /\ inferred' = inferred \cup {s}
        /\ target' = [target EXCEPT ![s] = statuses]
        /\ RunBecomes(s, end, end)
        /\ UNCHANGED spoiled
    BY <1>2 DEF InferRoles
  <2>2. statuses \in [Pages -> {"none", "queued", "complete", "failed"}]
    OBVIOUS
  <2>3. end \in {"complete", "running"}
    OBVIOUS
  <2>4. CASE PagesOf[s] # {}
    <3>1. PICK q \in Pages : statuses[q] = "queued"
      BY <2>4 DEF ContactAssumption
    <3> HIDE DEF statuses, end
    <3>2. /\ target'[s] = statuses
          /\ contactRun'[s] = end
          /\ \A t \in Solutions \ {s} : /\ contactRun'[t] = contactRun[t]
                                        /\ pipelineRun'[t] = pipelineRun[t]
                                        /\ target'[t] = target[t]
          /\ RunTypeInv'
      BY <2>1, <2>2, <2>3 DEF RunBecomes
    <3>3. SettledRunHasEnded'
      BY <2>1, <2>3, <3>1, <3>2 DEF SettledRunHasEnded, HasEnded
    <3>4. RunFollowsTargets'
      BY <2>1, <3>1, <3>2 DEF RunFollowsTargets
    <3>5. QED
      BY <3>2, <3>3, <3>4
  <2>5. CASE PagesOf[s] = {}
    <3>1. /\ end = "complete"
          /\ FailedPages(statuses) = {}
      BY <2>5 DEF FailedPages
    <3> HIDE DEF statuses, end
    <3>2. /\ target'[s] = statuses
          /\ contactRun'[s] = "complete"
          /\ pipelineRun'[s] = "complete"
          /\ \A t \in Solutions \ {s} : /\ contactRun'[t] = contactRun[t]
                                        /\ pipelineRun'[t] = pipelineRun[t]
                                        /\ target'[t] = target[t]
          /\ RunTypeInv'
      BY <2>1, <2>2, <3>1 DEF RunBecomes
    <3>3. Summary(target'[s]) = "complete"
      <4>1. Summary(statuses) = "complete"
        BY <3>1 DEF Summary
      <4>2. QED
        BY <3>2, <4>1
    <3>4. SettledRunHasEnded'
      BY <2>1, <3>2 DEF SettledRunHasEnded, HasEnded
    <3>5. RunFollowsTargets'
      BY <2>1, <3>2, <3>3 DEF RunFollowsTargets
    <3>6. QED
      BY <3>2, <3>4, <3>5
  <2>6. QED
    BY <2>4, <2>5
<1>3. ASSUME NEW s \in Solutions,
             InferenceRaises(s) \/ \E p \in Pages : ScanRaises(s, p)
      PROVE  ContactInv'
  <2>1. /\ spoiled' = spoiled \cup {s}
        /\ UNCHANGED <<contactRun, pipelineRun, inferred, target>>
    BY <1>3 DEF InferenceRaises, ScanRaises, Raises
  <2>2. QED
    BY <2>1 DEF SettledRunHasEnded, RunFollowsTargets, HasEnded
<1>4. ASSUME NEW s \in Solutions, MarkContactFailed(s)
      PROVE  ContactInv'
  <2>1. UNCHANGED <<inferred, target>> /\ spoiled' \subseteq spoiled
    BY <1>4 DEF MarkContactFailed
  <2>2. CASE HasEnded(s)
    <3>1. UNCHANGED <<contactRun, pipelineRun>>
      BY <1>4, <2>2 DEF MarkContactFailed
    <3>2. QED
      BY <2>1, <3>1 DEF SettledRunHasEnded, RunFollowsTargets, HasEnded
  <2>3. CASE ~HasEnded(s)
    <3>1. /\ contactRun'[s] = "failed" /\ pipelineRun'[s] = "failed"
          /\ \A t \in Solutions \ {s} : /\ contactRun'[t] = contactRun[t]
                                        /\ pipelineRun'[t] = pipelineRun[t]
          /\ RunTypeInv'
      BY <1>4, <2>1, <2>3 DEF MarkContactFailed, RunBecomes
    <3>2. s \in inferred => \E p \in Pages : target[s][p] = "queued"
      BY <2>3 DEF SettledRunHasEnded
    <3>3. SettledRunHasEnded'
      BY <2>1, <3>1 DEF SettledRunHasEnded, HasEnded
    <3>4. RunFollowsTargets'
      BY <2>1, <3>1, <3>2 DEF RunFollowsTargets
    <3>5. QED
      BY <3>1, <3>3, <3>4
  <2>4. QED
    BY <2>2, <2>3
<1>5. ASSUME NEW s \in Solutions, NEW p \in Pages, ScanPage(s, p)
      PROVE  ContactInv'
  <2>1. /\ target[s][p] = "queued"
        /\ \E status \in {"complete", "failed"} : TargetBecomes(s, p, status)
        /\ UNCHANGED <<inferred, spoiled>>
    BY <1>5 DEF ScanPage
  <2>2. QED
    BY <2>1, TargetStep
<1>6. CASE UNCHANGED <<contactRun, pipelineRun, inferred, spoiled, target>>
  BY <1>6 DEF SettledRunHasEnded, RunFollowsTargets, HasEnded
<1>7. QED
  BY <1>1, <1>2, <1>3, <1>4, <1>5, <1>6, RunFrame

(* Whatever is delivered again or raises, in whatever order, a run whose   *)
(* targets have settled says how they settled (_settle_contact_run,        *)
(* mark_contact_pipeline_failed).                                          *)
THEOREM RunsFollowTargets == ContactSpec => []RunFollowsTargets
<1>1. ContactInit => ContactInv
  BY DEF ContactInit, ContactInv, RunTypeInv, SettledRunHasEnded, RunFollowsTargets
<1>2. ContactInv /\ [ContactNext]_contactVars => ContactInv'
  BY ContactStep, ContactAssumption
<1>3. ContactInv => RunFollowsTargets
  BY DEF ContactInv
<1>4. QED
  BY <1>1, <1>2, <1>3, PTL DEF ContactSpec

-----------------------------------------------------------------------------
(* Suppression.                                                            *)

SuppressionInv ==
  /\ suppressed \in [Addresses -> {"no", "elsewhere", "here"}]
  /\ DOMAIN route = Addresses
  /\ \A a \in Addresses : DOMAIN route[a] = {"role", "eligibility", "legal"}
  /\ SuppressedIsMarked

LEMMA SuppressionStep ==
  ASSUME SuppressionInv, [ContactNext]_contactVars
  PROVE  SuppressionInv'
<1> USE DEF SuppressionInv, SuppressedIsMarked
<1>1. ASSUME NEW found, NEW s, route' = Stored(found, s), UNCHANGED suppressed
      PROVE  SuppressionInv'
  BY <1>1 DEF Stored, NoRoute
<1>2. ASSUME UNCHANGED <<route, suppressed>> PROVE SuppressionInv'
  BY <1>2
<1>3. ASSUME NEW s \in Solutions,
             \/ RequestContacts(s)
             \/ InferRoles(s)
             \/ InferenceRaises(s)
             \/ MarkContactFailed(s)
             \/ \E p \in Pages : ScanPage(s, p) \/ ScanRaises(s, p)
             \/ \E a \in Addresses : AddHumanRoute(a, s)
      PROVE  SuppressionInv'
  <2>1. \/ UNCHANGED <<route, suppressed>>
        \/ UNCHANGED suppressed /\ \E found : route' = Stored(found, s)
    BY <1>3 DEF RequestContacts, InferRoles, InferenceRaises, MarkContactFailed,
       ScanPage, ScanRaises, AddHumanRoute, peopleVars
  <2>2. QED
    BY <1>1, <1>2, <2>1
<1>4. ASSUME NEW a \in Addresses, ReviewRoute(a) PROVE SuppressionInv'
  <2>1. PICK mark, legal :
          /\ route' = [route EXCEPT ![a].eligibility = Reviewed(a, mark),
                                    ![a].legal = legal]
          /\ UNCHANGED suppressed
    BY <1>4 DEF ReviewRoute, peopleVars
  <2>2. suppressed[a] = "here" => Reviewed(a, mark) = "suppressed"
    BY DEF Reviewed, IsSuppressed
  <2>3. QED
    BY <2>1, <2>2
<1>5. ASSUME NEW a \in Addresses, SuppressRoute(a) PROVE SuppressionInv'
  BY <1>5 DEF SuppressRoute
<1>6. ASSUME NEW a \in Addresses, SuppressElsewhere(a) PROVE SuppressionInv'
  BY <1>6 DEF SuppressElsewhere
<1>7. QED
  BY <1>2, <1>3, <1>4, <1>5, <1>6 DEF ContactNext, ApprovalMoves, SelectRoute, contactVars

(* Once suppressed through a route of the company, an address keeps its    *)
(* mark, whichever scans, reviews and entries of other companies follow    *)
(* (add_suppression, review_contact_route, _store_route).                  *)
THEOREM SuppressionStays == ContactSpec => []SuppressedIsMarked
<1>1. ContactInit => SuppressionInv
  BY DEF ContactInit, SuppressionInv, SuppressedIsMarked, NoRoute
<1>2. SuppressionInv => SuppressedIsMarked
  BY DEF SuppressionInv
<1>3. QED
  BY <1>1, <1>2, SuppressionStep, PTL DEF ContactSpec

-----------------------------------------------------------------------------
(* Enrichment.                                                             *)

EnrichmentInv ==
  /\ profile \in [ProfileRuns -> {"absent", "queued", "running", "failed"} \cup Done]
  /\ running \in [ProfileRuns -> Nat]
  /\ StepsFollowRun

(* A run's status and its steps change together.                           *)
LEMMA EnrichmentStep ==
  ASSUME CompanyAssumption, EnrichmentInv, [EnrichmentNext]_enrichmentVars
  PROVE  EnrichmentInv'
<1> USE DEF CompanyAssumption
<1>1. CASE UNCHANGED <<profile, running>>
  BY <1>1 DEF EnrichmentInv, StepsFollowRun
<1>2. ASSUME NEW r \in ProfileRuns, ScheduleEnrichment(r)
      PROVE  EnrichmentInv'
  BY <1>2 DEF ScheduleEnrichment, EnrichmentInv, StepsFollowRun
<1>3. ASSUME NEW d \in Tasks, BeginEnrichment(d)
      PROVE  EnrichmentInv'
  <2>1. /\ profile' = [profile EXCEPT ![RunOf[d]] = "running"]
        /\ running' = [running EXCEPT ![RunOf[d]] = running[RunOf[d]] + 1]
    BY <1>3 DEF BeginEnrichment
  <2>2. running[RunOf[d]] + 1 \in Nat /\ running[RunOf[d]] + 1 > 0
    BY DEF EnrichmentInv
  <2>3. QED
    BY <2>1, <2>2 DEF EnrichmentInv, StepsFollowRun
<1>4. ASSUME NEW d \in Tasks, CompleteEnrichment(d)
      PROVE  EnrichmentInv'
  <2>1. PICK status \in Done : profile' = [profile EXCEPT ![RunOf[d]] = status]
    BY <1>4 DEF CompleteEnrichment
  <2>2. running' = [running EXCEPT ![RunOf[d]] = 0]
    BY <1>4 DEF CompleteEnrichment
  <2>3. status # "running" /\ ~(0 > 0)
    BY DEF Done
  <2>4. QED
    BY <2>1, <2>2, <2>3 DEF EnrichmentInv, StepsFollowRun
<1>5. ASSUME NEW d \in Tasks, FailRetryable(d) \/ FailForGood(d) \/ MarkExhausted(d),
             ~(UNCHANGED <<profile, running>>)
      PROVE  EnrichmentInv'
  <2>1. \E status \in {"queued", "failed"} : RecordFailure(d, status)
    BY <1>5 DEF FailRetryable, FailForGood, MarkExhausted
  <2>2. PICK status \in {"queued", "failed"} :
          /\ profile' = [profile EXCEPT ![RunOf[d]] = status]
          /\ running' = [running EXCEPT ![RunOf[d]] = 0]
    BY <2>1 DEF RecordFailure, StepsAfterFailure
  <2>3. QED
    BY <2>2 DEF EnrichmentInv, StepsFollowRun
<1>6. ASSUME NEW v \in Names \cup {Unknown}, EditName(v)
      PROVE  UNCHANGED <<profile, running>>
  BY <1>6 DEF EditName
<1>7. ASSUME NEW d \in Tasks,
             \/ DeliverEnrichment(d) \/ SkipEnrichment(d) \/ CompletionRaises(d)
             \/ FindExhausted(d) \/ EnricherLost(d) \/ EnricherTimesOut(d)
      PROVE  UNCHANGED <<profile, running>>
  BY <1>7 DEF DeliverEnrichment, SkipEnrichment, CompletionRaises, FindExhausted,
     EnricherLost, EnricherTimesOut
<1>8. QED
  BY <1>1, <1>2, <1>3, <1>4, <1>5, <1>6, <1>7 DEF EnrichmentNext, enrichmentVars

(* For any number of deliveries, retries and lost workers, a profile run   *)
(* has steps under way exactly while it runs (_begin_enrichment,           *)
(* _complete_enrichment, _record_failure).                                 *)
THEOREM StepsFollow == EnrichmentSpec => []StepsFollowRun
<1>1. CompanyInit => EnrichmentInv
  BY DEF CompanyInit, EnrichmentInv, StepsFollowRun
<1>2. EnrichmentInv /\ [EnrichmentNext]_enrichmentVars => EnrichmentInv'
  BY EnrichmentStep, CompanyAssumption
<1>3. EnrichmentInv => StepsFollowRun
  BY DEF EnrichmentInv
<1>4. QED
  BY <1>1, <1>2, <1>3, PTL DEF EnrichmentSpec
=============================================================================
