----------------------------- MODULE SignalChain -----------------------------
(***************************************************************************)
(* From the changes of a company's postings to its opportunity             *)
(* (apps/signals, apps/opportunities): detection of signals in a change    *)
(* event, classification of a signal, retraction and override by a person, *)
(* and the aggregation of the company's assessments into one opportunity.  *)
(*                                                                         *)
(* Each handler is one transaction and schedules the next one in it.  Its  *)
(* command is delivered at least once: a worker lost after the commit      *)
(* leaves the message in the inbox.  A transaction that rolls back (an     *)
(* OperationalError, a lost worker) changes nothing and is tried again; at *)
(* the last retry, or at the hard time limit, the message is gone with     *)
(* nothing recorded.  An event yields at most one signal, whose type       *)
(* follows from the event.                                                 *)
(*                                                                         *)
(* Detections of one event lock rows of their own, so that two of them may *)
(* run at once, each without the other's uncommitted signal (PostgreSQL,   *)
(* READ COMMITTED): a detection is two actions here.  Classifications lock *)
(* the signal, aggregations the company.                                   *)
(***************************************************************************)
EXTENDS Naturals, FiniteSets

CONSTANTS
  Events,        \* eligible posting change events of one company
  Versions,      \* values of DETECTOR_VERSION, 1 the first deployed
  Ontologies,    \* values of ONTOLOGY_VERSION, 1 the first deployed
  Detects,       \* pairs <<event, version>> in which the rules find a signal
  MaxAttempts,   \* bound of the model: detections scheduled
  MaxFaults,     \* bound of the model: handlers ended by an exception and
                 \* workers lost after a commit
  MaxDecisions   \* bound of the model: overrides and merge reviews

Policies == Versions \X Ontologies
Results == Events \X Policies     \* attempts, and keys of signals
Causes == {"classified", "retracted", "overridden"}
Qualifications == {"watchlist", "research_eligible"}

ASSUME SignalChainAssumption ==
  /\ Versions \cup Ontologies \subseteq Nat /\ 1 \in Versions \cap Ontologies
  /\ Detects \subseteq Events \X Versions
  /\ {MaxAttempts, MaxFaults, MaxDecisions} \subseteq Nat

VARIABLES
  deployed,     \* DETECTOR_VERSION and ONTOLOGY_VERSION of the running code
  attempt,      \* SignalDetectionAttempt.status of an event and policy
  detecting,    \* detections under way: what they have inserted and read
  overlaps,     \* attempts of one event that were under way together (history)
  signal,       \* SignalEvent: status, and the review state if retracted
  owner,        \* the policy of the attempt that created a signal
  assessment,   \* SignalAssessment.status of a signal
  aggregation,  \* status of the aggregation run of a cause
  snapshot,     \* signals an aggregation under way has read
  selected,     \* selected_signal_ids of the last CompanyAssessment
  opportunity,  \* qualification of the active Opportunity, or "none"
  override,     \* its latest QualificationOverride, or "none"
  ambiguous,    \* the company awaits a merge review
  inbox,        \* commands published and not acknowledged
  stranded,     \* commands acknowledged with nothing done and no failure
                \* recorded
  faults, decisions

detectionVars == <<deployed, attempt, detecting, overlaps, signal, owner>>
opportunityVars == <<aggregation, snapshot, selected, opportunity, override>>
faultVars == <<stranded, faults, decisions>>
chainVars == <<detectionVars, assessment, opportunityVars, ambiguous, inbox,
               faultVars>>

Aggregations == [kind : Causes, of : Results]
Commands == Aggregations \cup [kind : {"detect", "classify"}, of : Results]

ChainInit ==
  /\ deployed = <<1, 1>>
  /\ attempt = [r \in Results |-> "absent"]
  /\ detecting = {} /\ overlaps = {}
  /\ signal = [r \in Results |-> "absent"]
  /\ owner = [r \in Results |-> r[2]]
  /\ assessment = [r \in Results |-> "absent"]
  /\ aggregation = [c \in Aggregations |-> "absent"]
  /\ snapshot = [c \in Aggregations |-> {}]
  /\ selected = {}
  /\ opportunity = "none" /\ override = "none"
  /\ ambiguous \in BOOLEAN
  /\ inbox = {} /\ stranded = {}
  /\ faults = 0 /\ decisions = 0

Command(kind, r) == [kind |-> kind, of |-> r]

(* The transaction of c commits and publishes new; then the message is     *)
(* acknowledged, or its worker is lost and it is delivered again.          *)
Handles(c, new) ==
  /\ UNCHANGED <<stranded, decisions>>
  /\ \/ /\ inbox' = (inbox \ {c}) \cup new
        /\ UNCHANGED faults
     \/ /\ faults < MaxFaults
        /\ faults' = faults + 1
        /\ inbox' = inbox \cup new

(* The handler of c ends by an exception: the failure is recorded and the  *)
(* message acknowledged.                                                   *)
GivesUp(c) ==
  /\ faults < MaxFaults
  /\ faults' = faults + 1
  /\ inbox' = inbox \ {c}
  /\ UNCHANGED <<stranded, decisions>>

-----------------------------------------------------------------------------
(* Detection.                                                              *)

(* Other rules, another ontology, or both.                                 *)
Deploy ==
  /\ \E p \in Policies :
       /\ p # deployed /\ p[1] >= deployed[1] /\ p[2] >= deployed[2]
       /\ deployed' = p
  /\ UNCHANGED <<attempt, detecting, overlaps, signal, owner, assessment, opportunityVars,
                 ambiguous, inbox, faultVars>>

(* The key of the command does not name the ontology.                      *)
CommandExists(e, version) ==
  \E o \in Ontologies : attempt[<<e, <<version, o>>>>] # "absent"

(* A change event was recorded, or a backfill found it.  The attempt of    *)
(* another ontology alone finds the command there, for the first attempt.  *)
ScheduleDetection(e) ==
  LET a == <<e, deployed>> IN
  /\ attempt[a] = "absent"
  /\ Cardinality({r \in Results : attempt[r] # "absent"}) < MaxAttempts
  /\ attempt' = [attempt EXCEPT ![a] = "queued"]
  /\ inbox' = inbox \cup (IF CommandExists(e, deployed[1]) THEN {}
                          ELSE {Command("detect", a)})
  /\ UNCHANGED <<deployed, detecting, overlaps, signal, owner, assessment,
                 opportunityVars, ambiguous, faultVars>>

Detected(a) == attempt[a] \in {"complete", "no_signal"}

(* The detections under way of the same event.                             *)
Beside(a) == {d \in detecting : d.of[1] = a[1]}

(* Mutant of PriorOf: only signals of the same policy are looked at.       *)
PriorOfPolicy(a) ==
  {s \in Results : s = a /\ signal[s] = "active" /\ owner[s] # a[2]}

(* Active signals of the same event that another attempt created.          *)
PriorOf(a) ==
  {s \in Results : s[1] = a[1] /\ signal[s] = "active" /\ owner[s] # a[2]}

(* The signal's key takes the detector version of the running code, which  *)
(* need not be the attempt's, and the ontology of the attempt.             *)
SignalKey(a) == <<a[1], <<deployed[1], a[2][2]>>>>

(* detect_signal: the rules of the running code, and thresholds, find a    *)
(* signal.                                                                 *)
Found(a) == <<a[1], deployed[1]>> \in Detects

(* A key that another transaction has inserted is waited for.              *)
KeyFree(s) ==
  signal[s] = "absent" => \A d \in detecting : ~(d.found /\ d.key = s)

(* execute_signal_detection up to its query of the event's other signals:  *)
(* run and attempt are locked, the signal is inserted, not committed.      *)
ReadSignals(c) ==
  LET a == c.of IN
  /\ c.kind = "detect"
  /\ ~Detected(a)
  /\ \A d \in detecting : d.of # a
  /\ Found(a) => KeyFree(SignalKey(a))
  /\ detecting' = detecting \cup {[of |-> a, key |-> SignalKey(a), found |-> Found(a),
                                   seen |-> PriorOf(a)]}
  /\ overlaps' = overlaps \cup {{a, d.of} : d \in Beside(a)}
  /\ UNCHANGED <<deployed, attempt, signal, owner, assessment, opportunityVars,
                 ambiguous, inbox, faultVars>>

(* Rows locked by the query are read again: those no longer active are     *)
(* left alone.                                                             *)
Superseded(d) == {r \in d.seen : signal[r] = "active"}

(* schedule_signal_classification: once per signal.                        *)
NeedsClassification(s) == signal'[s] = "active" /\ assessment[s] = "absent"

(* The rest of it, to the commit.  A signal that had the key already is    *)
(* kept as it is, and superseded with the others when another attempt      *)
(* created it.                                                             *)
CommitDetection(d) ==
  LET a == d.of
      c == Command("detect", a)
      new == d.found /\ signal[d.key] = "absent"
  IN
  /\ detecting' = detecting \ {d}
  /\ attempt' = [attempt EXCEPT ![a] = IF d.found THEN "complete" ELSE "no_signal"]
  /\ signal' = [r \in Results |-> IF r \in Superseded(d) THEN "superseded"
                                  ELSE IF new /\ r = d.key THEN "active"
                                  ELSE signal[r]]
  /\ owner' = IF new THEN [owner EXCEPT ![d.key] = a[2]] ELSE owner
  /\ IF d.found /\ NeedsClassification(d.key)
     THEN /\ assessment' = [assessment EXCEPT ![d.key] = "queued"]
          /\ Handles(c, {Command("classify", d.key)})
     ELSE /\ UNCHANGED assessment
          /\ Handles(c, {})
  /\ UNCHANGED <<deployed, overlaps, opportunityVars, ambiguous>>

(* The detection a message commands, if it is under way, is rolled back.   *)
RollsBack(c) == detecting' = {d \in detecting : Command("detect", d.of) # c}

(* mark_detection_failed.                                                  *)
DetectionFails(c) ==
  /\ c.kind = "detect"
  /\ ~Detected(c.of)
  /\ attempt' = [attempt EXCEPT ![c.of] = "failed"]
  /\ RollsBack(c)
  /\ GivesUp(c)
  /\ UNCHANGED <<deployed, overlaps, signal, owner, assessment, opportunityVars,
                 ambiguous>>

-----------------------------------------------------------------------------
(* Aggregations are scheduled once per cause.                              *)

Scheduled(cause) ==
  [aggregation EXCEPT ![cause] = IF @ = "absent" THEN "queued" ELSE @]

New(cause) == IF aggregation[cause] = "absent" THEN {cause} ELSE {}

-----------------------------------------------------------------------------
(* Classification.                                                         *)

Classified(s) == assessment[s] \in {"completed", "superseded"}

(* A signal retracted meanwhile leaves its assessment superseded.          *)
ExecuteClassification(c) ==
  LET s == c.of
      cause == Command("classified", s)
  IN
  /\ c.kind = "classify"
  /\ ~Classified(s)
  /\ \/ /\ signal[s] = "active"
        /\ assessment' = [assessment EXCEPT ![s] = "completed"]
        /\ aggregation' = Scheduled(cause)
        /\ Handles(c, New(cause))
     \/ /\ signal[s] # "active"
        /\ assessment' = [assessment EXCEPT ![s] = "superseded"]
        /\ Handles(c, {})
        /\ UNCHANGED aggregation
  /\ UNCHANGED <<detectionVars, snapshot, selected, opportunity, override,
                 ambiguous>>

(* mark_classification_failed.                                             *)
ClassificationFails(c) ==
  /\ c.kind = "classify"
  /\ ~Classified(c.of)
  /\ assessment' = [assessment EXCEPT ![c.of] = "failed"]
  /\ GivesUp(c)
  /\ UNCHANGED <<detectionVars, opportunityVars, ambiguous>>

(* A person corrects the mode of a current assessment.                     *)
OverrideAssessmentMode(s) ==
  LET cause == Command("overridden", s) IN
  /\ assessment[s] = "completed"
  /\ aggregation[cause] = "absent"
  /\ decisions < MaxDecisions
  /\ decisions' = decisions + 1
  /\ aggregation' = Scheduled(cause)
  /\ inbox' = inbox \cup {cause}
  /\ UNCHANGED <<detectionVars, assessment, snapshot, selected, opportunity,
                 override, ambiguous, stranded, faults>>

(* A person retracts a false positive; only one that has been assessed     *)
(* needs a new aggregation.                                                *)
RetractSignal(s) ==
  LET cause == Command("retracted", s) IN
  /\ signal[s] = "active"
  /\ signal' = [signal EXCEPT ![s] = "false_positive"]
  /\ IF assessment[s] = "completed"
     THEN aggregation' = Scheduled(cause) /\ inbox' = inbox \cup New(cause)
     ELSE UNCHANGED <<aggregation, inbox>>
  /\ UNCHANGED <<deployed, attempt, detecting, overlaps, owner, assessment,
                 snapshot, selected, opportunity, override, ambiguous, faultVars>>

-----------------------------------------------------------------------------
(* Aggregation.                                                            *)

(* Mutant of CompanyFree: the company's row is not locked.                 *)
CompanyUnlocked(c) == aggregation[c] # "reading"

(* The company's row is locked while an aggregation is under way.          *)
CompanyFree(c) == \A d \in Aggregations : aggregation[d] # "reading"

(* The aggregation locks its run and the company, and reads the completed  *)
(* assessments of active signals.                                          *)
ReadAssessments(c) ==
  /\ c.kind \in Causes
  /\ aggregation[c] \in {"queued", "failed"}
  /\ CompanyFree(c)
  /\ aggregation' = [aggregation EXCEPT ![c] = "reading"]
  /\ snapshot' = [snapshot EXCEPT ![c] =
                    {s \in Results : signal[s] = "active" /\ assessment[s] = "completed"}]
  /\ UNCHANGED <<detectionVars, assessment, selected, opportunity, override,
                 ambiguous, inbox, faultVars>>

(* Mutant of Requalified: the computed qualification always replaces.      *)
RequalifiedAsComputed(computed) == computed

(* The latest decision of a person outranks the computed qualification.    *)
Requalified(computed) ==
  IF opportunity # "none" /\ override # "none" THEN override ELSE computed

(* An ambiguous company gets an assessment and keeps its opportunity as it *)
(* is; one without assessments loses it, and the next one is a new row.    *)
CommitAggregation(c) ==
  /\ c.kind \in Causes
  /\ aggregation[c] = "reading"
  /\ aggregation' = [aggregation EXCEPT ![c] = "complete"]
  /\ selected' = snapshot[c]
  /\ snapshot' = [snapshot EXCEPT ![c] = {}]
  /\ \/ /\ snapshot[c] # {} /\ ~ambiguous
        /\ \E computed \in Qualifications : opportunity' = Requalified(computed)
        /\ UNCHANGED override
     \/ snapshot[c] # {} /\ ambiguous /\ UNCHANGED <<opportunity, override>>
     \/ snapshot[c] = {} /\ opportunity' = "none" /\ override' = "none"
  /\ Handles(c, {})
  /\ UNCHANGED <<detectionVars, assessment, ambiguous>>

(* The transaction rolls back and mark_aggregation_failed records it.      *)
AggregationFails(c) ==
  /\ c.kind \in Causes
  /\ aggregation[c] = "reading"
  /\ aggregation' = [aggregation EXCEPT ![c] = "failed"]
  /\ snapshot' = [snapshot EXCEPT ![c] = {}]
  /\ GivesUp(c)
  /\ UNCHANGED <<detectionVars, assessment, selected, opportunity, override,
                 ambiguous>>

EffectRecorded(c) ==
  \/ c.kind = "detect" /\ Detected(c.of)
  \/ c.kind = "classify" /\ Classified(c.of)
  \/ c.kind \in Causes /\ aggregation[c] = "complete"

(* The last retry raises an OperationalError again, or the worker's hard   *)
(* time limit ends the task: the transaction is rolled back, the message   *)
(* acknowledged, and no failure recorded.                                  *)
GoesUnrecorded(c) ==
  /\ ~EffectRecorded(c)
  /\ faults < MaxFaults
  /\ faults' = faults + 1
  /\ inbox' = inbox \ {c}
  /\ stranded' = stranded \cup {c}
  /\ RollsBack(c)
  /\ IF c \in Aggregations /\ aggregation[c] = "reading"
     THEN /\ aggregation' = [aggregation EXCEPT ![c] = "queued"]
          /\ snapshot' = [snapshot EXCEPT ![c] = {}]
     ELSE UNCHANGED <<aggregation, snapshot>>
  /\ UNCHANGED <<deployed, attempt, overlaps, signal, owner, assessment,
                 selected, opportunity, override, ambiguous, decisions>>

(* A message whose effect is recorded is only acknowledged.                *)
SkipDone(c) ==
  /\ EffectRecorded(c)
  /\ inbox' = inbox \ {c}
  /\ UNCHANGED <<detectionVars, assessment, opportunityVars, ambiguous,
                 faultVars>>

(* A person decides the qualification of the active opportunity.           *)
OverrideQualification(q) ==
  /\ opportunity # "none"
  /\ override # q
  /\ decisions < MaxDecisions
  /\ decisions' = decisions + 1
  /\ opportunity' = q
  /\ override' = q
  /\ UNCHANGED <<detectionVars, assessment, aggregation, snapshot, selected,
                 ambiguous, inbox, stranded, faults>>

(* A merge review of the company is opened or resolved.                    *)
MergeReview ==
  /\ decisions < MaxDecisions
  /\ decisions' = decisions + 1
  /\ ambiguous' = ~ambiguous
  /\ UNCHANGED <<detectionVars, assessment, opportunityVars, inbox, stranded,
                 faults>>

-----------------------------------------------------------------------------
Handler(c) ==
  \/ ReadSignals(c)
  \/ ExecuteClassification(c)
  \/ ReadAssessments(c)
  \/ CommitAggregation(c)
  \/ SkipDone(c)

ChainNext ==
  \/ Deploy
  \/ \E e \in Events : ScheduleDetection(e)
  \/ \E c \in inbox :
       \/ Handler(c)
       \/ DetectionFails(c) \/ ClassificationFails(c) \/ AggregationFails(c)
       \/ GoesUnrecorded(c)
  \/ \E d \in detecting : CommitDetection(d)
  \/ \E s \in Results : RetractSignal(s) \/ OverrideAssessmentMode(s)
  \/ \E q \in Qualifications : OverrideQualification(q)
  \/ MergeReview

ChainSpec == ChainInit /\ [][ChainNext]_chainVars

-----------------------------------------------------------------------------
(* Properties.                                                             *)

(* Successive policies leave one active result of an event, for "leaving   *)
(* multiple policy results active would make the inbox ambiguous"          *)
(* (DECISIONS.md, ADR-009): a detection supersedes whatever the others     *)
(* left, in whichever order they were scheduled, run by old or new code,   *)
(* failed and delivered again.  That two results of one event stay active  *)
(* takes two detections under way at the same time, which nothing in       *)
(* execute_signal_detection rules out.                                     *)
TwoResultsTakeAnOverlap ==
  \A r, s \in Results :
    /\ signal[r] = "active" /\ signal[s] = "active"
    /\ r[1] = s[1] /\ r # s
    => {<<r[1], owner[r]>>, <<s[1], owner[s]>>} \in overlaps

(* An aggregation that will not put the selection right by itself: it      *)
(* failed, or its message is gone.                                         *)
GivenUp(c) == aggregation[c] = "failed" \/ c \in stranded

(* The company's assessment rests on every assessed active signal and on   *)
(* none that a person retracted, or else an aggregation is under way that  *)
(* will put it right: no order of retractions, classifications, overrides  *)
(* and aggregations leaves it stale (execute_company_aggregation,          *)
(* retract_signal).  An aggregation given up may; so may a signal that was *)
(* superseded and not replaced, for nothing is scheduled then.             *)
SelectionCatchesUp ==
  (\A c \in Aggregations : ~GivenUp(c)) =>
    \A s \in Results :
      LET counts == signal[s] = "active" /\ assessment[s] = "completed" IN
      \/ /\ counts => s \in selected
         /\ signal[s] = "false_positive" => s \notin selected
      \/ \E c \in inbox \cap Aggregations :
           \/ aggregation[c] = "queued"
           \/ aggregation[c] = "reading" /\ (s \in snapshot[c] <=> counts)

(* "Human ... qualification decisions ... remain authoritative across      *)
(* automatic rescoring" (DECISIONS.md, ADR-010): an aggregation that was   *)
(* under way when the decision was made does not undo it either.           *)
HumanDecisionPrevails ==
  opportunity # "none" /\ override # "none" => opportunity = override

(* "Every eligible lifecycle event schedules a new run for a new           *)
(* detector/ontology version" (DECISIONS.md:244, ADR-009): an attempt that *)
(* is queued has a command that will execute it, or one that was dropped.  *)
QueuedIsCommanded ==
  \A r \in Results :
    attempt[r] = "queued" => Command("detect", r) \in inbox \cup stranded
=============================================================================
