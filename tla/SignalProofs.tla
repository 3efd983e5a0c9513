---------------------------- MODULE SignalProofs ----------------------------
(***************************************************************************)
(* Proofs about SignalChain for any events, detector versions and rules.   *)
(***************************************************************************)
EXTENDS SignalChain, FiniteSetTheorems, TLAPS

SignalStatus == {"absent", "active", "superseded", "false_positive"}

DetectionTypeInv ==
  /\ deployed \in Policies
  /\ attempt \in [Results -> {"absent", "queued", "failed", "complete", "no_signal"}]
  /\ detecting \subseteq [of : Results, key : Results, found : BOOLEAN,
                         seen : SUBSET Results]
  /\ signal \in [Results -> SignalStatus]
  /\ owner \in [Results -> Policies]
  /\ inbox \subseteq Commands

(* The attempt that created a signal.                                      *)
Creator(s) == <<s[1], owner[s]>>

(* A signal exists only with the success of the attempt that created it.   *)
OwnersSucceeded == \A s \in Results : signal[s] # "absent" => attempt[Creator(s)] = "complete"

(* An attempt under way has not succeeded, and is under way once.          *)
UnderWayIsOpen ==
  \A d \in detecting :
    /\ ~Detected(d.of) /\ d.key[1] = d.of[1]
    /\ \A e \in detecting : d.of = e.of => d = e

(* Detections of one event that are under way together are recorded.       *)
TogetherRecorded ==
  \A d, e \in detecting : d # e /\ d.of[1] = e.of[1] => {d.of, e.of} \in overlaps

(* A detection has seen the active signals of its event, except those of   *)
(* attempts that were under way beside it.                                 *)
SeenOrTogether ==
  \A d \in detecting, s \in Results :
    s[1] = d.of[1] /\ signal[s] = "active" =>
      s \in d.seen \/ {Creator(s), d.of} \in overlaps

DetectionInv ==
  /\ DetectionTypeInv
  /\ OwnersSucceeded
  /\ UnderWayIsOpen
  /\ TogetherRecorded
  /\ SeenOrTogether
  /\ TwoResultsTakeAnOverlap

(* The variables of the detection are changed by few actions.              *)
LEMMA DetectionFrame ==
  ASSUME [ChainNext]_chainVars
  PROVE  \/ Deploy
         \/ \E e \in Events : ScheduleDetection(e)
         \/ \E c \in inbox : ReadSignals(c) \/ DetectionFails(c) \/ GoesUnrecorded(c)
         \/ \E d \in detecting : CommitDetection(d)
         \/ \E s \in Results : RetractSignal(s)
         \/ UNCHANGED detectionVars
<1>1. ASSUME NEW c \in inbox, ExecuteClassification(c) \/ ClassificationFails(c)
      PROVE  UNCHANGED detectionVars
  BY <1>1 DEF ExecuteClassification, ClassificationFails
<1>2. ASSUME NEW c \in inbox,
             \/ ReadAssessments(c) \/ CommitAggregation(c)
             \/ AggregationFails(c) \/ SkipDone(c)
      PROVE  UNCHANGED detectionVars
  BY <1>2 DEF ReadAssessments, CommitAggregation, AggregationFails, SkipDone
<1>3. ASSUME NEW s \in Results, OverrideAssessmentMode(s)
      PROVE  UNCHANGED detectionVars
  BY <1>3 DEF OverrideAssessmentMode
<1>4. ASSUME NEW q \in Qualifications, OverrideQualification(q)
      PROVE  UNCHANGED detectionVars
  BY <1>4 DEF OverrideQualification
<1>5. ASSUME MergeReview PROVE UNCHANGED detectionVars
  BY <1>5 DEF MergeReview
<1>6. ASSUME UNCHANGED chainVars PROVE UNCHANGED detectionVars
  BY <1>6 DEF chainVars
<1>7. QED
  BY <1>1, <1>2, <1>3, <1>4, <1>5, <1>6 DEF ChainNext, Handler

(* Events and policies of results.                                         *)
LEMMA ResultFacts ==
  /\ \A r \in Results : r = <<r[1], r[2]>> /\ r[1] \in Events /\ r[2] \in Policies
  /\ \A e \in Events, p \in Policies :
       <<e, p>> \in Results /\ <<e, p>>[1] = e /\ <<e, p>>[2] = p
BY DEF Results

(* Every message is a command about a result.                              *)
LEMMA CommandsStep ==
  ASSUME DetectionTypeInv, [ChainNext]_chainVars
  PROVE  inbox' \subseteq Commands
<1>1. /\ \A k \in Causes \cup {"detect", "classify"}, r \in Results :
           Command(k, r) \in Commands
      /\ \A c \in Commands : c.of \in Results
  BY DEF Command, Commands, Aggregations
<1> USE <1>1 DEF New, Causes, DetectionTypeInv
<1>2. ASSUME NEW e \in Events, ScheduleDetection(e) PROVE inbox' \subseteq Commands
  BY <1>2, ResultFacts DEF ScheduleDetection
<1>3. ASSUME NEW d \in detecting, CommitDetection(d) PROVE inbox' \subseteq Commands
  <2>1. \/ Handles(Command("detect", d.of), {Command("classify", d.key)})
        \/ Handles(Command("detect", d.of), {})
    BY <1>3 DEF CommitDetection
  <2>2. QED
    BY <2>1 DEF Handles
<1>4. ASSUME NEW c \in inbox, ExecuteClassification(c) PROVE inbox' \subseteq Commands
  BY <1>4 DEF ExecuteClassification, Handles
<1>5. ASSUME NEW c \in inbox,
             \/ DetectionFails(c)
             \/ ClassificationFails(c)
             \/ AggregationFails(c)
             \/ GoesUnrecorded(c)
      PROVE  inbox' \subseteq Commands
  BY <1>5 DEF DetectionFails, ClassificationFails, AggregationFails, GivesUp, GoesUnrecorded
<1>6. ASSUME NEW c \in inbox, ReadSignals(c) \/ ReadAssessments(c) \/ CommitAggregation(c) \/ SkipDone(c)
      PROVE  inbox' \subseteq Commands
  BY <1>6 DEF ReadSignals, ReadAssessments, CommitAggregation, SkipDone, Handles
<1>7. ASSUME NEW s \in Results, RetractSignal(s) \/ OverrideAssessmentMode(s)
      PROVE  inbox' \subseteq Commands
  BY <1>7 DEF RetractSignal, OverrideAssessmentMode
<1>8. ASSUME NEW q \in Qualifications, OverrideQualification(q)
      PROVE  inbox' \subseteq Commands
  BY <1>8 DEF OverrideQualification
<1>9. ASSUME Deploy \/ MergeReview \/ UNCHANGED chainVars PROVE inbox' \subseteq Commands
  BY <1>9 DEF Deploy, MergeReview, chainVars
<1>10. QED
  BY <1>2, <1>3, <1>4, <1>5, <1>6, <1>7, <1>8, <1>9 DEF ChainNext, Handler

-----------------------------------------------------------------------------
(* Detection.                                                              *)

(* Only commits and retractions change signals, and these only make them   *)
(* inactive.                                                               *)
LEMMA FewerActive ==
  ASSUME DetectionInv, inbox' \subseteq Commands, deployed' \in Policies,
         attempt' \in [Results -> {"absent", "queued", "failed", "complete", "no_signal"}],
         \A r \in Results : Detected(r) <=> Detected(r)',
         \A r \in Results : attempt[r] = "complete" => attempt'[r] = "complete",
         detecting' \subseteq detecting, UNCHANGED <<overlaps, owner>>,
         signal' \in [Results -> SignalStatus],
         \A r \in Results : /\ signal'[r] = "active" => signal[r] = "active"
                            /\ signal'[r] # "absent" => signal[r] # "absent"
  PROVE  DetectionInv'
<1> USE DEF DetectionInv, Creator
<1>1. DetectionTypeInv'
  BY DEF DetectionTypeInv
<1>2. \A s \in Results : Creator(s) \in Results
  BY ResultFacts DEF DetectionTypeInv
<1>3. OwnersSucceeded'
  BY <1>2 DEF OwnersSucceeded
<1>4. \A d \in detecting : d.of \in Results
  BY DEF DetectionTypeInv
<1>5. UnderWayIsOpen'
  BY <1>4 DEF UnderWayIsOpen
<1>6. TogetherRecorded' /\ SeenOrTogether' /\ TwoResultsTakeAnOverlap'
  BY DEF TogetherRecorded, SeenOrTogether, TwoResultsTakeAnOverlap
<1>7. QED
  BY <1>1, <1>3, <1>5, <1>6

(* A detection that begins sees what is active and who is beside it.       *)
LEMMA ReadKeepsDetection ==
  ASSUME DetectionInv, NEW c \in inbox, ReadSignals(c)
  PROVE  DetectionInv'
<1> USE DEF DetectionInv
<1> DEFINE a == c.of
           new == [of |-> a, key |-> SignalKey(a), found |-> Found(a), seen |-> PriorOf(a)]
<1>1. /\ UNCHANGED <<deployed, attempt, signal, owner, inbox>>
      /\ detecting' = detecting \cup {new}
      /\ overlaps' = overlaps \cup {{a, d.of} : d \in Beside(a)}
      /\ ~Detected(a) /\ \A d \in detecting : d.of # a
  BY DEF ReadSignals
<1>2. a \in Results /\ a[1] \in Events /\ a[2] \in Policies
  BY ResultFacts DEF DetectionTypeInv, Commands, Aggregations
<1>3. SignalKey(a) \in Results /\ SignalKey(a)[1] = a[1]
  BY <1>2 DEF SignalKey, Results, Policies, DetectionTypeInv
<1>4. new.of = a /\ new.key = SignalKey(a) /\ new.seen = PriorOf(a)
  OBVIOUS
<1>5. Found(a) \in BOOLEAN /\ PriorOf(a) \in SUBSET Results
  BY DEF Found, PriorOf
<1>6. DetectionTypeInv'
  BY <1>1, <1>2, <1>3, <1>5 DEF DetectionTypeInv
<1> HIDE DEF new, a
<1>7. OwnersSucceeded' /\ TwoResultsTakeAnOverlap'
  BY <1>1 DEF OwnersSucceeded, TwoResultsTakeAnOverlap, Creator
<1>8. UnderWayIsOpen'
  BY <1>1, <1>3, <1>4 DEF UnderWayIsOpen, Detected
<1>9. TogetherRecorded'
  <2> SUFFICES ASSUME NEW d \in detecting', NEW e \in detecting', d # e, d.of[1] = e.of[1]
               PROVE  {d.of, e.of} \in overlaps'
    BY DEF TogetherRecorded
  <2>1. CASE d \in detecting /\ e \in detecting
    BY <1>1, <2>1 DEF TogetherRecorded
  <2>2. CASE d = new /\ e \in detecting
    BY <1>1, <1>4, <2>2 DEF Beside
  <2>3. CASE e = new /\ d \in detecting
    <3>1. {a, d.of} = {d.of, e.of}
      BY <1>4, <2>3
    <3>2. QED
      BY <1>1, <1>4, <2>3, <3>1 DEF Beside
  <2>4. QED
    BY <1>1, <2>1, <2>2, <2>3
<1>10. SeenOrTogether'
  <2> SUFFICES ASSUME NEW d \in detecting', NEW s \in Results,
                      s[1] = d.of[1], signal[s] = "active"
               PROVE  s \in d.seen \/ {Creator(s), d.of} \in overlaps'
    BY <1>1 DEF SeenOrTogether, Creator
  <2>1. CASE d \in detecting
    BY <1>1, <2>1 DEF SeenOrTogether
  <2>2. CASE d = new
    <3>1. attempt[Creator(s)] = "complete"
      BY DEF OwnersSucceeded
    <3>2. Creator(s) # a
      BY <1>1, <3>1 DEF Detected
    <3>3. owner[s] # a[2]
      BY <1>2, <1>4, <2>2, <3>2, ResultFacts DEF Creator
    <3>4. QED
      BY <1>4, <2>2, <3>3 DEF PriorOf
  <2>3. QED
    BY <1>1, <2>1, <2>2
<1>11. QED
  BY <1>6, <1>7, <1>8, <1>9, <1>10

(* A detection that commits supersedes what it has seen, so that beside    *)
(* its own signal only those of attempts it overlapped with stay active.   *)
LEMMA CommitKeepsDetection ==
  ASSUME DetectionInv, inbox' \subseteq Commands, NEW d \in detecting, CommitDetection(d)
  PROVE  DetectionInv'
<1> USE DEF DetectionInv
<1> DEFINE a == d.of
           s == d.key
           new == d.found /\ signal[s] = "absent"
           status == IF d.found THEN "complete" ELSE "no_signal"
<1>1. a \in Results /\ s \in Results /\ s[1] = a[1] /\ a = <<a[1], a[2]>> /\ a[2] \in Policies
  BY ResultFacts DEF DetectionTypeInv, UnderWayIsOpen
<1>2. /\ detecting' = detecting \ {d} /\ UNCHANGED <<deployed, overlaps>>
      /\ attempt' = [attempt EXCEPT ![a] = status]
      /\ signal' = [r \in Results |-> IF r \in Superseded(d) THEN "superseded"
                                      ELSE IF new /\ r = s THEN "active"
                                      ELSE signal[r]]
      /\ owner' = IF new THEN [owner EXCEPT ![s] = a[2]] ELSE owner
  BY DEF CommitDetection
<1>3. ~Detected(a) /\ \A e \in detecting : e # d => e.of # a
  BY DEF UnderWayIsOpen
<1>4. \A r \in Results : Creator(r) \in Results
  BY ResultFacts DEF DetectionTypeInv, Creator
<1>5. DetectionTypeInv'
  BY <1>1, <1>2 DEF DetectionTypeInv, SignalStatus
<1>6. new => Creator(s)' = a
  BY <1>1, <1>2 DEF Creator, DetectionTypeInv
<1>7. \A r \in Results : ~(new /\ r = s) =>
        /\ Creator(r)' = Creator(r)
        /\ signal'[r] # "absent" => signal[r] # "absent"
        /\ signal'[r] = "active" => signal[r] = "active" /\ r \notin d.seen
  BY <1>1, <1>2 DEF Superseded, Creator, DetectionTypeInv
<1>8. /\ attempt'[a] = status
      /\ \A r \in Results : r # a => attempt'[r] = attempt[r]
  BY <1>1, <1>2 DEF DetectionTypeInv
<1> HIDE DEF s, a
<1>9. OwnersSucceeded'
  <2> SUFFICES ASSUME NEW r \in Results, signal'[r] # "absent"
               PROVE  attempt'[Creator(r)'] = "complete"
    BY DEF OwnersSucceeded, Creator
  <2>1. CASE new /\ r = s
    BY <1>6, <1>8, <2>1
  <2>2. CASE ~(new /\ r = s)
    BY <1>3, <1>4, <1>7, <1>8, <2>2 DEF OwnersSucceeded, Detected
  <2>3. QED
    BY <2>1, <2>2
<1> HIDE DEF new, status
<1>10. UnderWayIsOpen'
  BY <1>2, <1>3, <1>8 DEF UnderWayIsOpen, Detected, DetectionTypeInv
<1>11. TogetherRecorded'
  BY <1>2 DEF TogetherRecorded
<1>12. \A e \in detecting : e # d /\ e.of[1] = a[1] => {a, e.of} \in overlaps
  BY DEF TogetherRecorded, a
<1>13. SeenOrTogether'
  <2> SUFFICES ASSUME NEW e \in detecting, e # d, NEW r \in Results,
                      r[1] = e.of[1], signal'[r] = "active"
               PROVE  r \in e.seen \/ {Creator(r)', e.of} \in overlaps
    BY <1>2 DEF SeenOrTogether, Creator
  <2>1. CASE new /\ r = s
    BY <1>1, <1>6, <1>12, <2>1
  <2>2. CASE ~(new /\ r = s)
    BY <1>7, <2>2 DEF SeenOrTogether
  <2>3. QED
    BY <2>1, <2>2
<1>14. TwoResultsTakeAnOverlap'
  <2>1. ASSUME NEW r \in Results, NEW t \in Results, r[1] = t[1], r # t,
               signal'[r] = "active", signal'[t] = "active"
        PROVE  {Creator(r)', Creator(t)'} \in overlaps
    <3>1. ASSUME NEW q \in Results, q # s, q[1] = a[1], signal'[q] = "active"
          PROVE  {Creator(q)', a} \in overlaps
      BY <1>7, <3>1 DEF SeenOrTogether, a
    <3>2. CASE new /\ r = s
      <4>1. {Creator(t)', a} \in overlaps
        BY <1>1, <2>1, <3>1, <3>2
      <4>2. {Creator(t)', a} = {Creator(r)', Creator(t)'}
        BY <1>6, <3>2
      <4>3. QED
        BY <4>1, <4>2
    <3>3. CASE new /\ t = s
      BY <1>1, <1>6, <2>1, <3>1, <3>3
    <3>4. CASE ~(new /\ r = s) /\ ~(new /\ t = s)
      <4>1. signal[r] = "active" /\ signal[t] = "active"
        BY <1>7, <2>1, <3>4
      <4>2. {Creator(r), Creator(t)} \in overlaps
        BY <2>1, <4>1 DEF TwoResultsTakeAnOverlap, Creator
      <4>3. QED
        BY <1>7, <3>4, <4>2
    <3>5. QED
      BY <3>2, <3>3, <3>4
  <2>2. QED
    BY <1>2, <2>1 DEF TwoResultsTakeAnOverlap, Creator
<1>15. QED
  BY <1>5, <1>9, <1>10, <1>11, <1>13, <1>14

LEMMA DetectionStep == DetectionInv /\ [ChainNext]_chainVars => DetectionInv'
<1> SUFFICES ASSUME DetectionInv, [ChainNext]_chainVars PROVE DetectionInv'
  OBVIOUS
<1>1. inbox' \subseteq Commands
  BY CommandsStep DEF DetectionInv
<1> USE DEF Detected
<1>2. ASSUME Deploy PROVE DetectionInv'
  BY <1>1, <1>2, FewerActive DEF Deploy, DetectionInv, DetectionTypeInv
<1>3. ASSUME NEW e \in Events, ScheduleDetection(e) PROVE DetectionInv'
  <2>1. <<e, deployed>> \in Results
    BY ResultFacts DEF DetectionInv, DetectionTypeInv
  <2>2. QED
    BY <1>1, <1>3, <2>1, FewerActive DEF ScheduleDetection, DetectionInv, DetectionTypeInv
<1>4. ASSUME NEW c \in inbox, ReadSignals(c) PROVE DetectionInv'
  BY <1>4, ReadKeepsDetection
<1>5. ASSUME NEW d \in detecting, CommitDetection(d) PROVE DetectionInv'
  BY <1>1, <1>5, CommitKeepsDetection
<1>6. ASSUME NEW c \in inbox, DetectionFails(c) PROVE DetectionInv'
  <2>1. c.of \in Results
    BY DEF DetectionInv, DetectionTypeInv, Commands, Aggregations
  <2>2. QED
    BY <1>1, <1>6, <2>1, FewerActive
       DEF DetectionFails, RollsBack, DetectionInv, DetectionTypeInv
<1>7. ASSUME NEW c \in inbox, GoesUnrecorded(c) PROVE DetectionInv'
  BY <1>1, <1>7, FewerActive DEF GoesUnrecorded, RollsBack, DetectionInv, DetectionTypeInv
<1>8. ASSUME NEW s \in Results, RetractSignal(s) PROVE DetectionInv'
  BY <1>1, <1>8, FewerActive DEF RetractSignal, DetectionInv, DetectionTypeInv, SignalStatus
<1>9. CASE UNCHANGED detectionVars
  BY <1>1, <1>9, FewerActive DEF detectionVars, DetectionInv, DetectionTypeInv
<1>10. QED
  BY <1>2, <1>3, <1>4, <1>5, <1>6, <1>7, <1>8, <1>9, DetectionFrame

(* The invariant on which the property of active results rests: whatever a *)
(* detection under way has not seen was committed beside it                *)
(* (execute_signal_detection).                                             *)
THEOREM DetectionInvariant == ChainSpec => []DetectionInv
<1>1. ChainInit => DetectionInv
  <2> USE DEF ChainInit
  <2>1. ChainInit => DetectionTypeInv
    BY SignalChainAssumption, ResultFacts DEF DetectionTypeInv, SignalStatus, Policies
  <2>2. ChainInit => OwnersSucceeded /\ TwoResultsTakeAnOverlap
    BY DEF OwnersSucceeded, TwoResultsTakeAnOverlap
  <2>3. ChainInit => UnderWayIsOpen /\ TogetherRecorded /\ SeenOrTogether
    BY DEF UnderWayIsOpen, TogetherRecorded, SeenOrTogether
  <2>4. QED
    BY <2>1, <2>2, <2>3 DEF DetectionInv
<1>2. QED
  BY <1>1, DetectionStep, PTL DEF ChainSpec

(* Two active results of one event come from attempts that were under way  *)
(* at the same time, for any number of detectors, ontologies, attempts and *)
(* deliveries.                                                             *)
THEOREM ResultsAreSuperseded == ChainSpec => []TwoResultsTakeAnOverlap
<1>1. DetectionInv => TwoResultsTakeAnOverlap
  BY DEF DetectionInv
<1>2. QED
  BY <1>1, DetectionInvariant, PTL

-----------------------------------------------------------------------------
(* Decisions of people.                                                    *)

(* An override is of an opportunity that exists, and its qualification.    *)
DecisionInv ==
  /\ opportunity \in Qualifications \cup {"none"}
  /\ opportunity = "none" => override = "none"
  /\ HumanDecisionPrevails

(* Only an aggregation's commit and a person change the qualification.     *)
LEMMA DecisionFrame ==
  ASSUME [ChainNext]_chainVars
  PROVE  \/ \E c \in inbox : CommitAggregation(c)
         \/ \E q \in Qualifications : OverrideQualification(q)
         \/ UNCHANGED <<opportunity, override>>
<1>1. ASSUME NEW c \in inbox,
             \/ ReadSignals(c) \/ ExecuteClassification(c)
             \/ ReadAssessments(c) \/ SkipDone(c)
      PROVE  UNCHANGED <<opportunity, override>>
  BY <1>1 DEF ReadSignals, ExecuteClassification, ReadAssessments, SkipDone,
     opportunityVars
<1>2. ASSUME NEW c \in inbox,
             \/ DetectionFails(c)
             \/ ClassificationFails(c)
             \/ AggregationFails(c)
             \/ GoesUnrecorded(c)
      PROVE  UNCHANGED <<opportunity, override>>
  BY <1>2 DEF DetectionFails, ClassificationFails, AggregationFails, GoesUnrecorded,
     opportunityVars
<1>3. ASSUME NEW s \in Results, RetractSignal(s) \/ OverrideAssessmentMode(s)
      PROVE  UNCHANGED <<opportunity, override>>
  BY <1>3 DEF RetractSignal, OverrideAssessmentMode
<1>4. ASSUME NEW e \in Events, ScheduleDetection(e)
      PROVE  UNCHANGED <<opportunity, override>>
  BY <1>4 DEF ScheduleDetection, opportunityVars
<1>5. ASSUME Deploy \/ MergeReview \/ UNCHANGED chainVars
      PROVE  UNCHANGED <<opportunity, override>>
  BY <1>5 DEF Deploy, MergeReview, chainVars, opportunityVars
<1>6. ASSUME NEW d \in detecting, CommitDetection(d)
      PROVE  UNCHANGED <<opportunity, override>>
  BY <1>6 DEF CommitDetection, opportunityVars
<1>7. QED
  BY <1>1, <1>2, <1>3, <1>4, <1>5, <1>6 DEF ChainNext, Handler

(* A person's qualification stays that of the opportunity, also when an    *)
(* aggregation that read before the decision commits after it.             *)
THEOREM DecisionsPrevail == ChainSpec => []HumanDecisionPrevails
<1> USE DEF DecisionInv, HumanDecisionPrevails, Qualifications
<1>1. ChainInit => DecisionInv
  BY DEF ChainInit
<1>2. DecisionInv /\ [ChainNext]_chainVars => DecisionInv'
  <2> SUFFICES ASSUME DecisionInv, [ChainNext]_chainVars PROVE DecisionInv'
    OBVIOUS
  <2>1. ASSUME NEW c \in inbox, CommitAggregation(c) PROVE DecisionInv'
    BY <2>1 DEF CommitAggregation, Requalified
  <2>2. ASSUME NEW q \in Qualifications, OverrideQualification(q) PROVE DecisionInv'
    BY <2>2 DEF OverrideQualification
  <2>3. CASE UNCHANGED <<opportunity, override>>
    BY <2>3
  <2>4. QED
    BY <2>1, <2>2, <2>3, DecisionFrame
<1>3. DecisionInv => HumanDecisionPrevails
  OBVIOUS
<1>4. QED
  BY <1>1, <1>2, <1>3, PTL DEF ChainSpec

-----------------------------------------------------------------------------
(* The selection.                                                          *)

AggregationTypeInv ==
  /\ assessment \in
       [Results -> {"absent", "queued", "failed", "completed", "superseded"}]
  /\ aggregation \in
       [Aggregations -> {"absent", "queued", "reading", "complete", "failed"}]
  /\ snapshot \in [Aggregations -> SUBSET Results]

(* The message of an aggregation stays in the inbox until it is done or    *)
(* leaves it unrecorded, and leaves it for good when a failure is.         *)
MessagesFollowAggregations ==
  \A c \in Aggregations :
    /\ aggregation[c] \in {"queued", "reading"} => c \in inbox \cup stranded
    /\ aggregation[c] = "failed" => c \notin inbox

(* A signal is there before it is classified.                              *)
SignalsComeFirst ==
  \A s \in Results :
    assessment[s] # "absent" \/ Command("classify", s) \in inbox => signal[s] # "absent"

(* The cause of an aggregation happens once, so that its aggregation is    *)
(* not there before it.                                                    *)
CausesHappened ==
  \A s \in Results :
    /\ aggregation[Command("classified", s)] # "absent" => assessment[s] = "completed"
    /\ aggregation[Command("retracted", s)] # "absent" => signal[s] = "false_positive"

(* What was read or selected has been assessed.                            *)
SelectionsAreAssessed ==
  \A s \in Results :
    s \in selected \/ (\E c \in Aggregations : s \in snapshot[c]) =>
      assessment[s] = "completed"

OneReads ==
  \A c, d \in Aggregations :
    aggregation[c] = "reading" /\ aggregation[d] = "reading" => c = d

(* S says of the signal s what a selection made now would, except that it  *)
(* may hold one that was superseded.                                       *)
Accounts(S, s) ==
  /\ signal[s] = "active" /\ assessment[s] = "completed" => s \in S
  /\ signal[s] = "false_positive" => s \notin S

Pending == \E c \in Aggregations : aggregation[c] = "queued"
Reading == \E c \in Aggregations : aggregation[c] = "reading"
NoneGivenUp == \A c \in Aggregations : ~GivenUp(c)

(* What an aggregation has read and what is selected are right, unless an  *)
(* aggregation waits that has not read yet.                                *)
SelectionsAccount ==
  NoneGivenUp /\ ~Pending =>
    \A s \in Results :
      /\ \A c \in Aggregations :
           aggregation[c] = "reading" => Accounts(snapshot[c], s)
      /\ ~Reading => Accounts(selected, s)

SelectionInv ==
  /\ AggregationTypeInv
  /\ MessagesFollowAggregations
  /\ CausesHappened
  /\ SelectionsAreAssessed
  /\ OneReads
  /\ SelectionsAccount

(* Commands are told apart by their kind and by what they are about.       *)
LEMMA CommandFacts ==
  /\ \A k \in Causes, r \in Results : Command(k, r) \in Aggregations
  /\ \A c \in Aggregations :
       c.kind \in Causes /\ c.of \in Results /\ c = Command(c.kind, c.of)
  /\ \A r \in Results :
       Command("detect", r) \notin Aggregations /\ Command("classify", r) \notin Aggregations
  /\ \A k, l, r, s : Command(k, r) = Command(l, s) => k = l /\ r = s
  /\ \A c \in Commands : c.of \in Results /\ (c.kind \in Causes => c \in Aggregations)
BY DEF Command, Aggregations, Commands, Causes

(* A step that only adds other messages, or takes away those of other      *)
(* commands and of completed aggregations.                                 *)
LEMMA SelectionKept ==
  ASSUME SelectionInv,
         UNCHANGED <<signal, assessment, aggregation, snapshot, selected, stranded>>,
         \A c \in Aggregations : c \in inbox' => c \in inbox,
         \A c \in Aggregations :
           aggregation[c] \in {"queued", "reading"} /\ c \in inbox => c \in inbox'
  PROVE  SelectionInv'
<1>1. AggregationTypeInv' /\ CausesHappened' /\ SelectionsAreAssessed' /\ OneReads'
  BY DEF SelectionInv, AggregationTypeInv, CausesHappened, SelectionsAreAssessed, OneReads
<1>2. MessagesFollowAggregations'
  BY DEF SelectionInv, MessagesFollowAggregations
<1>3. SelectionsAccount'
  BY DEF SelectionInv, SelectionsAccount, Accounts, Pending, Reading, NoneGivenUp, GivenUp
<1>4. QED
  BY <1>1, <1>2, <1>3 DEF SelectionInv

(* Results that are detected or superseded are not assessed yet, or may    *)
(* stay selected.                                                          *)
LEMMA DetectionKeepsSelection ==
  ASSUME DetectionTypeInv, SignalsComeFirst, SelectionInv,
         NEW d \in detecting, CommitDetection(d)
  PROVE  SelectionInv'
<1> DEFINE s == d.key
           new == d.found /\ signal[s] = "absent"
<1>1. /\ s \in Results /\ Command("detect", d.of) \notin Aggregations
      /\ Command("classify", s) \notin Aggregations
  BY CommandFacts DEF DetectionTypeInv
<1>2. /\ signal' = [r \in Results |-> IF r \in Superseded(d) THEN "superseded"
                                     ELSE IF new /\ r = s THEN "active"
                                     ELSE signal[r]]
      /\ UNCHANGED <<aggregation, snapshot, selected, stranded>>
  BY DEF CommitDetection, opportunityVars, Handles
<1>3. \/ UNCHANGED assessment
      \/ /\ assessment[s] = "absent" /\ signal'[s] = "active"
         /\ assessment' = [assessment EXCEPT ![s] = "queued"]
  BY DEF CommitDetection, NeedsClassification
<1>4. \A c \in Aggregations : c \in inbox' <=> c \in inbox
  BY <1>1 DEF CommitDetection, Handles
<1> HIDE DEF s, new
<1>5. AggregationTypeInv'
  BY <1>1, <1>2, <1>3 DEF SelectionInv, AggregationTypeInv
<1>6. MessagesFollowAggregations'
  BY <1>2, <1>4 DEF SelectionInv, MessagesFollowAggregations
<1>7. \A r \in Results : assessment[r] = "completed" <=> assessment'[r] = "completed"
  BY <1>1, <1>3 DEF SelectionInv, AggregationTypeInv
<1>8. \A r \in Results :
        /\ signal[r] = "false_positive" <=> signal'[r] = "false_positive"
        /\ signal'[r] = "active" => signal[r] = "active" \/ signal[r] = "absent"
  BY <1>1, <1>2 DEF Superseded, new
<1>9. CausesHappened'
  BY <1>2, <1>7, <1>8 DEF SelectionInv, CausesHappened
<1>10. SelectionsAreAssessed' /\ OneReads'
  BY <1>2, <1>7 DEF SelectionInv, SelectionsAreAssessed, OneReads
<1>11. SelectionsAccount'
  <2>1. ASSUME NEW S, NEW r \in Results, Accounts(S, r) PROVE Accounts(S, r)'
    BY <1>7, <1>8, <2>1 DEF Accounts, SignalsComeFirst
  <2>2. QED
    BY <1>2, <2>1 DEF SelectionInv, SelectionsAccount, Pending, Reading, NoneGivenUp, GivenUp
<1>12. QED
  BY <1>5, <1>6, <1>9, <1>10, <1>11 DEF SelectionInv

(* A new aggregation waits, whatever changed.                              *)
LEMMA NewCausePending ==
  ASSUME SelectionInv, NEW d \in Aggregations, aggregation[d] = "absent",
         aggregation' = Scheduled(d), d \in inbox',
         \A c \in Aggregations : c # d => (c \in inbox' <=> c \in inbox),
         UNCHANGED <<snapshot, stranded>>
  PROVE  /\ aggregation' \in
              [Aggregations -> {"absent", "queued", "reading", "complete", "failed"}]
         /\ aggregation'[d] = "queued"
         /\ \A c \in Aggregations : c # d => aggregation'[c] = aggregation[c]
         /\ MessagesFollowAggregations' /\ OneReads' /\ SelectionsAccount'
<1>1. /\ aggregation'[d] = "queued"
      /\ \A c \in Aggregations : c # d => aggregation'[c] = aggregation[c]
      /\ aggregation' \in
              [Aggregations -> {"absent", "queued", "reading", "complete", "failed"}]
  BY DEF Scheduled, SelectionInv, AggregationTypeInv
<1>2. MessagesFollowAggregations' /\ OneReads'
  BY <1>1 DEF SelectionInv, MessagesFollowAggregations, OneReads
<1>3. SelectionsAccount'
  BY <1>1 DEF SelectionsAccount, Pending
<1>4. QED
  BY <1>1, <1>2, <1>3

LEMMA ClassificationKeepsSelection ==
  ASSUME DetectionTypeInv, SelectionInv, NEW c \in inbox, ExecuteClassification(c)
  PROVE  SelectionInv'
<1> DEFINE s == c.of
           cause == Command("classified", s)
<1>1. s \in Results /\ cause \in Aggregations /\ c \notin Aggregations
  BY CommandFacts DEF DetectionTypeInv, ExecuteClassification, Causes
<1>2. UNCHANGED <<signal, snapshot, selected, stranded>> /\ assessment[s] # "completed"
  BY DEF ExecuteClassification, detectionVars, Classified, Handles
<1>3. aggregation[cause] = "absent"
  BY <1>1, <1>2 DEF SelectionInv, CausesHappened
<1>4. CASE signal[s] = "active" /\ assessment' = [assessment EXCEPT ![s] = "completed"]
           /\ aggregation' = Scheduled(cause) /\ Handles(c, New(cause))
  <2>1. cause \in inbox' /\ \A d \in Aggregations : d # cause => (d \in inbox' <=> d \in inbox)
    BY <1>1, <1>3, <1>4 DEF Handles, New
  <2> HIDE DEF s, cause
  <2>2. /\ aggregation' \in
              [Aggregations -> {"absent", "queued", "reading", "complete", "failed"}]
        /\ \A d \in Aggregations : d # cause => aggregation'[d] = aggregation[d]
        /\ MessagesFollowAggregations' /\ OneReads' /\ SelectionsAccount'
    BY <1>1, <1>2, <1>3, <1>4, <2>1, NewCausePending
  <2>3. \A r \in Results : assessment[r] = "completed" => assessment'[r] = "completed"
    BY <1>1, <1>4 DEF SelectionInv, AggregationTypeInv
  <2>4. \A r \in Results :
          aggregation'[Command("classified", r)] # "absent" => assessment'[r] = "completed"
    <3> SUFFICES ASSUME NEW r \in Results, aggregation'[Command("classified", r)] # "absent"
                 PROVE  assessment'[r] = "completed"
      OBVIOUS
    <3>1. CASE r = s
      BY <1>1, <1>4, <3>1 DEF SelectionInv, AggregationTypeInv
    <3>2. CASE r # s
      <4>1. Command("classified", r) \in Aggregations /\ Command("classified", r) # cause
        BY <1>1, <3>2, CommandFacts DEF cause, Causes
      <4>2. QED
        BY <2>2, <2>3, <4>1 DEF SelectionInv, CausesHappened
    <3>3. QED
      BY <3>1, <3>2
  <2>5. \A r \in Results : Command("retracted", r) \in Aggregations
                            /\ Command("retracted", r) # cause
    BY CommandFacts DEF cause, Causes
  <2>6. CausesHappened'
    BY <1>2, <2>2, <2>3, <2>4, <2>5 DEF SelectionInv, CausesHappened
  <2>7. AggregationTypeInv'
    BY <1>1, <1>2, <1>4, <2>2 DEF SelectionInv, AggregationTypeInv
  <2>8. SelectionsAreAssessed'
    BY <1>2, <2>3 DEF SelectionInv, SelectionsAreAssessed
  <2>9. QED
    BY <2>2, <2>6, <2>7, <2>8 DEF SelectionInv
<1>5. CASE signal[s] # "active" /\ assessment' = [assessment EXCEPT ![s] = "superseded"]
           /\ Handles(c, {}) /\ UNCHANGED aggregation
  <2>1. \A d \in Aggregations : d \in inbox' <=> d \in inbox
    BY <1>1, <1>5 DEF Handles
  <2>2. AggregationTypeInv'
    BY <1>1, <1>2, <1>5 DEF SelectionInv, AggregationTypeInv
  <2>3. \A r \in Results : assessment'[r] = "completed" <=> assessment[r] = "completed"
    BY <1>1, <1>2, <1>5 DEF SelectionInv, AggregationTypeInv
  <2>4. MessagesFollowAggregations' /\ CausesHappened' /\ SelectionsAreAssessed' /\ OneReads'
    BY <1>2, <1>5, <2>1, <2>3
       DEF SelectionInv, MessagesFollowAggregations, CausesHappened, SelectionsAreAssessed,
           OneReads
  <2>5. SelectionsAccount'
    BY <1>2, <1>5, <2>3 DEF SelectionInv, SelectionsAccount, Accounts, Pending, Reading,
       NoneGivenUp, GivenUp
  <2>6. QED
    BY <2>2, <2>4, <2>5 DEF SelectionInv
<1>6. QED
  BY <1>4, <1>5 DEF ExecuteClassification

LEMMA FailedClassificationKeepsSelection ==
  ASSUME DetectionTypeInv, SelectionInv, NEW c \in inbox, ClassificationFails(c)
  PROVE  SelectionInv'
<1>1. c.of \in Results /\ c \notin Aggregations
  BY CommandFacts DEF DetectionTypeInv, ClassificationFails, Causes
<1>2. /\ UNCHANGED <<signal, aggregation, snapshot, selected, stranded>>
      /\ assessment[c.of] \notin {"completed", "superseded"}
      /\ assessment' = [assessment EXCEPT ![c.of] = "failed"]
  BY DEF ClassificationFails, detectionVars, opportunityVars, Classified, GivesUp
<1>3. \A d \in Aggregations : d \in inbox' <=> d \in inbox
  BY <1>1 DEF ClassificationFails, GivesUp
<1>4. AggregationTypeInv'
  BY <1>1, <1>2 DEF SelectionInv, AggregationTypeInv
<1>5. \A r \in Results : assessment'[r] = "completed" <=> assessment[r] = "completed"
  BY <1>1, <1>2 DEF SelectionInv, AggregationTypeInv
<1>6. MessagesFollowAggregations' /\ CausesHappened' /\ SelectionsAreAssessed' /\ OneReads'
  BY <1>2, <1>3, <1>5
     DEF SelectionInv, MessagesFollowAggregations, CausesHappened, SelectionsAreAssessed,
         OneReads
<1>7. SelectionsAccount'
  BY <1>2, <1>5 DEF SelectionInv, SelectionsAccount, Accounts, Pending, Reading, NoneGivenUp, GivenUp
<1>8. QED
  BY <1>4, <1>6, <1>7 DEF SelectionInv

LEMMA ModeOverrideKeepsSelection ==
  ASSUME SelectionInv, NEW s \in Results, OverrideAssessmentMode(s)
  PROVE  SelectionInv'
<1> DEFINE cause == Command("overridden", s)
<1>1. /\ cause \in Aggregations
      /\ \A k \in {"classified", "retracted"}, r \in Results :
           Command(k, r) \in Aggregations /\ Command(k, r) # cause
  BY CommandFacts DEF Causes
<1>2. /\ UNCHANGED <<signal, assessment, snapshot, selected, stranded>>
      /\ aggregation[cause] = "absent" /\ aggregation' = Scheduled(cause)
      /\ inbox' = inbox \cup {cause}
  BY DEF OverrideAssessmentMode, detectionVars
<1> HIDE DEF cause
<1>3. /\ aggregation' \in
              [Aggregations -> {"absent", "queued", "reading", "complete", "failed"}]
      /\ \A d \in Aggregations : d # cause => aggregation'[d] = aggregation[d]
      /\ MessagesFollowAggregations' /\ OneReads' /\ SelectionsAccount'
  BY <1>1, <1>2, NewCausePending
<1>4. AggregationTypeInv' /\ CausesHappened' /\ SelectionsAreAssessed'
  BY <1>1, <1>2, <1>3 DEF SelectionInv, AggregationTypeInv, CausesHappened,
     SelectionsAreAssessed
<1>5. QED
  BY <1>3, <1>4 DEF SelectionInv

(* Retraction schedules an aggregation unless nothing selected the signal. *)
LEMMA RetractionKeepsSelection ==
  ASSUME DetectionTypeInv, SelectionInv, NEW s \in Results, RetractSignal(s)
  PROVE  SelectionInv'
<1> DEFINE cause == Command("retracted", s)
<1>1. /\ cause \in Aggregations
      /\ \A r \in Results :
           /\ Command("classified", r) \in Aggregations /\ Command("classified", r) # cause
           /\ Command("retracted", r) \in Aggregations
           /\ r # s => Command("retracted", r) # cause
  BY CommandFacts DEF Causes
<1>2. /\ UNCHANGED <<assessment, snapshot, selected, stranded>>
      /\ signal[s] = "active" /\ signal' = [signal EXCEPT ![s] = "false_positive"]
      /\ aggregation[cause] = "absent"
  BY DEF RetractSignal, SelectionInv, CausesHappened, faultVars
<1>3. /\ signal'[s] = "false_positive"
      /\ \A r \in Results : r # s => signal'[r] = signal[r]
  BY <1>2 DEF DetectionTypeInv
<1>4. CASE assessment[s] = "completed"
  <2>1. aggregation' = Scheduled(cause) /\ inbox' = inbox \cup {cause}
    BY <1>2, <1>4 DEF RetractSignal, New
  <2> HIDE DEF cause
  <2>2. /\ aggregation' \in
              [Aggregations -> {"absent", "queued", "reading", "complete", "failed"}]
        /\ \A d \in Aggregations : d # cause => aggregation'[d] = aggregation[d]
        /\ MessagesFollowAggregations' /\ OneReads' /\ SelectionsAccount'
    BY <1>1, <1>2, <2>1, NewCausePending
  <2>3. AggregationTypeInv' /\ SelectionsAreAssessed'
    BY <1>2, <2>2 DEF SelectionInv, AggregationTypeInv, SelectionsAreAssessed
  <2>4. CausesHappened'
    BY <1>1, <1>2, <1>3, <2>2 DEF SelectionInv, CausesHappened
  <2>5. QED
    BY <2>2, <2>3, <2>4 DEF SelectionInv
<1>5. CASE assessment[s] # "completed"
  <2>1. UNCHANGED <<aggregation, inbox>>
    BY <1>5 DEF RetractSignal
  <2>2. AggregationTypeInv' /\ MessagesFollowAggregations' /\ SelectionsAreAssessed' /\ OneReads'
    BY <1>2, <2>1 DEF SelectionInv, AggregationTypeInv, MessagesFollowAggregations,
       SelectionsAreAssessed, OneReads
  <2>3. CausesHappened'
    BY <1>1, <1>2, <1>3, <2>1 DEF SelectionInv, CausesHappened
  <2>4. s \notin selected /\ \A c \in Aggregations : s \notin snapshot[c]
    BY <1>5 DEF SelectionInv, SelectionsAreAssessed
  <2>5. SelectionsAccount'
    BY <1>2, <1>3, <2>1, <2>4 DEF SelectionInv, SelectionsAccount, Accounts, Pending,
       Reading, NoneGivenUp, GivenUp
  <2>6. QED
    BY <2>2, <2>3, <2>5 DEF SelectionInv
<1>6. QED
  BY <1>4, <1>5

LEMMA ReadingKeepsSelection ==
  ASSUME SelectionInv, NEW c \in inbox, c \in Aggregations, ReadAssessments(c)
  PROVE  SelectionInv'
<1> DEFINE now == {s \in Results : signal[s] = "active" /\ assessment[s] = "completed"}
<1>1. /\ UNCHANGED <<signal, assessment, selected, inbox, stranded>>
      /\ aggregation[c] \in {"queued", "failed"} /\ CompanyFree(c)
      /\ aggregation' = [aggregation EXCEPT ![c] = "reading"]
      /\ snapshot' = [snapshot EXCEPT ![c] = now]
  BY DEF ReadAssessments, detectionVars, faultVars
<1>2. /\ aggregation'[c] = "reading" /\ snapshot'[c] = now
      /\ \A d \in Aggregations : d # c =>
           /\ aggregation'[d] = aggregation[d] /\ snapshot'[d] = snapshot[d]
           /\ aggregation[d] # "reading"
  BY <1>1 DEF SelectionInv, AggregationTypeInv, CompanyFree
<1>3. AggregationTypeInv'
  BY <1>1 DEF SelectionInv, AggregationTypeInv
<1>4. MessagesFollowAggregations' /\ OneReads'
  BY <1>1, <1>2 DEF SelectionInv, MessagesFollowAggregations, OneReads
<1>5. aggregation[c] # "absent"
  BY <1>1
<1>6. CausesHappened'
  BY <1>1, <1>2, <1>5, CommandFacts DEF SelectionInv, CausesHappened, Causes
<1>7. SelectionsAreAssessed'
  BY <1>1, <1>2 DEF SelectionInv, SelectionsAreAssessed
<1>8. SelectionsAccount'
  BY <1>1, <1>2 DEF SelectionsAccount, Accounts, Reading
<1>9. QED
  BY <1>3, <1>4, <1>6, <1>7, <1>8 DEF SelectionInv

LEMMA CommitKeepsSelection ==
  ASSUME SelectionInv, NEW c \in inbox, c \in Aggregations, CommitAggregation(c)
  PROVE  SelectionInv'
<1>1. /\ UNCHANGED <<signal, assessment, stranded>> /\ selected' = snapshot[c]
      /\ aggregation[c] = "reading"
      /\ aggregation' = [aggregation EXCEPT ![c] = "complete"]
      /\ snapshot' = [snapshot EXCEPT ![c] = {}]
      /\ inbox' \in {inbox, inbox \ {c}}
  BY DEF CommitAggregation, detectionVars, Handles
<1>2. /\ aggregation'[c] = "complete" /\ snapshot'[c] = {}
      /\ \A d \in Aggregations : d # c =>
           /\ aggregation'[d] = aggregation[d] /\ snapshot'[d] = snapshot[d]
           /\ aggregation[d] # "reading"
  BY <1>1 DEF SelectionInv, AggregationTypeInv, OneReads
<1>3. AggregationTypeInv'
  BY <1>1 DEF SelectionInv, AggregationTypeInv
<1>4. MessagesFollowAggregations' /\ OneReads'
  BY <1>1, <1>2 DEF SelectionInv, MessagesFollowAggregations, OneReads
<1>5. CausesHappened'
  BY <1>1, <1>2, CommandFacts DEF SelectionInv, CausesHappened, Causes
<1>6. SelectionsAreAssessed'
  BY <1>1, <1>2 DEF SelectionInv, SelectionsAreAssessed
<1>7. \A s \in Results : NoneGivenUp /\ ~Pending => Accounts(snapshot[c], s)
  BY <1>1 DEF SelectionInv, SelectionsAccount
<1>8. (NoneGivenUp' => NoneGivenUp) /\ (Pending => Pending') /\ ~Reading'
  BY <1>1, <1>2 DEF NoneGivenUp, GivenUp, Pending, Reading
<1>9. SelectionsAccount'
  BY <1>1, <1>2, <1>7, <1>8 DEF SelectionsAccount, Accounts, Reading
<1>10. QED
  BY <1>3, <1>4, <1>5, <1>6, <1>9 DEF SelectionInv

LEMMA FailureKeepsSelection ==
  ASSUME SelectionInv, NEW c \in inbox, c \in Aggregations, AggregationFails(c)
  PROVE  SelectionInv'
<1>1. /\ UNCHANGED <<signal, assessment, selected, stranded>>
      /\ aggregation[c] = "reading"
      /\ aggregation' = [aggregation EXCEPT ![c] = "failed"]
      /\ snapshot' = [snapshot EXCEPT ![c] = {}]
      /\ inbox' = inbox \ {c}
  BY DEF AggregationFails, detectionVars, GivesUp
<1>2. /\ aggregation'[c] = "failed" /\ snapshot'[c] = {}
      /\ \A d \in Aggregations : d # c =>
           aggregation'[d] = aggregation[d] /\ snapshot'[d] = snapshot[d]
  BY <1>1 DEF SelectionInv, AggregationTypeInv
<1>3. AggregationTypeInv'
  BY <1>1 DEF SelectionInv, AggregationTypeInv
<1>4. MessagesFollowAggregations' /\ OneReads'
  BY <1>1, <1>2 DEF SelectionInv, MessagesFollowAggregations, OneReads
<1>5. CausesHappened'
  BY <1>1, <1>2, CommandFacts DEF SelectionInv, CausesHappened, Causes
<1>6. SelectionsAreAssessed'
  BY <1>1, <1>2 DEF SelectionInv, SelectionsAreAssessed
<1>7. SelectionsAccount'
  BY <1>2 DEF SelectionsAccount, NoneGivenUp, GivenUp
<1>8. QED
  BY <1>3, <1>4, <1>5, <1>6, <1>7 DEF SelectionInv

(* A message that goes unrecorded leaves its aggregation, if it is one,    *)
(* queued and stranded.                                                    *)
LEMMA UnrecordedKeepsSelection ==
  ASSUME SelectionInv, NEW c \in inbox, c \in Commands, GoesUnrecorded(c)
  PROVE  SelectionInv'
<1>1. /\ UNCHANGED <<signal, assessment, selected>>
      /\ inbox' = inbox \ {c} /\ stranded' = stranded \cup {c}
  BY DEF GoesUnrecorded
<1>2. CASE c \notin Aggregations
  <2>1. UNCHANGED <<aggregation, snapshot>>
    BY <1>2 DEF GoesUnrecorded
  <2>2. /\ AggregationTypeInv' /\ CausesHappened' /\ SelectionsAreAssessed' /\ OneReads'
        /\ MessagesFollowAggregations'
    BY <1>1, <1>2, <2>1 DEF SelectionInv, AggregationTypeInv, CausesHappened,
       SelectionsAreAssessed, OneReads, MessagesFollowAggregations
  <2>3. SelectionsAccount'
    BY <1>1, <1>2, <2>1 DEF SelectionInv, SelectionsAccount, Accounts, Pending, Reading,
       NoneGivenUp, GivenUp
  <2>4. QED
    BY <2>2, <2>3 DEF SelectionInv
<1>3. CASE c \in Aggregations
  <2>1. /\ \A d \in Aggregations : d # c =>
             aggregation'[d] = aggregation[d] /\ snapshot'[d] = snapshot[d]
        /\ aggregation'[c] \in {aggregation[c], "queued"} /\ aggregation'[c] # "reading"
        /\ aggregation'[c] # "absent" => aggregation[c] # "absent"
        /\ snapshot'[c] \in {snapshot[c], {}}
        /\ AggregationTypeInv'
    BY <1>1, <1>3 DEF GoesUnrecorded, SelectionInv, AggregationTypeInv
  <2>2. MessagesFollowAggregations'
    BY <1>1, <1>3, <2>1 DEF SelectionInv, MessagesFollowAggregations, GoesUnrecorded
  <2>3. OneReads' /\ SelectionsAreAssessed'
    BY <1>1, <2>1 DEF SelectionInv, OneReads, SelectionsAreAssessed
  <2>4. CausesHappened'
    BY <1>1, <2>1, CommandFacts DEF SelectionInv, CausesHappened, Causes
  <2>5. ~NoneGivenUp'
    BY <1>1, <1>3 DEF NoneGivenUp, GivenUp
  <2>6. QED
    BY <2>1, <2>2, <2>3, <2>4, <2>5 DEF SelectionInv, SelectionsAccount
<1>4. QED
  BY <1>2, <1>3

(* The remaining steps leave the selection and what it rests on alone.     *)
LEMMA OtherStepsKeepSelection ==
  ASSUME DetectionTypeInv, SelectionInv,
         \/ Deploy \/ MergeReview \/ UNCHANGED chainVars
         \/ \E e \in Events : ScheduleDetection(e)
         \/ \E c \in inbox : ReadSignals(c) \/ DetectionFails(c) \/ SkipDone(c)
         \/ \E q \in Qualifications : OverrideQualification(q)
  PROVE  SelectionInv'
<1>1. UNCHANGED <<signal, assessment, aggregation, snapshot, selected, stranded>>
  BY DEF Deploy, MergeReview, chainVars, ScheduleDetection, ReadSignals, DetectionFails,
     SkipDone, OverrideQualification, detectionVars, opportunityVars, faultVars, GivesUp
<1> DEFINE SameWork ==
      /\ \A c \in Aggregations : c \in inbox' => c \in inbox
      /\ \A c \in Aggregations :
           aggregation[c] \in {"queued", "reading"} /\ c \in inbox => c \in inbox'
<1>2. ASSUME NEW e \in Events, ScheduleDetection(e) PROVE SameWork
  <2>1. <<e, deployed>> \in Results
    BY ResultFacts DEF DetectionTypeInv
  <2>2. QED
    BY <1>2, <2>1, CommandFacts DEF ScheduleDetection
<1>3. ASSUME NEW c \in inbox, DetectionFails(c) PROVE SameWork
  BY <1>3, CommandFacts DEF DetectionFails, GivesUp, Causes
<1>4. ASSUME NEW c \in inbox, ReadSignals(c) \/ SkipDone(c) PROVE SameWork
  BY <1>4, CommandFacts DEF ReadSignals, SkipDone, EffectRecorded, Causes
<1>5. ASSUME \/ Deploy \/ MergeReview \/ UNCHANGED chainVars
             \/ \E q \in Qualifications : OverrideQualification(q)
      PROVE  SameWork
  BY <1>5 DEF Deploy, MergeReview, chainVars, OverrideQualification
<1> HIDE DEF SameWork
<1>6. SameWork
  BY <1>2, <1>3, <1>4, <1>5
<1>7. QED
  BY <1>1, <1>6, SelectionKept DEF SameWork

LEMMA SelectionStep ==
  ASSUME DetectionTypeInv, SignalsComeFirst, SelectionInv, [ChainNext]_chainVars
  PROVE  SelectionInv'
<1>1. ASSUME NEW c \in inbox, Handler(c) \/ AggregationFails(c) PROVE SelectionInv'
  <2>1. c \in Commands
    BY DEF DetectionTypeInv
  <2>2. CASE ExecuteClassification(c)
    BY <2>2, ClassificationKeepsSelection
  <2>3. CASE ReadAssessments(c) \/ CommitAggregation(c) \/ AggregationFails(c)
    <3>1. c \in Aggregations
      BY <2>1, <2>3, CommandFacts DEF ReadAssessments, CommitAggregation, AggregationFails
    <3>2. QED
      BY <2>3, <3>1, ReadingKeepsSelection, CommitKeepsSelection, FailureKeepsSelection
  <2>4. CASE ReadSignals(c) \/ SkipDone(c)
    BY <2>4, OtherStepsKeepSelection
  <2>5. QED
    BY <1>1, <2>2, <2>3, <2>4 DEF Handler
<1>2. ASSUME NEW c \in inbox,
             DetectionFails(c) \/ ClassificationFails(c) \/ GoesUnrecorded(c)
      PROVE  SelectionInv'
  BY <1>2, OtherStepsKeepSelection, FailedClassificationKeepsSelection,
     UnrecordedKeepsSelection DEF DetectionTypeInv
<1>3. ASSUME NEW s \in Results, RetractSignal(s) \/ OverrideAssessmentMode(s)
      PROVE  SelectionInv'
  BY <1>3, RetractionKeepsSelection, ModeOverrideKeepsSelection
<1>4. ASSUME NEW d \in detecting, CommitDetection(d) PROVE SelectionInv'
  BY <1>4, DetectionKeepsSelection
<1>5. QED
  BY <1>1, <1>2, <1>3, <1>4, OtherStepsKeepSelection DEF ChainNext

LEMMA SignalsStep ==
  ASSUME DetectionTypeInv, SelectionInv, SignalsComeFirst, [ChainNext]_chainVars
  PROVE  SignalsComeFirst'
<1> DEFINE Kept ==
      \A s \in Results :
        /\ signal[s] # "absent" => signal'[s] # "absent"
        /\ assessment'[s] # "absent" =>
             assessment[s] # "absent" \/ Command("classify", s) \in inbox
        /\ Command("classify", s) \in inbox' => Command("classify", s) \in inbox
<1>1. ASSUME Kept PROVE SignalsComeFirst'
  BY <1>1 DEF SignalsComeFirst
<1>2. ASSUME NEW d \in detecting, CommitDetection(d) PROVE SignalsComeFirst'
  <2> DEFINE s == d.key
             new == d.found /\ signal[s] = "absent"
  <2>1. signal' = [r \in Results |-> IF r \in Superseded(d) THEN "superseded"
                                     ELSE IF new /\ r = s THEN "active"
                                     ELSE signal[r]]
    BY <1>2 DEF CommitDetection
  <2>2. \/ UNCHANGED assessment /\ Handles(Command("detect", d.of), {})
        \/ /\ signal'[s] = "active"
           /\ assessment' = [assessment EXCEPT ![s] = "queued"]
           /\ Handles(Command("detect", d.of), {Command("classify", s)})
    BY <1>2 DEF CommitDetection, NeedsClassification
  <2> HIDE DEF s, new
  <2>3. \A r \in Results : signal[r] # "absent" => signal'[r] # "absent"
    BY <2>1
  <2>4. \A r \in Results :
          \/ r = s /\ signal'[s] = "active"
          \/ /\ assessment'[r] = assessment[r]
             /\ Command("classify", r) \in inbox' => Command("classify", r) \in inbox
    BY <2>2, CommandFacts DEF Handles, SelectionInv, AggregationTypeInv
  <2>5. QED
    BY <2>3, <2>4 DEF SignalsComeFirst
<1>3. ASSUME NEW c \in inbox, ExecuteClassification(c) \/ ClassificationFails(c)
      PROVE  Kept
  <2>1. c.kind = "classify" /\ c = Command("classify", c.of) /\ c.of \in Results
    BY <1>3 DEF ExecuteClassification, ClassificationFails, DetectionTypeInv, Command,
       Commands, Aggregations
  <2>2. UNCHANGED signal /\ \A r \in Results : r # c.of => assessment'[r] = assessment[r]
    BY <1>3, <2>1 DEF ExecuteClassification, ClassificationFails, detectionVars, SelectionInv,
       AggregationTypeInv
  <2>3. \A r \in Results : Command("classify", r) \notin New(Command("classified", c.of))
    BY CommandFacts DEF New
  <2>4. inbox' \subseteq inbox \cup New(Command("classified", c.of))
    BY <1>3 DEF ExecuteClassification, ClassificationFails, Handles, GivesUp
  <2>5. QED
    BY <2>1, <2>2, <2>3, <2>4
<1>4. ASSUME NEW c \in inbox,
             \/ ReadAssessments(c) \/ CommitAggregation(c) \/ SkipDone(c)
             \/ AggregationFails(c)
             \/ ReadSignals(c) \/ DetectionFails(c)
             \/ GoesUnrecorded(c)
      PROVE  Kept
  BY <1>4 DEF ReadSignals, GoesUnrecorded, ReadAssessments, CommitAggregation, SkipDone, AggregationFails, DetectionFails,
     Handles, GivesUp, detectionVars
<1>5. ASSUME NEW s \in Results, RetractSignal(s) PROVE Kept
  <2>1. UNCHANGED assessment /\ signal' = [signal EXCEPT ![s] = "false_positive"]
    BY <1>5 DEF RetractSignal
  <2>2. inbox' \subseteq inbox \cup {Command("retracted", s)}
    BY <1>5 DEF RetractSignal, New
  <2>3. QED
    BY <2>1, <2>2, CommandFacts DEF DetectionTypeInv
<1>6. ASSUME NEW s \in Results, OverrideAssessmentMode(s) PROVE Kept
  BY <1>6, CommandFacts DEF OverrideAssessmentMode, detectionVars
<1>7. ASSUME NEW e \in Events, ScheduleDetection(e) PROVE Kept
  BY <1>7, CommandFacts DEF ScheduleDetection
<1>8. ASSUME \/ Deploy \/ MergeReview \/ UNCHANGED chainVars
             \/ \E q \in Qualifications : OverrideQualification(q)
      PROVE  Kept
  BY <1>8 DEF Deploy, MergeReview, chainVars, detectionVars, OverrideQualification
<1> HIDE DEF Kept
<1>9. QED
  BY <1>1, <1>2, <1>3, <1>4, <1>5, <1>6, <1>7, <1>8 DEF ChainNext, Handler

LEMMA SelectionInvariant == ChainSpec => [](SignalsComeFirst /\ SelectionInv)
<1>1. ChainInit => SignalsComeFirst /\ SelectionInv
  <2> USE DEF ChainInit
  <2>1. ChainInit => SignalsComeFirst
    BY DEF SignalsComeFirst
  <2>2. ChainInit => AggregationTypeInv /\ OneReads /\ SelectionsAreAssessed
    BY DEF AggregationTypeInv, OneReads, SelectionsAreAssessed
  <2>3. ChainInit => MessagesFollowAggregations /\ CausesHappened
    BY CommandFacts DEF MessagesFollowAggregations, CausesHappened, Causes
  <2>4. ChainInit => SelectionsAccount
    BY DEF SelectionsAccount, Accounts
  <2>5. QED
    BY <2>1, <2>2, <2>3, <2>4 DEF SelectionInv
<1>2. DetectionInv /\ SignalsComeFirst /\ SelectionInv /\ [ChainNext]_chainVars =>
        SignalsComeFirst' /\ SelectionInv'
  BY SelectionStep, SignalsStep DEF DetectionInv
<1>3. QED
  BY <1>1, <1>2, DetectionInvariant, PTL DEF ChainSpec

(* No order of detections, classifications, retractions, overrides and     *)
(* aggregations leaves the company's selection stale: an aggregation that  *)
(* has not read yet, or has read the truth, is still to come.              *)
THEOREM SelectionIsCaughtUp == ChainSpec => []SelectionCatchesUp
<1>1. ASSUME SelectionInv, NoneGivenUp, NEW s \in Results
      PROVE  LET counts == signal[s] = "active" /\ assessment[s] = "completed" IN
             \/ /\ counts => s \in selected
                /\ signal[s] = "false_positive" => s \notin selected
             \/ \E c \in inbox \cap Aggregations :
                  \/ aggregation[c] = "queued"
                  \/ aggregation[c] = "reading" /\ (s \in snapshot[c] <=> counts)
  <2>1. CASE Pending
    BY <1>1, <2>1 DEF Pending, SelectionInv, MessagesFollowAggregations, NoneGivenUp, GivenUp
  <2>2. CASE ~Pending /\ ~Reading
    BY <1>1, <2>2 DEF SelectionInv, SelectionsAccount, Accounts
  <2>3. CASE ~Pending /\ Reading
    <3>1. PICK c \in Aggregations : aggregation[c] = "reading"
      BY <2>3 DEF Reading
    <3>2. c \in inbox /\ Accounts(snapshot[c], s)
      BY <1>1, <2>3, <3>1 DEF SelectionInv, SelectionsAccount, MessagesFollowAggregations,
         NoneGivenUp, GivenUp
    <3>3. s \in snapshot[c] => assessment[s] = "completed"
      BY <1>1 DEF SelectionInv, SelectionsAreAssessed
    <3>4. QED
      BY <3>1, <3>2, <3>3 DEF Accounts
  <2>4. QED
    BY <2>1, <2>2, <2>3
<1>2. SelectionInv => SelectionCatchesUp
  BY <1>1 DEF SelectionCatchesUp, NoneGivenUp
<1>3. QED
  BY <1>2, SelectionInvariant, PTL
=============================================================================
