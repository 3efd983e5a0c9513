---------------------------- MODULE PostingProofs ----------------------------
(***************************************************************************)
(* Proofs about PostingLifecycle, for any postings, feeds, workers,        *)
(* closure threshold, polls and reparses.                                  *)
(***************************************************************************)
EXTENDS PostingLifecycle, NumberFacts, SequenceTheorems, FiniteSetTheorems,
        TLAPS

-----------------------------------------------------------------------------
(* The inductive invariant.                                                *)

TypeInv == TypeOK /\ Len(served) = Len(recorded)

(* A parse run parses the snapshot that its poll was recorded against.     *)
JobsParseTheirPoll ==
  \A j \in DOMAIN jobs :
    /\ jobs[j].poll \in DOMAIN recorded
    /\ jobs[j].snapshot = recorded[jobs[j].poll]

(* A poll schedules one parse run; the others are reparses.                *)
OneJobPerPoll ==
  \A j, k \in DOMAIN jobs :
    ~jobs[j].reprocess /\ ~jobs[k].reprocess /\ jobs[j].poll = jobs[k].poll =>
      j = k

(* What was applied has its result, so it is not applied again.            *)
AppliedSucceeded ==
  \A k \in DOMAIN applied : jobs[applied[k]].status = "succeeded"

JobInv == TypeInv /\ JobsParseTheirPoll /\ OneJobPerPoll /\ AppliedSucceeded

(* What is observed of a poll, a parse for that poll observed: the poll's  *)
(* own, or a reparse that listed the posting.                              *)
ObservedByParse ==
  \A p \in Postings, i \in Polls :
    observations[p][i] # "none" =>
      \E k \in DOMAIN applied :
        /\ jobs[applied[k]].poll = i
        /\ ~jobs[applied[k]].reprocess \/ Lists(applied[k], p)

(* A posting that a parse listed has its row.                              *)
SightedIsKnown == \A p \in Postings : Sightings(p) # {} => Known(p)

RowInv == ObservedByParse /\ LifecycleFollowsHistory /\ SightedIsKnown

PostingInv ==
  /\ JobInv
  /\ RowInv
  /\ ObservationsMatchSnapshots
  /\ OneEventPerObservation
  /\ EventsTellLifecycle

-----------------------------------------------------------------------------
(* Facts about the operators of the model.                                 *)

(* Min is the least element of a set of numbers.                           *)
LEMMA LeastElement ==
  ASSUME NEW S, S \subseteq Nat, S # {}
  PROVE  Min(S) \in S /\ \A k \in S : Min(S) <= k
<1>1. \E x \in S : \A k \in S : x <= k
  BY LeastNumber
<1>2. QED
  BY <1>1 DEF Min

(* Max is the greatest element of a bounded set of numbers.                *)
LEMMA GreatestElement ==
  ASSUME NEW n \in Nat, NEW S, S \subseteq 1..n, S # {}
  PROVE  Max(S) \in S /\ \A k \in S : k <= Max(S)
<1> DEFINE T == {n - k : k \in S}
<1>1. \A k \in S : k \in Nat /\ n - k \in Nat /\ n - k \in T
  OBVIOUS
<1>2. T \subseteq Nat /\ T # {}
  BY <1>1
<1> HIDE DEF T
<1>3. Min(T) \in T /\ \A t \in T : Min(T) <= t
  BY <1>2, LeastElement
<1> USE DEF T
<1>4. PICK x \in S : Min(T) = n - x
  BY <1>3
<1>5. \A k \in S : k <= x
  <2> HIDE DEF T
  <2>1. ASSUME NEW k \in S PROVE k <= x
    <3>1. n - x <= n - k
      BY <1>1, <1>3, <1>4
    <3>2. QED
      BY <3>1, <1>1
  <2>2. QED
    BY <2>1
<1>6. QED
  BY <1>5 DEF Max

(* Of two numbers Min is the lesser.                                       *)
LEMMA LeastOfTwo ==
  ASSUME NEW a \in Nat, NEW b \in Nat
  PROVE  Min({a, b}) = IF a <= b THEN a ELSE b
<1>1. Min({a, b}) \in {a, b} /\ \A k \in {a, b} : Min({a, b}) <= k
  BY LeastElement
<1>2. QED
  BY <1>1

(* The rows of the model, one at a time.                                   *)
Job ==
  [snapshot : Bodies, poll : Polls, reprocess : BOOLEAN,
   status : {"queued", "started", "succeeded", "failed"}]

Row ==
  [lifecycle : Lifecycle, absences : 0..ClosureThreshold, reason : Reason,
   current : Content]

Event == [type : ChangeType, poll : Polls]

LEMMA EachRow ==
  ASSUME TypeOK
  PROVE  /\ jobs \in Seq(Job)
         /\ \A j \in DOMAIN jobs : jobs[j] \in Job
         /\ \A p \in Postings : posting[p] \in Row /\ events[p] \in Seq(Event)
<1>1. jobs \in Seq(Job)
  BY DEF TypeOK, Job
<1>2. \A j \in DOMAIN jobs : jobs[j] \in Job
  BY <1>1, ElementOfSeq
<1>3. QED
  BY <1>1, <1>2 DEF TypeOK, Row, Event

(* A listing is what a parse reads of a posting that it lists.             *)
LEMMA ParsedContents ==
  ASSUME TypeOK, NEW j \in DOMAIN jobs, NEW p \in Postings
  PROVE  Parsed(j, p) \in Content /\ (Lists(j, p) => Parsed(j, p) \in Listing)
<1>1. jobs[j].snapshot \in [Postings -> Content]
  BY EachRow, PostingLifecycleAssumption DEF Job
<1>2. QED
  BY <1>1 DEF Parsed, Lists, Content

(* The snapshot that a 304 response is recorded against is one that was    *)
(* recorded before.                                                        *)
LEMMA NewestIsRecorded ==
  ASSUME TypeOK, recorded # << >>
  PROVE  NewestSnapshot \in Bodies
<1> DEFINE firsts == {i \in DOMAIN recorded : FirstPoll(i) = i}
<1>1. Len(recorded) \in Nat /\ DOMAIN recorded = 1..Len(recorded) /\ 1 \in DOMAIN recorded
  BY EmptySeq DEF TypeOK
<1>2. {k \in 1..1 : recorded[k] = recorded[1]} = {1}
  OBVIOUS
<1>3. FirstPoll(1) = 1
  <2>1. Min({1}) \in {1}
    BY LeastElement
  <2>2. QED
    BY <2>1, <1>2 DEF FirstPoll
<1>4. firsts \subseteq 1..Len(recorded) /\ firsts # {}
  BY <1>1, <1>3
<1>5. Max(firsts) \in DOMAIN recorded
  BY <1>1, <1>4, GreatestElement
<1>6. QED
  BY <1>5, ElementOfSeq DEF NewestSnapshot, TypeOK

(* The rows that a parse writes are rows.                                  *)
LEMMA RowsAreTyped ==
  ASSUME TypeOK, NEW j \in DOMAIN jobs, NEW p \in Postings
  PROVE  /\ NewPosting(j, p) \in Row
         /\ NewObservation(j, p) \in Observed \cup {"none"}
         /\ NewEvents(j, p) \in Seq(Event)
<1>1. jobs[j].poll \in Polls
  BY EachRow DEF Job
<1>2. posting[p] \in Row
  BY EachRow
<1>3. Absences(p) \in 0..ClosureThreshold
  BY <1>2, LeastOfTwo, PostingLifecycleAssumption DEF Absences, Row
<1>4. NewPosting(j, p) \in Row
  <2>1. CASE Lists(j, p)
    <3>1. Parsed(j, p) \in Content
      BY ParsedContents
    <3>2. FoundPosting(j, p) \in Row
      BY <3>1, PostingLifecycleAssumption DEF FoundPosting, Row, Lifecycle, Reason
    <3>3. QED
      BY <2>1, <3>2 DEF NewPosting, CountsAsAbsent
  <2>2. CASE ~Lists(j, p)
    <3>1. AbsentPosting(j, p) \in Row
      <4>1. [posting[p] EXCEPT !.lifecycle = "closed", !.absences = Absences(p),
                               !.reason = "absence"] \in Row
        BY <1>2, <1>3 DEF Row, Lifecycle, Reason
      <4>2. [posting[p] EXCEPT !.absences = Absences(p)] \in Row
        BY <1>2, <1>3 DEF Row
      <4>3. QED
        BY <4>1, <4>2 DEF AbsentPosting
    <3>2. QED
      BY <2>2, <1>2, <3>1 DEF NewPosting
  <2>3. QED
    BY <2>1, <2>2
<1>5. NewObservation(j, p) \in Observed \cup {"none"}
  BY <1>1 DEF NewObservation, Observed, TypeOK
<1>6. ChangeOf(j, p) \in ChangeType
  BY DEF ChangeOf, ChangeType
<1>7. NewEvents(j, p) \in Seq(Event)
  <2>1. \A type \in ChangeType : <<[type |-> type, poll |-> jobs[j].poll]>> \in Seq(Event)
    BY <1>1 DEF Event
  <2>2. "closed" \in ChangeType /\ << >> \in Seq(Event)
    BY DEF ChangeType
  <2>3. QED
    BY <1>6, <2>1, <2>2 DEF NewEvents
<1>8. QED
  BY <1>4, <1>5, <1>7

-----------------------------------------------------------------------------
(* The steps of the system.                                                *)

(* No step takes a parse run, its snapshot or its result away.             *)
JobsKept ==
  \A j \in DOMAIN jobs :
    /\ j \in DOMAIN jobs'
    /\ jobs'[j].snapshot = jobs[j].snapshot
    /\ jobs'[j].poll = jobs[j].poll
    /\ jobs'[j].reprocess = jobs[j].reprocess
    /\ jobs[j].status \in {"succeeded", "failed"} => jobs'[j] = jobs[j]

PollsKept ==
  /\ \A i \in DOMAIN recorded : i \in DOMAIN recorded' /\ recorded'[i] = recorded[i]
  /\ \A i \in DOMAIN recorded' : i \in DOMAIN recorded \/ i \in Polls

(* Every step but a parse that succeeds leaves the postings alone.         *)
LEMMA StepsOfTheSystem ==
  ASSUME TypeInv, [Next]_vars
  PROVE  /\ JobsKept
         /\ PollsKept
         /\ UNCHANGED <<applied, postingVars>> \/ \E w \in Workers : ParseSucceeds(w)
<1> USE DEF TypeInv
<1>1. jobs \in Seq(Job) /\ recorded \in Seq(Bodies)
  BY EachRow DEF TypeOK
<1>2. ASSUME NEW snapshot, NEW i, NEW reprocess \in BOOLEAN,
             ScheduleParse(snapshot, i, reprocess)
      PROVE  JobsKept
  BY <1>1, <1>2 DEF ScheduleParse, JobsKept
<1>3. ASSUME NEW j \in DOMAIN jobs, NEW s \in {"started", "succeeded", "failed"},
             jobs[j].status \in {"queued", "started"},
             jobs' = [jobs EXCEPT ![j].status = s]
      PROVE  JobsKept
  BY <1>1, <1>3 DEF JobsKept, Job
<1>4. ASSUME NEW body \in Bodies, NEW snapshot \in Bodies, Record(body, snapshot)
      PROVE  JobsKept /\ PollsKept /\ UNCHANGED <<applied, postingVars>>
  <2>1. JobsKept
    BY <1>2, <1>4 DEF Record
  <2>2. PollsKept
    <3>1. Len(recorded) + 1 \in Polls
      BY <1>1, <1>4, PostingLifecycleAssumption DEF Record, Polls, TypeOK
    <3>2. QED
      BY <1>1, <1>4, <3>1 DEF Record, PollsKept
  <2>3. QED
    BY <1>4, <2>1, <2>2 DEF Record
<1>5. ASSUME NEW i \in Polls, Reparse(i)
      PROVE  JobsKept /\ PollsKept /\ UNCHANGED <<applied, postingVars>>
  BY <1>2, <1>5 DEF Reparse, PollsKept, pollVars
<1>6. ASSUME NEW w \in Workers, NEW j \in DOMAIN jobs, NEW recoverStarted \in BOOLEAN,
             BeginParse(w, j, recoverStarted)
      PROVE  JobsKept /\ PollsKept /\ UNCHANGED <<applied, postingVars>>
  BY <1>3, <1>6 DEF BeginParse, PollsKept, pollVars
<1>7. ASSUME NEW w \in Workers, Started(w) PROVE holding[w] \in DOMAIN jobs
  BY <1>1, <1>7 DEF Started, TypeOK
<1>8. ASSUME NEW w \in Workers, ParseSucceeds(w) PROVE JobsKept /\ PollsKept
  <2>1. PICK j \in DOMAIN jobs : j = holding[w]
    BY <1>7, <1>8 DEF ParseSucceeds
  <2>2. /\ jobs[j].status = "started"
        /\ jobs' = [jobs EXCEPT ![j].status = "succeeded"]
        /\ UNCHANGED pollVars
    BY <1>8, <2>1 DEF ParseSucceeds, Started
  <2>3. JobsKept
    BY <1>3, <2>1, <2>2
  <2>4. QED
    BY <2>2, <2>3 DEF PollsKept, pollVars
<1>9. ASSUME NEW w \in Workers, ParseFails(w)
      PROVE  JobsKept /\ PollsKept /\ UNCHANGED <<applied, postingVars>>
  <2>1. PICK j \in DOMAIN jobs : j = holding[w]
    BY <1>7, <1>9 DEF ParseFails
  <2>2. /\ jobs[j].status = "started"
        /\ jobs' = [jobs EXCEPT ![j].status = "failed"]
        /\ UNCHANGED <<pollVars, applied, postingVars>>
    BY <1>9, <2>1 DEF ParseFails, Started
  <2>3. JobsKept
    BY <1>3, <2>1, <2>2
  <2>4. QED
    BY <2>2, <2>3 DEF PollsKept, pollVars
<1>10. ASSUME NEW w \in Workers, ParseEnds(w) \/ UNCHANGED vars
      PROVE  JobsKept /\ PollsKept /\ UNCHANGED <<applied, postingVars>>
  BY <1>10 DEF ParseEnds, JobsKept, PollsKept, pollVars, vars
<1>11. CASE UNCHANGED vars
  BY <1>11 DEF JobsKept, PollsKept, pollVars, vars
<1>12. CASE Next
  <2>1. ASSUME NEW b \in Bodies, PollFetches(b)
        PROVE  JobsKept /\ PollsKept /\ UNCHANGED <<applied, postingVars>>
    BY <1>4, <2>1 DEF PollFetches
  <2>2. CASE PollNotModified
    <3>1. served[Len(served)] \in Bodies /\ recorded # << >>
      BY <1>1, <2>2, EmptySeq DEF PollNotModified, TypeOK
    <3>2. QED
      BY <1>4, <2>2, <3>1, NewestIsRecorded DEF PollNotModified
  <2>3. QED
    BY <1>5, <1>6, <1>8, <1>9, <1>10, <1>12, <2>1, <2>2 DEF Next
<1>13. QED
  BY <1>11, <1>12

(* Types.                                                                  *)
LEMMA TypeStep ==
  ASSUME TypeInv, [Next]_vars
  PROVE  TypeInv'
<1> USE DEF TypeInv
<1>1. /\ jobs \in Seq(Job) /\ recorded \in Seq(Bodies) /\ served \in Seq(Bodies)
      /\ applied \in Seq(DOMAIN jobs)
      /\ holding \in [Workers -> 0..Len(jobs)]
  BY EachRow DEF TypeOK
<1>2. ASSUME NEW body \in Bodies, NEW snapshot \in Bodies, Record(body, snapshot)
      PROVE  TypeInv'
  <2>1. Len(served) + 1 \in Polls
    BY <1>1, <1>2, PostingLifecycleAssumption DEF Record, Polls
  <2> DEFINE job == [snapshot |-> snapshot, poll |-> Len(served) + 1,
                     reprocess |-> FALSE, status |-> "queued"]
  <2>2. job \in Job
    BY <2>1 DEF Job
  <2> HIDE DEF job
  <2>3. jobs' = Append(jobs, job)
    BY <1>2 DEF Record, ScheduleParse, job
  <2>4. jobs' \in Seq(Job) /\ Len(jobs') = Len(jobs) + 1
    BY <1>1, <2>2, <2>3
  <2>5. applied \in Seq(DOMAIN jobs')
    BY <1>1, <2>4, SeqMonotonic
  <2>6. served' \in Seq(Bodies) /\ recorded' \in Seq(Bodies) /\ Len(served') = Len(recorded')
    BY <1>1, <1>2 DEF Record
  <2>7. holding \in [Workers -> 0..Len(jobs')]
    BY <1>1, <2>4
  <2>8. QED
    BY <1>2, <2>4, <2>5, <2>6, <2>7 DEF Record, TypeOK, Job, postingVars
<1>3. ASSUME NEW i \in Polls, Reparse(i)
      PROVE  TypeInv'
  <2> DEFINE job == [snapshot |-> recorded[i], poll |-> i,
                     reprocess |-> TRUE, status |-> "queued"]
  <2>1. recorded[i] \in Bodies
    BY <1>1, <1>3 DEF Reparse
  <2>2. job \in Job
    BY <2>1 DEF Job
  <2> HIDE DEF job
  <2>3. jobs' = Append(jobs, job)
    BY <1>3 DEF Reparse, ScheduleParse, job
  <2>4. jobs' \in Seq(Job) /\ Len(jobs') = Len(jobs) + 1
    BY <1>1, <2>2, <2>3
  <2>5. applied \in Seq(DOMAIN jobs')
    BY <1>1, <2>4, SeqMonotonic
  <2>6. holding \in [Workers -> 0..Len(jobs')]
    BY <1>1, <2>4
  <2>7. QED
    BY <1>3, <2>4, <2>5, <2>6 DEF Reparse, TypeOK, Job, postingVars, pollVars
<1>4. ASSUME NEW j \in DOMAIN jobs, NEW s \in {"started", "succeeded", "failed"},
             jobs' = [jobs EXCEPT ![j].status = s]
      PROVE  jobs' \in Seq(Job) /\ Len(jobs') = Len(jobs)
  <2>1. [jobs[j] EXCEPT !.status = s] \in Job
    <3>1. jobs[j] \in Job
      BY EachRow
    <3>2. QED
      BY <3>1 DEF Job
  <2>2. QED
    BY <1>1, <1>4, <2>1, ExceptSeq
<1>5. ASSUME NEW w \in Workers, NEW j \in DOMAIN jobs, NEW recoverStarted \in BOOLEAN,
             BeginParse(w, j, recoverStarted)
      PROVE  TypeInv'
  <2>1. jobs' \in Seq(Job) /\ Len(jobs') = Len(jobs)
    BY <1>4, <1>5 DEF BeginParse
  <2>2. holding' \in [Workers -> 0..Len(jobs')]
    BY <1>1, <1>5, <2>1 DEF BeginParse
  <2>3. applied \in Seq(DOMAIN jobs')
    BY <1>1, <2>1
  <2>4. QED
    BY <1>5, <2>1, <2>2, <2>3 DEF BeginParse, TypeOK, Job, postingVars, pollVars
<1>6. ASSUME NEW w \in Workers, Release(w)
      PROVE  holding' \in [Workers -> 0..Len(jobs)]
  BY <1>1, <1>6 DEF Release
<1>7. ASSUME NEW w \in Workers, ParseFails(w)
      PROVE  TypeInv'
  <2>1. PICK j \in DOMAIN jobs : j = holding[w]
    BY <1>1, <1>7 DEF ParseFails, Started
  <2>2. jobs' \in Seq(Job) /\ Len(jobs') = Len(jobs)
    BY <1>4, <1>7, <2>1 DEF ParseFails
  <2>3. holding' \in [Workers -> 0..Len(jobs')]
    BY <1>6, <1>7, <2>2 DEF ParseFails
  <2>4. applied \in Seq(DOMAIN jobs')
    BY <1>1, <2>2
  <2>5. QED
    BY <1>7, <2>2, <2>3, <2>4 DEF ParseFails, TypeOK, Job, postingVars, pollVars
<1>8. ASSUME NEW w \in Workers, ParseSucceeds(w)
      PROVE  TypeInv'
  <2>1. PICK j \in DOMAIN jobs : j = holding[w]
    BY <1>1, <1>8 DEF ParseSucceeds, Started
  <2>2. jobs' \in Seq(Job) /\ Len(jobs') = Len(jobs)
    BY <1>4, <1>8, <2>1 DEF ParseSucceeds
  <2>3. holding' \in [Workers -> 0..Len(jobs')]
    BY <1>6, <1>8, <2>2 DEF ParseSucceeds
  <2>4. applied' \in Seq(DOMAIN jobs')
    BY <1>1, <1>8, <2>1, <2>2 DEF ParseSucceeds
  <2>5. /\ posting' = [p \in Postings |-> NewPosting(j, p)]
        /\ observations' = [p \in Postings |->
             [observations[p] EXCEPT ![jobs[j].poll] = NewObservation(j, p)]]
        /\ events' = [p \in Postings |-> events[p] \o NewEvents(j, p)]
    BY <1>8, <2>1 DEF ParseSucceeds
  <2>6. posting' \in [Postings -> Row]
    BY <2>5, RowsAreTyped
  <2>7. observations' \in [Postings -> [Polls -> Observed \cup {"none"}]]
    BY <2>5, RowsAreTyped DEF TypeOK
  <2>8. events' \in [Postings -> Seq(Event)]
    <3>1. \A p \in Postings : events[p] \o NewEvents(j, p) \in Seq(Event)
      BY EachRow, RowsAreTyped, ConcatProperties
    <3>2. QED
      BY <2>5, <3>1
  <2>9. QED
    BY <1>8, <2>2, <2>3, <2>4, <2>6, <2>7, <2>8
    DEF ParseSucceeds, TypeOK, Job, Row, Event, pollVars
<1>9. ASSUME NEW w \in Workers, ParseEnds(w)
      PROVE  TypeInv'
  BY <1>6, <1>9 DEF ParseEnds, TypeOK, Job, postingVars, pollVars
<1>10. CASE UNCHANGED vars
  BY <1>10 DEF vars, TypeOK, Job, postingVars, pollVars
<1>11. CASE Next
  <2>1. ASSUME NEW b \in Bodies, PollFetches(b) PROVE TypeInv'
    BY <1>2, <2>1 DEF PollFetches
  <2>2. CASE PollNotModified
    <3>1. served[Len(served)] \in Bodies /\ recorded # << >>
      BY <1>1, <2>2, EmptySeq DEF PollNotModified
    <3>2. QED
      BY <1>2, <2>2, <3>1, NewestIsRecorded DEF PollNotModified
  <2>3. QED
    BY <1>3, <1>5, <1>7, <1>8, <1>9, <1>11, <2>1, <2>2 DEF Next
<1>12. QED
  BY <1>10, <1>11

-----------------------------------------------------------------------------
(* Parse runs.                                                             *)

(* What was applied before a step has its result after it.                 *)
LEMMA JobStep ==
  ASSUME JobInv, [Next]_vars
  PROVE  JobInv'
<1> USE DEF JobInv
<1>1. TypeInv'
  BY TypeStep
<1>2. JobsKept /\ PollsKept
  BY StepsOfTheSystem
<1>3. /\ jobs \in Seq(Job) /\ recorded \in Seq(Bodies) /\ Len(served) = Len(recorded)
      /\ applied \in Seq(DOMAIN jobs) /\ served \in Seq(Bodies)
  BY EachRow DEF TypeInv, TypeOK
<1>4. ASSUME UNCHANGED recorded, DOMAIN jobs' = DOMAIN jobs
      PROVE  JobsParseTheirPoll' /\ OneJobPerPoll'
  BY <1>2, <1>4 DEF JobsKept, JobsParseTheirPoll, OneJobPerPoll
<1>5. ASSUME UNCHANGED applied
      PROVE  AppliedSucceeded'
  <2>1. \A k \in DOMAIN applied : applied[k] \in DOMAIN jobs
    BY <1>3
  <2>2. QED
    BY <1>2, <1>5, <2>1 DEF JobsKept, AppliedSucceeded
<1>6. ASSUME NEW body \in Bodies, NEW snapshot \in Bodies, Record(body, snapshot)
      PROVE  JobsParseTheirPoll' /\ OneJobPerPoll' /\ AppliedSucceeded'
  <2> DEFINE job == [snapshot |-> snapshot, poll |-> Len(recorded) + 1,
                     reprocess |-> FALSE, status |-> "queued"]
  <2>1. Len(recorded) + 1 \in Polls
    BY <1>3, <1>6, PostingLifecycleAssumption DEF Record, Polls
  <2>2. job \in Job
    BY <2>1 DEF Job
  <2>3. jobs' = Append(jobs, job) /\ recorded' = Append(recorded, snapshot)
    BY <1>3, <1>6 DEF Record, ScheduleParse
  <2>4. job.poll = Len(recorded) + 1 /\ job.snapshot = snapshot
    OBVIOUS
  <2> HIDE DEF job
  <2>5. /\ DOMAIN jobs' = DOMAIN jobs \cup {Len(jobs) + 1}
        /\ jobs'[Len(jobs) + 1] = job
        /\ \A j \in DOMAIN jobs : jobs'[j] = jobs[j] /\ j # Len(jobs) + 1
    BY <1>3, <2>2, <2>3
  <2>6. /\ DOMAIN recorded' = DOMAIN recorded \cup {Len(recorded) + 1}
        /\ recorded'[Len(recorded) + 1] = snapshot
        /\ Len(recorded) + 1 \notin DOMAIN recorded
    BY <1>3, <2>3
  <2>7. JobsParseTheirPoll'
    BY <1>2, <2>4, <2>5, <2>6 DEF JobsParseTheirPoll, PollsKept
  <2>8. OneJobPerPoll'
    BY <2>4, <2>5, <2>6 DEF OneJobPerPoll, JobsParseTheirPoll
  <2>9. QED
    BY <1>5, <1>6, <2>7, <2>8 DEF Record
<1>7. ASSUME NEW i \in Polls, Reparse(i)
      PROVE  JobsParseTheirPoll' /\ OneJobPerPoll' /\ AppliedSucceeded'
  <2> DEFINE job == [snapshot |-> recorded[i], poll |-> i,
                     reprocess |-> TRUE, status |-> "queued"]
  <2>1. recorded[i] \in Bodies /\ i \in DOMAIN recorded
    BY <1>3, <1>7 DEF Reparse
  <2>2. job \in Job
    BY <2>1 DEF Job
  <2>3. jobs' = Append(jobs, job) /\ UNCHANGED recorded
    BY <1>7 DEF Reparse, ScheduleParse, pollVars
  <2>4. job.poll = i /\ job.snapshot = recorded[i] /\ job.reprocess
    OBVIOUS
  <2> HIDE DEF job
  <2>5. /\ DOMAIN jobs' = DOMAIN jobs \cup {Len(jobs) + 1}
        /\ jobs'[Len(jobs) + 1] = job
        /\ \A j \in DOMAIN jobs : jobs'[j] = jobs[j]
    BY <1>3, <2>2, <2>3
  <2>6. JobsParseTheirPoll'
    BY <2>1, <2>3, <2>4, <2>5 DEF JobsParseTheirPoll
  <2>7. OneJobPerPoll'
    BY <2>4, <2>5 DEF OneJobPerPoll
  <2>8. QED
    BY <1>5, <1>7, <2>6, <2>7 DEF Reparse
<1>8. ASSUME NEW w \in Workers, NEW j \in DOMAIN jobs, NEW recoverStarted \in BOOLEAN,
             BeginParse(w, j, recoverStarted)
      PROVE  JobsParseTheirPoll' /\ OneJobPerPoll' /\ AppliedSucceeded'
  BY <1>3, <1>4, <1>5, <1>8 DEF BeginParse, pollVars
<1>9. ASSUME NEW w \in Workers, ParseSucceeds(w)
      PROVE  JobsParseTheirPoll' /\ OneJobPerPoll' /\ AppliedSucceeded'
  <2>1. PICK j \in DOMAIN jobs : j = holding[w]
    BY <1>3, <1>9 DEF ParseSucceeds, Started, TypeInv, TypeOK
  <2>2. /\ UNCHANGED recorded
        /\ jobs' = [jobs EXCEPT ![j].status = "succeeded"]
        /\ applied' = Append(applied, j)
    BY <1>9, <2>1 DEF ParseSucceeds, pollVars
  <2>3. DOMAIN jobs' = DOMAIN jobs
    BY <2>2
  <2>4. \A k \in DOMAIN applied' :
          \/ applied'[k] = j
          \/ k \in DOMAIN applied /\ applied'[k] = applied[k]
    BY <1>3, <2>1, <2>2
  <2>5. jobs'[j].status = "succeeded"
    <3>1. jobs[j] \in Job
      BY <1>3
    <3>2. QED
      BY <2>1, <2>2, <3>1 DEF Job
  <2>6. AppliedSucceeded'
    <3>1. \A k \in DOMAIN applied : applied[k] \in DOMAIN jobs
      BY <1>3
    <3>2. QED
      BY <1>2, <2>4, <2>5, <3>1 DEF AppliedSucceeded, JobsKept
  <2>7. QED
    BY <1>4, <2>2, <2>3, <2>6
<1>10. ASSUME NEW w \in Workers, ParseFails(w)
      PROVE  JobsParseTheirPoll' /\ OneJobPerPoll' /\ AppliedSucceeded'
  BY <1>3, <1>4, <1>5, <1>10 DEF ParseFails, pollVars
<1>11. ASSUME NEW w \in Workers, ParseEnds(w)
      PROVE  JobsParseTheirPoll' /\ OneJobPerPoll' /\ AppliedSucceeded'
  BY <1>4, <1>5, <1>11 DEF ParseEnds, pollVars, vars
<1>12. CASE UNCHANGED vars
  BY <1>4, <1>5, <1>12, <1>1 DEF pollVars, vars
<1>13. CASE Next
  <2>1. ASSUME NEW b \in Bodies, PollFetches(b)
        PROVE  JobsParseTheirPoll' /\ OneJobPerPoll' /\ AppliedSucceeded'
    BY <1>6, <2>1 DEF PollFetches
  <2>2. ASSUME PollNotModified
        PROVE  JobsParseTheirPoll' /\ OneJobPerPoll' /\ AppliedSucceeded'
    <3>1. served[Len(served)] \in Bodies /\ recorded # << >>
      BY <1>3, <2>2, EmptySeq DEF PollNotModified
    <3>2. QED
      BY <1>6, <2>2, <3>1, NewestIsRecorded DEF PollNotModified, TypeInv
  <2>3. QED
    BY <1>1, <1>7, <1>8, <1>9, <1>10, <1>11, <1>13, <2>1, <2>2 DEF Next
<1>14. QED
  BY <1>12, <1>13, <1>1

-----------------------------------------------------------------------------
(* What a parse that succeeds does, and what the other steps leave alone.  *)

(* Run j is applied: it is the latest one, and it wrote the postings.      *)
Applies(j) ==
  /\ applied' = Append(applied, j)
  /\ posting' = [p \in Postings |-> NewPosting(j, p)]
  /\ observations' = [p \in Postings |->
       [observations[p] EXCEPT ![jobs[j].poll] = NewObservation(j, p)]]
  /\ events' = [p \in Postings |-> events[p] \o NewEvents(j, p)]
  /\ UNCHANGED recorded
  /\ jobs[j].status = "started"

LEMMA ParseApplies ==
  ASSUME TypeInv, NEW w \in Workers, ParseSucceeds(w)
  PROVE  \E j \in DOMAIN jobs : Applies(j)
<1>1. PICK j \in DOMAIN jobs : j = holding[w]
  BY DEF ParseSucceeds, Started, TypeInv, TypeOK
<1>2. Applies(j)
  BY <1>1 DEF ParseSucceeds, Started, Applies, pollVars
<1>3. QED
  BY <1>2

(* What was read of a posting stays so, as do the runs that read it.       *)
LEMMA ReadingsStay ==
  ASSUME TypeInv, JobsKept
  PROVE  \A k \in DOMAIN applied :
           /\ applied[k] \in DOMAIN jobs
           /\ jobs'[applied[k]].poll = jobs[applied[k]].poll
           /\ jobs'[applied[k]].reprocess = jobs[applied[k]].reprocess
           /\ \A p \in Postings :
                /\ jobs'[applied[k]].snapshot[p] = Parsed(applied[k], p)
                /\ (jobs'[applied[k]].snapshot[p] # NotListed) = Lists(applied[k], p)
<1>1. \A k \in DOMAIN applied : applied[k] \in DOMAIN jobs
  BY DEF TypeInv, TypeOK
<1>2. QED
  BY <1>1 DEF JobsKept, Parsed, Lists

(* The run that is applied is the last of those applied, and a poll's own  *)
(* run is applied once.                                                    *)
LEMMA AppliedLast ==
  ASSUME JobInv, JobsKept, NEW j \in DOMAIN jobs, Applies(j)
  PROVE  /\ Len(applied) \in Nat /\ DOMAIN applied = 1..Len(applied)
         /\ DOMAIN applied' = DOMAIN applied \cup {Len(applied) + 1}
         /\ applied'[Len(applied) + 1] = j
         /\ \A k \in DOMAIN applied : applied'[k] = applied[k] /\ applied[k] \in DOMAIN jobs
         /\ \A k \in DOMAIN applied :
              ~jobs[j].reprocess /\ ~jobs[applied[k]].reprocess =>
                jobs[applied[k]].poll # jobs[j].poll
<1>1. applied \in Seq(DOMAIN jobs)
  BY DEF JobInv, TypeInv, TypeOK
<1>2. \A k \in DOMAIN applied : applied[k] \in DOMAIN jobs /\ applied[k] # j
  BY <1>1 DEF JobInv, AppliedSucceeded, Applies
<1>3. QED
  BY <1>1, <1>2 DEF JobInv, OneJobPerPoll, Applies

(* The observations after run j.                                           *)
LEMMA ObservedAfter ==
  ASSUME TypeInv, NEW j \in DOMAIN jobs, Applies(j), NEW p \in Postings
  PROVE  /\ jobs[j].poll \in Polls
         /\ observations'[p][jobs[j].poll] = NewObservation(j, p)
         /\ \A i \in Polls : i # jobs[j].poll => observations'[p][i] = observations[p][i]
         /\ \A i \in Polls :
              observations[p][i] # "none" => observations'[p][i] = observations[p][i]
<1>1. jobs[j].poll \in Polls
  BY EachRow DEF TypeInv, Job
<1>2. observations[p] \in [Polls -> Observed \cup {"none"}]
  BY DEF TypeInv, TypeOK
<1>3. observations'[p] = [observations[p] EXCEPT ![jobs[j].poll] = NewObservation(j, p)]
  BY DEF Applies
<1>4. QED
  BY <1>1, <1>2, <1>3 DEF NewObservation, ObservationIsNew

(* Who observed what.                                                      *)
LEMMA ObservedByParseStep ==
  ASSUME JobInv, ObservedByParse, [Next]_vars
  PROVE  ObservedByParse'
<1> USE DEF JobInv
<1>1. JobsKept
  BY StepsOfTheSystem
<1>2. CASE UNCHANGED <<applied, postingVars>>
  <2>1. /\ UNCHANGED <<applied, observations>>
    BY <1>2 DEF postingVars
  <2>2. QED
    BY <1>1, <2>1, ReadingsStay DEF ObservedByParse, Lists, Parsed
<1>3. ASSUME NEW j \in DOMAIN jobs, Applies(j)
      PROVE  ObservedByParse'
  <2> DEFINE n == Len(applied) + 1
  <2>1. /\ DOMAIN applied' = DOMAIN applied \cup {n}
        /\ applied'[n] = j
        /\ \A k \in DOMAIN applied : applied'[k] = applied[k]
    BY <1>1, <1>3, AppliedLast
  <2>2. /\ jobs'[j].poll = jobs[j].poll
        /\ jobs'[j].reprocess = jobs[j].reprocess
        /\ jobs'[j].snapshot = jobs[j].snapshot
    BY <1>1 DEF JobsKept
  <2> HIDE DEF n
  <2>3. ASSUME NEW p \in Postings, NEW i \in Polls, observations'[p][i] # "none"
        PROVE  \E k \in DOMAIN applied' :
                 /\ jobs'[applied'[k]].poll = i
                 /\ \/ ~jobs'[applied'[k]].reprocess
                    \/ jobs'[applied'[k]].snapshot[p] # NotListed
    <3>1. CASE observations[p][i] # "none"
      <4>1. PICK k \in DOMAIN applied :
              /\ jobs[applied[k]].poll = i
              /\ ~jobs[applied[k]].reprocess \/ Lists(applied[k], p)
        BY <3>1 DEF ObservedByParse
      <4>2. /\ jobs'[applied[k]].poll = i
            /\ \/ ~jobs'[applied[k]].reprocess
               \/ jobs'[applied[k]].snapshot[p] # NotListed
        BY <1>1, <4>1, ReadingsStay
      <4>3. QED
        BY <2>1, <4>2
    <3>2. CASE observations[p][i] = "none"
      <4>1. i = jobs[j].poll /\ NewObservation(j, p) # "none"
        BY <1>3, <2>3, <3>2, ObservedAfter
      <4>2. Lists(j, p) \/ ~jobs[j].reprocess
        BY <3>2, <4>1 DEF NewObservation, ObservationIsNew, CountsAsAbsent
      <4>3. QED
        BY <2>1, <2>2, <4>1, <4>2 DEF Lists, Parsed
    <3>3. QED
      BY <3>1, <3>2
  <2>4. QED
    BY <2>3 DEF ObservedByParse, Lists, Parsed
<1>4. QED
  BY <1>2, <1>3, ParseApplies, StepsOfTheSystem

(* An observation is new when its run writes it, and says what the run     *)
(* read; of a poll that nobody parsed nothing was observed.                *)
LEMMA ObservationsMatchStep ==
  ASSUME JobInv, ObservedByParse, ObservationsMatchSnapshots, [Next]_vars
  PROVE  ObservationsMatchSnapshots'
<1> USE DEF JobInv
<1>1. JobsKept /\ PollsKept
  BY StepsOfTheSystem
<1>2. CASE UNCHANGED <<applied, postingVars>>
  <2>1. UNCHANGED observations
    BY <1>2 DEF postingVars
  <2>2. ASSUME NEW p \in Postings, NEW i \in DOMAIN recorded', i \notin DOMAIN recorded
        PROVE  observations[p][i] = "none"
    <3>1. i \in Polls
      BY <1>1, <2>2 DEF PollsKept
    <3>2. SUFFICES ASSUME observations[p][i] # "none" PROVE FALSE
      OBVIOUS
    <3>3. PICK k \in DOMAIN applied : jobs[applied[k]].poll = i
      BY <3>1, <3>2 DEF ObservedByParse
    <3>4. applied[k] \in DOMAIN jobs
      BY DEF TypeInv, TypeOK
    <3>5. QED
      BY <2>2, <3>3, <3>4 DEF JobsParseTheirPoll
  <2>3. QED
    BY <1>1, <2>1, <2>2 DEF ObservationsMatchSnapshots, PollsKept
<1>3. ASSUME NEW j \in DOMAIN jobs, Applies(j)
      PROVE  ObservationsMatchSnapshots'
  <2>1. UNCHANGED recorded
    BY <1>3 DEF Applies
  <2>2. ASSUME NEW p \in Postings, NEW i \in DOMAIN recorded
        PROVE  LET c == recorded[i][p]
                   o == observations'[p][i] IN
               /\ o = "missing" => c = NotListed
               /\ o = "found" => c # NotListed /\ c.open
               /\ o = "explicit_closed" => c # NotListed /\ ~c.open
    <3>1. CASE i = jobs[j].poll
      <4>1. observations'[p][i] = NewObservation(j, p)
        BY <1>3, <3>1, ObservedAfter
      <4>2. Parsed(j, p) = recorded[i][p]
        BY <3>1 DEF JobsParseTheirPoll, Parsed
      <4>3. QED
        BY <3>1, <4>1, <4>2
        DEF NewObservation, ObservationIsNew, CountsAsAbsent, Lists, ObservationsMatchSnapshots
    <3>2. CASE i # jobs[j].poll
      <4>1. observations'[p][i] = observations[p][i]
        BY <1>3, <3>2, EachRow DEF Applies, TypeInv, TypeOK, Job
      <4>2. QED
        BY <4>1 DEF ObservationsMatchSnapshots
    <3>3. QED
      BY <3>1, <3>2
  <2>3. QED
    BY <2>1, <2>2 DEF ObservationsMatchSnapshots
<1>4. QED
  BY <1>2, <1>3, ParseApplies, StepsOfTheSystem

(* A run reports at most one event of a posting, of its poll, and only     *)
(* with the first observation of it.                                       *)
LEMMA ReportedEvents ==
  ASSUME TypeInv, NEW j \in DOMAIN jobs, Applies(j), NEW p \in Postings
  PROVE  \/ events'[p] = events[p]
         \/ /\ observations[p][jobs[j].poll] = "none"
            /\ observations'[p][jobs[j].poll] # "none"
            /\ \E type \in ChangeType :
                 events'[p] = Append(events[p], [type |-> type, poll |-> jobs[j].poll])
<1>1. /\ events[p] \in Seq(Event)
      /\ events'[p] = events[p] \o NewEvents(j, p)
      /\ jobs[j].poll \in Polls
  BY EachRow DEF Applies, TypeInv, Job
<1>2. CASE NewEvents(j, p) = << >>
  BY <1>1, <1>2
<1>3. ASSUME NEW type \in ChangeType,
             NewEvents(j, p) = <<[type |-> type, poll |-> jobs[j].poll]>>
      PROVE  events'[p] = Append(events[p], [type |-> type, poll |-> jobs[j].poll])
  <2>1. [type |-> type, poll |-> jobs[j].poll] \in Event
    BY <1>1 DEF Event
  <2>2. QED
    BY <1>1, <1>3, <2>1
<1>4. CASE ReportsListing(j, p) \/ ClosesByAbsence(j, p)
  <2>1. observations[p][jobs[j].poll] = "none" /\ observations'[p][jobs[j].poll] # "none"
    BY <1>4, ObservedAfter
    DEF ReportsListing, ClosesByAbsence, CountsAsAbsent, ObservationIsNew, NewObservation
  <2>2. \E type \in ChangeType :
          NewEvents(j, p) = <<[type |-> type, poll |-> jobs[j].poll]>>
    <3>1. ChangeOf(j, p) \in ChangeType /\ "closed" \in ChangeType
      BY DEF ChangeOf, ChangeType
    <3>2. QED
      BY <1>4, <3>1 DEF NewEvents
  <2>3. QED
    BY <1>3, <2>1, <2>2
<1>5. CASE ~ReportsListing(j, p) /\ ~ClosesByAbsence(j, p)
  BY <1>2, <1>5 DEF NewEvents
<1>6. QED
  BY <1>4, <1>5

LEMMA OneEventStep ==
  ASSUME TypeInv, OneEventPerObservation, [Next]_vars
  PROVE  OneEventPerObservation'
<1>1. CASE UNCHANGED <<applied, postingVars>>
  BY <1>1 DEF postingVars, OneEventPerObservation
<1>2. ASSUME NEW j \in DOMAIN jobs, Applies(j), NEW p \in Postings
      PROVE  /\ \A m, n \in DOMAIN events'[p] :
                  events'[p][m].poll = events'[p][n].poll => m = n
             /\ \A m \in DOMAIN events'[p] :
                  observations'[p][events'[p][m].poll] # "none"
  <2> DEFINE i == jobs[j].poll
             old == events[p]
  <2>1. /\ old \in Seq(Event)
        /\ \A m \in DOMAIN old : old[m] \in Event /\ old[m].poll \in Polls
    <3>1. old \in Seq(Event)
      BY EachRow DEF TypeInv
    <3>2. \A m \in DOMAIN old : old[m] \in Event
      BY <3>1, ElementOfSeq
    <3>3. QED
      BY <3>1, <3>2 DEF Event
  <2>2. \A k \in Polls : observations[p][k] # "none" => observations'[p][k] # "none"
    BY <1>2, ObservedAfter
  <2>3. CASE events'[p] = old
    BY <2>1, <2>2, <2>3 DEF OneEventPerObservation
  <2>4. ASSUME NEW type \in ChangeType, events'[p] = Append(old, [type |-> type, poll |-> i]),
               observations[p][i] = "none", observations'[p][i] # "none"
        PROVE  /\ \A m, n \in DOMAIN events'[p] :
                    events'[p][m].poll = events'[p][n].poll => m = n
               /\ \A m \in DOMAIN events'[p] :
                    observations'[p][events'[p][m].poll] # "none"
    <3>1. i \in Polls
      BY <1>2, ObservedAfter
    <3> DEFINE e == [type |-> type, poll |-> i]
    <3>2. e \in Event /\ e.poll = i
      BY <3>1 DEF Event
    <3>3. \A m \in DOMAIN old : old[m].poll # i
      BY <2>4 DEF OneEventPerObservation
    <3> HIDE DEF i, old, e
    <3>4. /\ DOMAIN events'[p] = DOMAIN old \cup {Len(old) + 1}
          /\ events'[p][Len(old) + 1] = e
          /\ \A m \in DOMAIN old : events'[p][m] = old[m]
      BY <2>1, <2>4, <3>2 DEF e
    <3>5. \A m, n \in DOMAIN old : old[m].poll = old[n].poll => m = n
      BY DEF OneEventPerObservation, old
    <3>6. \A m \in DOMAIN old : observations'[p][old[m].poll] # "none"
      BY <2>1, <2>2 DEF OneEventPerObservation, old
    <3>7. QED
      BY <2>4, <3>2, <3>3, <3>4, <3>5, <3>6
  <2>5. QED
    BY <1>2, <2>3, <2>4, ReportedEvents
<1>3. QED
  BY <1>1, <1>2, ParseApplies, StepsOfTheSystem DEF OneEventPerObservation

-----------------------------------------------------------------------------
(* The rows of the postings.                                               *)

(* The parses that listed a posting, after run j.                          *)
LEMMA SightingsAfter ==
  ASSUME JobInv, JobsKept, NEW j \in DOMAIN jobs, Applies(j), NEW p \in Postings
  PROVE  Sightings(p)' = IF Lists(j, p) THEN Sightings(p) \cup {Len(applied) + 1}
                         ELSE Sightings(p)
<1> DEFINE n == Len(applied) + 1
<1>1. /\ DOMAIN applied' = DOMAIN applied \cup {n}
      /\ applied'[n] = j
      /\ \A k \in DOMAIN applied : applied'[k] = applied[k]
  BY AppliedLast
<1> HIDE DEF n
<1>2. jobs'[j].snapshot = jobs[j].snapshot
  BY DEF JobsKept
<1>3. \A k \in DOMAIN applied :
        (jobs'[applied'[k]].snapshot[p] # NotListed) = Lists(applied[k], p)
  BY <1>1, ReadingsStay DEF JobInv
<1>4. (jobs'[applied'[n]].snapshot[p] # NotListed) = Lists(j, p)
  BY <1>1, <1>2 DEF Lists, Parsed
<1>5. Sightings(p)' = {k \in DOMAIN applied \cup {n} : jobs'[applied'[k]].snapshot[p] # NotListed}
  BY <1>1 DEF Sightings, Lists, Parsed
<1>6. QED
  BY <1>3, <1>4, <1>5 DEF Sightings, n

(* The last sighting, while there is one, is one of the parses.            *)
LEMMA LastSighting ==
  ASSUME JobInv, NEW p \in Postings, Sightings(p) # {}
  PROVE  /\ Max(Sightings(p)) \in DOMAIN applied
         /\ Lists(applied[Max(Sightings(p))], p)
         /\ \A k \in DOMAIN applied : k > Max(Sightings(p)) => ~Lists(applied[k], p)
<1>1. Len(applied) \in Nat /\ DOMAIN applied = 1..Len(applied)
  BY DEF JobInv, TypeInv, TypeOK
<1>2. Sightings(p) \subseteq 1..Len(applied)
  BY <1>1 DEF Sightings
<1>3. Max(Sightings(p)) \in Sightings(p) /\ \A k \in Sightings(p) : k <= Max(Sightings(p))
  BY <1>1, <1>2, GreatestElement
<1>4. PICK last \in 1..Len(applied) : last = Max(Sightings(p))
  BY <1>2, <1>3
<1>5. \A k \in DOMAIN applied : k > last => k \notin Sightings(p)
  BY <1>1, <1>3, <1>4
<1>6. QED
  BY <1>1, <1>3, <1>4, <1>5 DEF Sightings

(* The polls that missed a posting are finitely many.                      *)
LEMMA MissedIsFinite ==
  ASSUME JobInv, NEW p \in Postings, NEW k
  PROVE  IsFiniteSet(MissedSince(p, k)) /\ Cardinality(MissedSince(p, k)) \in Nat
<1>1. ASSUME NEW n \in DOMAIN applied PROVE jobs[applied[n]].poll \in Polls
  <2>1. applied[n] \in DOMAIN jobs
    BY DEF JobInv, TypeInv, TypeOK
  <2>2. jobs[applied[n]] \in Job
    BY <2>1, EachRow DEF JobInv, TypeInv
  <2>3. QED
    BY <2>2 DEF Job
<1>2. MissedSince(p, k) \subseteq 1..MaxPolls
  BY <1>1 DEF MissedSince, Polls
<1>3. IsFiniteSet(1..MaxPolls)
  BY FS_Interval, PostingLifecycleAssumption
<1>4. IsFiniteSet(MissedSince(p, k))
  BY <1>2, <1>3, FS_Subset
<1>5. QED
  BY <1>4, FS_CardinalityType

(* A step that applies nothing leaves the rows to what was read.           *)
LEMMA QuietRows ==
  ASSUME JobInv, JobsKept, UNCHANGED <<applied, postingVars>>,
         LifecycleFollowsHistory, SightedIsKnown
  PROVE  LifecycleFollowsHistory' /\ SightedIsKnown'
<1>1. UNCHANGED <<applied, posting>>
  BY DEF postingVars
<1>2. \A k \in DOMAIN applied :
        /\ jobs'[applied[k]].poll = jobs[applied[k]].poll
        /\ jobs'[applied[k]].reprocess = jobs[applied[k]].reprocess
        /\ \A p \in Postings :
             /\ jobs'[applied[k]].snapshot[p] = Parsed(applied[k], p)
             /\ (jobs'[applied[k]].snapshot[p] # NotListed) = Lists(applied[k], p)
  BY ReadingsStay DEF JobInv
<1>3. ASSUME NEW p \in Postings
      PROVE  Sightings(p)' = Sightings(p)
  BY <1>1, <1>2 DEF Sightings, Lists, Parsed
<1>4. ASSUME NEW p \in Postings, Sightings(p) # {}
      PROVE  LET k == Max(Sightings(p)) IN
             /\ MissedSince(p, k)' = MissedSince(p, k)
             /\ Parsed(applied[k], p)' = Parsed(applied[k], p)
  <2>1. PICK k \in DOMAIN applied : k = Max(Sightings(p))
    BY <1>4, LastSighting
  <2>2. (Max(Sightings(p)))' = k
    BY <1>3, <2>1
  <2>3. MissedSince(p, k)' = MissedSince(p, k)
    BY <1>1, <1>2 DEF MissedSince
  <2>4. Parsed(applied[k], p)' = Parsed(applied[k], p)
    BY <1>1, <1>2 DEF Parsed
  <2>5. QED
    BY <2>1, <2>2, <2>3, <2>4 DEF MissedSince, Parsed
<1>5. SightedIsKnown'
  BY <1>1, <1>3 DEF SightedIsKnown, Known
<1>6. QED
  BY <1>1, <1>3, <1>4, <1>5 DEF LifecycleFollowsHistory

(* A row that says what the last listing said, and how many polls missed   *)
(* the posting since.                                                      *)
RowSays(row, last, missed) ==
  /\ row.current = last
  /\ row.absences = Min({missed, ClosureThreshold})
  /\ row.reason = CASE ~last.open -> "explicit"
                    [] last.open /\ missed >= ClosureThreshold -> "absence"
                    [] OTHER -> "none"
  /\ row.lifecycle = "closed" <=> row.reason # "none"
  /\ row.lifecycle # "unseen"

LEMMA FoundRow ==
  ASSUME TypeInv, NEW j \in DOMAIN jobs, NEW p \in Postings, Lists(j, p)
  PROVE  RowSays(NewPosting(j, p), Parsed(j, p), 0)
<1>1. NewPosting(j, p) = FoundPosting(j, p)
  BY DEF NewPosting, CountsAsAbsent
<1>2. Min({0, ClosureThreshold}) = 0 /\ ~(0 >= ClosureThreshold)
  BY LeastOfTwo, PostingLifecycleAssumption
<1>3. Parsed(j, p).open \in BOOLEAN
  BY ParsedContents DEF TypeInv, Listing
<1>4. CASE Parsed(j, p).open
  BY <1>1, <1>2, <1>4 DEF RowSays, FoundPosting
<1>5. CASE ~Parsed(j, p).open
  BY <1>1, <1>2, <1>5 DEF RowSays, FoundPosting
<1>6. QED
  BY <1>3, <1>4, <1>5

LEMMA AbsentRow ==
  ASSUME TypeInv, NEW j \in DOMAIN jobs, NEW p \in Postings, CountsAsAbsent(j, p),
         NEW last, NEW missed \in Nat, RowSays(posting[p], last, missed)
  PROVE  RowSays(NewPosting(j, p), last, missed + 1)
<1>1. NewPosting(j, p) = AbsentPosting(j, p)
  BY DEF NewPosting, CountsAsAbsent
<1>2. posting[p] \in Row
  BY EachRow DEF TypeInv
<1>3. ClosureThreshold \in Nat \ {0}
  BY PostingLifecycleAssumption
<1>4. /\ posting[p].absences = IF missed <= ClosureThreshold THEN missed ELSE ClosureThreshold
      /\ Absences(p) = IF posting[p].absences + 1 <= ClosureThreshold
                       THEN posting[p].absences + 1 ELSE ClosureThreshold
      /\ Min({missed + 1, ClosureThreshold}) =
           IF missed + 1 <= ClosureThreshold THEN missed + 1 ELSE ClosureThreshold
  <2>1. posting[p].absences + 1 \in Nat
    BY <1>2, <1>3 DEF Row
  <2>2. QED
    BY <1>3, <2>1, LeastOfTwo DEF RowSays, Absences
<1>5. Absences(p) = Min({missed + 1, ClosureThreshold})
  BY <1>3, <1>4
<1>6. Absences(p) >= ClosureThreshold <=> missed + 1 >= ClosureThreshold
  BY <1>3, <1>4
<1>7. CASE ClosesByAbsence(j, p)
  <2>1. NewPosting(j, p) = [posting[p] EXCEPT !.lifecycle = "closed",
                              !.absences = Absences(p), !.reason = "absence"]
    BY <1>1, <1>7 DEF AbsentPosting
  <2>2. posting[p].reason = "none" /\ last.open /\ missed + 1 >= ClosureThreshold
    BY <1>6, <1>7 DEF ClosesByAbsence, RowSays
  <2>3. NewPosting(j, p).current = last /\ NewPosting(j, p).lifecycle = "closed"
        /\ NewPosting(j, p).absences = Absences(p) /\ NewPosting(j, p).reason = "absence"
    BY <1>2, <2>1 DEF Row, RowSays
  <2>4. QED
    BY <1>5, <2>2, <2>3 DEF RowSays
<1>8. CASE ~ClosesByAbsence(j, p)
  <2>1. NewPosting(j, p) = [posting[p] EXCEPT !.absences = Absences(p)]
    BY <1>1, <1>8 DEF AbsentPosting
  <2>2. /\ NewPosting(j, p).current = last
        /\ NewPosting(j, p).lifecycle = posting[p].lifecycle
        /\ NewPosting(j, p).absences = Absences(p)
        /\ NewPosting(j, p).reason = posting[p].reason
    BY <1>2, <2>1 DEF Row, RowSays
  <2>3. posting[p].lifecycle = "closed" \/ ~(missed + 1 >= ClosureThreshold)
    BY <1>6, <1>8 DEF ClosesByAbsence
  <2>4. missed >= ClosureThreshold => missed + 1 >= ClosureThreshold
    BY <1>3
  <2>5. QED
    BY <1>5, <2>2, <2>3, <2>4 DEF RowSays
<1>9. QED
  BY <1>7, <1>8

(* The poll's own run makes the first observation of the poll, unless a    *)
(* reparse for that poll listed the posting before.                        *)
LEMMA OwnRunObservesFirst ==
  ASSUME JobInv, JobsKept, ObservedByParse, NEW j \in DOMAIN jobs, Applies(j),
         ~jobs[j].reprocess, NEW p \in Postings,
         \A k \in DOMAIN applied : jobs[applied[k]].reprocess =>
           jobs[applied[k]].poll # jobs[j].poll \/ ~Lists(applied[k], p)
  PROVE  ObservationIsNew(j, p)
<1>1. jobs[j].poll \in Polls
  BY EachRow DEF JobInv, TypeInv, Job
<1>2. SUFFICES ASSUME observations[p][jobs[j].poll] # "none" PROVE FALSE
  BY DEF ObservationIsNew
<1>3. PICK k \in DOMAIN applied :
        /\ jobs[applied[k]].poll = jobs[j].poll
        /\ ~jobs[applied[k]].reprocess \/ Lists(applied[k], p)
  BY <1>1, <1>2 DEF ObservedByParse
<1>4. ~jobs[applied[k]].reprocess
  BY <1>3
<1>5. QED
  BY <1>3, <1>4, AppliedLast

(* The polls that missed a posting since parse k, after run j.             *)
LEMMA MissedAfter ==
  ASSUME JobInv, JobsKept, NEW j \in DOMAIN jobs, Applies(j), NEW p \in Postings
  PROVE  /\ \A k \in Nat : k = Len(applied) + 1 => MissedSince(p, k)' = {}
         /\ \A k \in DOMAIN applied :
              MissedSince(p, k)' = IF jobs[j].reprocess THEN MissedSince(p, k)
                                   ELSE MissedSince(p, k) \cup {jobs[j].poll}
<1> DEFINE n == Len(applied) + 1
<1>1. /\ Len(applied) \in Nat /\ DOMAIN applied = 1..Len(applied)
      /\ DOMAIN applied' = DOMAIN applied \cup {n}
      /\ applied'[n] = j
      /\ \A k \in DOMAIN applied : applied'[k] = applied[k]
  BY AppliedLast
<1>2. n \in Nat /\ n \notin DOMAIN applied /\ \A k \in DOMAIN applied : k \in Nat /\ k < n /\ ~(k > n)
  BY <1>1
<1>3. /\ jobs'[applied'[n]].poll = jobs[j].poll
      /\ jobs'[applied'[n]].reprocess = jobs[j].reprocess
      /\ \A k \in DOMAIN applied :
           /\ jobs'[applied'[k]].poll = jobs[applied[k]].poll
           /\ jobs'[applied'[k]].reprocess = jobs[applied[k]].reprocess
  BY <1>1, ReadingsStay DEF JobsKept, JobInv
<1>4. \A m \in DOMAIN applied' : ~(m > n)
  BY <1>1, <1>2
<1> HIDE DEF n
<1>5. \A k \in DOMAIN applied :
        {m \in DOMAIN applied' : m > k /\ ~jobs'[applied'[m]].reprocess}
        = {m \in DOMAIN applied : m > k /\ ~jobs[applied[m]].reprocess}
          \cup (IF jobs[j].reprocess THEN {} ELSE {n})
  BY <1>1, <1>2, <1>3
<1>6. ASSUME NEW k \in DOMAIN applied
      PROVE  MissedSince(p, k)' = IF jobs[j].reprocess THEN MissedSince(p, k)
                                  ELSE MissedSince(p, k) \cup {jobs[j].poll}
  BY <1>1, <1>3, <1>5 DEF MissedSince
<1>7. ASSUME NEW k \in Nat, k = n PROVE MissedSince(p, k)' = {}
  BY <1>4, <1>7 DEF MissedSince
<1>8. QED
  BY <1>6, <1>7 DEF n

LEMMA RowStep ==
  ASSUME JobInv, JobsKept, RowInv, NEW j \in DOMAIN jobs, Applies(j), NEW p \in Postings
  PROVE  IF Sightings(p)' = {} THEN posting'[p] = Unseen
         ELSE \A k \in Nat :
                k = Max(Sightings(p)') =>
                  RowSays(posting'[p], Parsed(applied[k], p)',
                          Cardinality(MissedSince(p, k)'))
<1> USE DEF RowInv
<1>1. /\ Len(applied) \in Nat /\ DOMAIN applied = 1..Len(applied)
      /\ DOMAIN applied' = DOMAIN applied \cup {Len(applied) + 1}
      /\ applied'[Len(applied) + 1] = j
      /\ \A k \in DOMAIN applied : applied'[k] = applied[k] /\ applied[k] \in DOMAIN jobs
  BY AppliedLast
<1>2. posting'[p] = NewPosting(j, p)
  BY DEF Applies
<1>3. TypeInv
  BY DEF JobInv
<1>4. Sightings(p) \subseteq 1..Len(applied)
  BY <1>1 DEF Sightings
<1>5. CASE Lists(j, p)
  <2>1. PICK n \in Nat : n = Len(applied) + 1
    BY <1>1
  <2>2. Sightings(p)' = Sightings(p) \cup {n}
    BY <1>5, <2>1, SightingsAfter
  <2>3. Max(Sightings(p)') = n
    <3> DEFINE S == Sightings(p) \cup {n}
    <3>1. S \subseteq 1..n /\ S # {} /\ n \in S
      BY <1>1, <1>4, <2>1
    <3> HIDE DEF S
    <3>2. Max(S) \in 1..n /\ n <= Max(S)
      BY <3>1, GreatestElement
    <3>3. Max(S) = n
      BY <2>1, <3>2
    <3>4. QED
      BY <2>2, <3>3 DEF S
  <2>4. MissedSince(p, n)' = {}
    BY <2>1, MissedAfter
  <2>5. Parsed(applied[n], p)' = Parsed(j, p)
    BY <1>1, <2>1 DEF Parsed, JobsKept
  <2>6. RowSays(posting'[p], Parsed(j, p), 0)
    BY <1>2, <1>3, <1>5, FoundRow
  <2>7. Cardinality(MissedSince(p, n)') = 0
    BY <2>4, FS_EmptySet
  <2>8. QED
    BY <2>2, <2>3, <2>5, <2>6, <2>7
<1>6. CASE ~Lists(j, p) /\ Sightings(p) = {}
  <2>1. Sightings(p)' = {}
    BY <1>6, SightingsAfter
  <2>2. posting[p] = Unseen
    BY <1>6 DEF LifecycleFollowsHistory
  <2>3. NewPosting(j, p) = posting[p]
    BY <1>6, <2>2 DEF NewPosting, CountsAsAbsent, Known, Unseen
  <2>4. QED
    BY <1>2, <2>1, <2>2, <2>3
<1>7. CASE ~Lists(j, p) /\ Sightings(p) # {}
  <2>1. PICK k \in DOMAIN applied : k = Max(Sightings(p))
    BY <1>7, LastSighting
  <2>2. Sightings(p)' = Sightings(p)
    BY <1>7, SightingsAfter
  <2> DEFINE last == Parsed(applied[k], p)
             missed == Cardinality(MissedSince(p, k))
  <2>3. Parsed(applied[k], p)' = last
    BY <1>1, <2>1, <1>3, ReadingsStay DEF Parsed
  <2>4. missed \in Nat /\ IsFiniteSet(MissedSince(p, k))
    BY MissedIsFinite
  <2>5. RowSays(posting[p], last, missed)
    BY <1>7, <2>1 DEF LifecycleFollowsHistory, SightedIsKnown, Known, RowSays
  <2>6. CASE jobs[j].reprocess
    <3>1. NewPosting(j, p) = posting[p]
      BY <1>7, <2>6 DEF NewPosting, CountsAsAbsent
    <3>2. MissedSince(p, k)' = MissedSince(p, k)
      BY <2>1, <2>6, MissedAfter
    <3>3. QED
      BY <1>2, <1>7, <2>1, <2>2, <2>3, <2>5, <3>1, <3>2
  <2>7. CASE ~jobs[j].reprocess
    <3>1. ASSUME NEW i \in DOMAIN applied, jobs[applied[i]].poll = jobs[j].poll
          PROVE  Lists(applied[i], p) = Lists(j, p)
      BY <1>1, <3>1 DEF JobInv, JobsParseTheirPoll, Lists, Parsed
    <3>2. ObservationIsNew(j, p)
      BY <1>7, <2>7, <3>1, OwnRunObservesFirst
    <3>3. CountsAsAbsent(j, p)
      BY <1>7, <2>7, <3>2 DEF CountsAsAbsent, SightedIsKnown
    <3>4. RowSays(NewPosting(j, p), last, missed + 1)
      BY <1>3, <2>4, <2>5, <3>3, AbsentRow
    <3>5. jobs[j].poll \notin MissedSince(p, k)
      BY <2>7, AppliedLast DEF MissedSince
    <3>6. MissedSince(p, k)' = MissedSince(p, k) \cup {jobs[j].poll}
      BY <2>1, <2>7, MissedAfter
    <3>7. Cardinality(MissedSince(p, k)') = missed + 1
      BY <2>4, <3>5, <3>6, FS_AddElement
    <3>8. QED
      BY <1>2, <1>7, <2>1, <2>2, <2>3, <3>4, <3>7
  <2>8. QED
    BY <2>6, <2>7
<1>8. QED
  BY <1>5, <1>6, <1>7

(* The rows go on saying what was read.                                    *)
LEMMA RowInvStep ==
  ASSUME JobInv, RowInv, [Next]_vars
  PROVE  RowInv'
<1> USE DEF RowInv
<1>1. JobsKept /\ JobInv'
  BY StepsOfTheSystem, JobStep DEF JobInv
<1>2. ObservedByParse'
  BY ObservedByParseStep
<1>3. CASE UNCHANGED <<applied, postingVars>>
  BY <1>1, <1>2, <1>3, QuietRows
<1>4. ASSUME NEW j \in DOMAIN jobs, Applies(j)
      PROVE  RowInv'
  <2>1. ASSUME NEW p \in Postings
        PROVE  /\ IF Sightings(p)' = {} THEN posting'[p] = Unseen
                  ELSE \A k \in Nat :
                         k = Max(Sightings(p)') =>
                           RowSays(posting'[p], Parsed(applied[k], p)',
                                   Cardinality(MissedSince(p, k)'))
               /\ Sightings(p)' # {} => Max(Sightings(p)') \in Nat
    <3>1. Sightings(p)' \subseteq 1..(Len(applied) + 1) /\ Len(applied) + 1 \in Nat
      BY <1>1, <1>4, AppliedLast DEF Sightings
    <3>2. Sightings(p)' # {} => Max(Sightings(p)') \in Nat
      BY <3>1, GreatestElement
    <3>3. QED
      BY <1>1, <1>4, <3>2, RowStep
  <2>2. LifecycleFollowsHistory'
    BY <2>1 DEF LifecycleFollowsHistory, RowSays
  <2>3. SightedIsKnown'
    BY <2>1 DEF SightedIsKnown, Known, RowSays
  <2>4. QED
    BY <1>2, <2>2, <2>3
<1>5. QED
  BY <1>3, <1>4, ParseApplies, StepsOfTheSystem DEF JobInv

-----------------------------------------------------------------------------
(* The change events.                                                      *)

TurnType == {"created", "closed", "reopened"}

(* An event that is no turn leaves the tale as it is.                      *)
LEMMA TaleGoesOn ==
  ASSUME NEW s \in Seq(Event), NEW l, Tells(s, l),
         NEW e \in Event, e.type \notin TurnType
  PROVE  Tells(Append(s, e), l)
<1> DEFINE t == Append(s, e)
<1>1. /\ DOMAIN t = DOMAIN s \cup {Len(s) + 1}
      /\ t[Len(s) + 1] = e
      /\ \A m \in DOMAIN s : t[m] = s[m]
  OBVIOUS
<1> HIDE DEF t
<1>2. Turns(t) = Turns(s)
  BY <1>1 DEF Turns, TurnType
<1>3. Turns(s) \subseteq 1..Len(s) /\ Len(s) \in Nat
  BY DEF Turns
<1>4. CASE Turns(s) = {}
  BY <1>2, <1>4 DEF Tells, t
<1>5. CASE Turns(s) # {}
  <2>1. Min(Turns(s)) \in Turns(s) /\ Max(Turns(s)) \in Turns(s)
    BY <1>3, <1>5, LeastElement, GreatestElement
  <2>2. \A m \in Turns(s) : t[m] = s[m]
    BY <1>1 DEF Turns
  <2> HIDE DEF t
  <2>3. Tells(t, l)
    BY <1>2, <2>1, <2>2 DEF Tells
  <2>4. QED
    BY <2>3 DEF t
<1>6. QED
  BY <1>4, <1>5

(* A turn that the state allows leads to the next state.                   *)
LEMMA TaleTurns ==
  ASSUME NEW s \in Seq(Event), NEW l, Tells(s, l), NEW e \in Event,
         \/ l = "unseen" /\ e.type \in {"created", "closed"}
         \/ l = "open" /\ e.type = "closed"
         \/ l = "closed" /\ e.type = "reopened"
  PROVE  Tells(Append(s, e), IF e.type = "closed" THEN "closed" ELSE "open")
<1> DEFINE t == Append(s, e)
           n == Len(s) + 1
<1>1. /\ n \in Nat /\ Len(s) \in Nat
      /\ DOMAIN s = 1..Len(s)
      /\ DOMAIN t = 1..n
      /\ t[n] = e
      /\ \A m \in DOMAIN s : t[m] = s[m] /\ m < n
  OBVIOUS
<1>2. Turns(s) \subseteq 1..Len(s) /\ Turns(s) \subseteq DOMAIN s
  BY <1>1 DEF Turns
<1> HIDE DEF t, n
<1>3. Turns(t) = Turns(s) \cup {n}
  <2>1. DOMAIN t = DOMAIN s \cup {n}
    BY <1>1 DEF n
  <2>2. QED
    BY <1>1, <2>1 DEF Turns
<1>4. Turns(t) \subseteq 1..n /\ n \in Turns(t)
  BY <1>1, <1>3 DEF Turns
<1>5. Max(Turns(t)) = n
  <2>1. Max(Turns(t)) \in 1..n /\ n <= Max(Turns(t))
    BY <1>1, <1>4, GreatestElement
  <2>2. QED
    BY <1>1, <2>1
<1>6. CASE Turns(s) = {}
  <2>1. Turns(t) = {n}
    BY <1>3, <1>6
  <2>2. Min(Turns(t)) = n
    BY <1>1, <2>1, LeastElement
  <2>3. l = "unseen"
    BY <1>6 DEF Tells
  <2>4. Tells(t, IF e.type = "closed" THEN "closed" ELSE "open")
    BY <1>1, <1>5, <2>1, <2>2, <2>3 DEF Tells
  <2>5. QED
    BY <2>4 DEF t
<1>7. CASE Turns(s) # {}
  <2> DEFINE a == Min(Turns(s))
             b == Max(Turns(s))
  <2>1. /\ a \in Turns(s) /\ \A k \in Turns(s) : a <= k
        /\ b \in Turns(s) /\ \A k \in Turns(s) : k <= b
    BY <1>1, <1>2, <1>7, LeastElement, GreatestElement
  <2>2. a \in 1..Len(s) /\ b \in 1..Len(s)
    BY <1>2, <2>1
  <2>3. /\ s[a].type \in {"created", "closed"}
        /\ l = IF s[b].type = "closed" THEN "closed" ELSE "open"
    BY <1>7 DEF Tells
  <2> HIDE DEF a, b
  <2>4. Min(Turns(t)) = a
    <3>1. Min(Turns(t)) \in Turns(t) /\ \A k \in Turns(t) : Min(Turns(t)) <= k
      BY <1>4, LeastElement
    <3>2. a \in Turns(t) /\ \A k \in Turns(t) : a <= k
      BY <1>1, <1>2, <1>3, <2>1, <2>2
    <3>3. Min(Turns(t)) \in Nat /\ a \in Nat
      BY <1>4, <2>2, <3>1
    <3>4. QED
      BY <3>1, <3>2, <3>3
  <2>5. e.type = IF s[b].type = "closed" THEN "reopened" ELSE "closed"
    BY <2>3
  <2>6. ASSUME NEW i \in Turns(t), NEW k \in Turns(t), i < k,
               \A x \in Turns(t) : x <= i \/ k <= x
        PROVE  t[k].type = IF t[i].type = "closed" THEN "reopened" ELSE "closed"
    <3>1. i \in Turns(s)
      BY <1>1, <1>3, <1>4, <2>6
    <3>2. CASE k = n
      <4>1. b <= i /\ i <= b
        BY <1>1, <1>2, <1>3, <2>1, <2>2, <2>6, <3>1, <3>2
      <4>2. i = b
        BY <1>2, <2>2, <3>1, <4>1
      <4>3. QED
        BY <1>1, <2>2, <2>5, <3>2, <4>2
    <3>3. CASE k # n
      <4>1. k \in Turns(s)
        BY <1>3, <3>3
      <4>2. \A x \in Turns(s) : x <= i \/ k <= x
        BY <1>3, <2>6
      <4>3. s[k].type = IF s[i].type = "closed" THEN "reopened" ELSE "closed"
        BY <2>6, <3>1, <4>1, <4>2 DEF Tells
      <4>4. t[k] = s[k] /\ t[i] = s[i]
        BY <1>1, <1>2, <3>1, <4>1
      <4>5. QED
        BY <4>3, <4>4
    <3>4. QED
      BY <3>2, <3>3
  <2>7. t[a].type \in {"created", "closed"}
    BY <1>1, <2>2, <2>3
  <2>8. Tells(t, IF e.type = "closed" THEN "closed" ELSE "open")
    BY <1>1, <1>4, <1>5, <2>4, <2>6, <2>7 DEF Tells
  <2>9. QED
    BY <2>8 DEF t
<1>8. QED
  BY <1>6, <1>7

(* The tale of a posting that no reparse has listed goes on with run j.    *)
LEMMA TaleStep ==
  ASSUME JobInv, JobsKept, ObservedByParse, EventsTellLifecycle,
         NEW j \in DOMAIN jobs, Applies(j), NEW p \in Postings,
         ~Reparsed(p), jobs[j].reprocess => ~Lists(j, p)
  PROVE  Tells(events'[p], posting'[p].lifecycle)
<1> DEFINE l == posting[p].lifecycle
           next == posting'[p].lifecycle
<1>1. /\ events[p] \in Seq(Event) /\ Tells(events[p], l)
      /\ posting[p] \in Row /\ l \in Lifecycle
      /\ jobs[j].poll \in Polls
  BY EachRow DEF EventsTellLifecycle, JobInv, TypeInv, Row, Job
<1>2. /\ posting'[p] = NewPosting(j, p)
      /\ events'[p] = events[p] \o NewEvents(j, p)
  BY DEF Applies
<1>3. ASSUME NewEvents(j, p) = << >>, next = l
      PROVE  Tells(events'[p], next)
  BY <1>1, <1>2, <1>3
<1>4. ASSUME NEW type \in ChangeType,
             NewEvents(j, p) = <<[type |-> type, poll |-> jobs[j].poll]>>,
             \/ type \notin TurnType /\ next = l
             \/ /\ \/ l = "unseen" /\ type \in {"created", "closed"}
                   \/ l = "open" /\ type = "closed"
                   \/ l = "closed" /\ type = "reopened"
                /\ next = IF type = "closed" THEN "closed" ELSE "open"
      PROVE  Tells(events'[p], next)
  <2> DEFINE e == [type |-> type, poll |-> jobs[j].poll]
  <2>1. e \in Event /\ e.type = type
    BY <1>1 DEF Event
  <2>2. events'[p] = Append(events[p], e)
    BY <1>1, <1>2, <1>4, <2>1
  <2> HIDE DEF e, l, next
  <2>3. QED
    BY <1>1, <1>4, <2>1, <2>2, TaleGoesOn, TaleTurns
<1>5. CASE Lists(j, p)
  <2>1. ~jobs[j].reprocess
    BY <1>5
  <2>2. ObservationIsNew(j, p)
    BY <2>1, OwnRunObservesFirst DEF Reparsed
  <2>3. NewEvents(j, p) = <<[type |-> ChangeOf(j, p), poll |-> jobs[j].poll]>>
    BY <1>5, <2>1, <2>2 DEF NewEvents, ReportsListing, ClosesByAbsence, CountsAsAbsent
  <2>4. next = IF Parsed(j, p).open THEN "open" ELSE "closed"
    BY <1>2, <1>5 DEF NewPosting, CountsAsAbsent, FoundPosting
  <2>5. ChangeOf(j, p) \in ChangeType
    BY DEF ChangeOf, ChangeType
  <2>6. CASE ~Parsed(j, p).open
    <3>1. ChangeOf(j, p) = IF l = "closed" THEN "unchanged" ELSE "closed"
      BY <2>6 DEF ChangeOf
    <3>2. QED
      BY <1>1, <1>4, <2>3, <2>4, <2>5, <2>6, <3>1 DEF TurnType, Lifecycle
  <2>7. CASE Parsed(j, p).open
    <3>1. CASE l = "closed"
      <4>1. ChangeOf(j, p) = "reopened"
        BY <2>7, <3>1 DEF ChangeOf, Known
      <4>2. QED
        BY <1>4, <2>3, <2>4, <2>5, <2>7, <3>1, <4>1
    <3>2. CASE l = "unseen"
      <4>1. ChangeOf(j, p) = "created"
        BY <2>7, <3>2 DEF ChangeOf, Known
      <4>2. QED
        BY <1>4, <2>3, <2>4, <2>5, <2>7, <3>2, <4>1
    <3>3. CASE l = "open"
      <4>1. ChangeOf(j, p) \in {"unchanged", "cosmetic", "material"}
        BY <2>7, <3>3 DEF ChangeOf, Known
      <4>2. QED
        BY <1>4, <2>3, <2>4, <2>5, <2>7, <3>3, <4>1 DEF TurnType
    <3>4. QED
      BY <1>1, <3>1, <3>2, <3>3 DEF Lifecycle
  <2>8. QED
    BY <2>6, <2>7
<1>6. CASE ClosesByAbsence(j, p)
  <2>1. l = "open" /\ CountsAsAbsent(j, p) /\ ~Lists(j, p)
    BY <1>1, <1>6 DEF ClosesByAbsence, CountsAsAbsent, Known, Lifecycle
  <2>2. NewEvents(j, p) = <<[type |-> "closed", poll |-> jobs[j].poll]>>
    BY <1>6, <2>1 DEF NewEvents, ReportsListing
  <2>3. next = "closed"
    BY <1>1, <1>2, <1>6, <2>1 DEF NewPosting, AbsentPosting, Row
  <2>4. "closed" \in ChangeType
    BY DEF ChangeType
  <2>5. QED
    BY <1>4, <2>1, <2>2, <2>3, <2>4
<1>7. CASE ~Lists(j, p) /\ ~ClosesByAbsence(j, p)
  <2>1. NewEvents(j, p) = << >>
    BY <1>7 DEF NewEvents, ReportsListing
  <2>2. next = l
    BY <1>1, <1>2, <1>7 DEF NewPosting, AbsentPosting, Row
  <2>3. QED
    BY <1>3, <2>1, <2>2
<1>8. QED
  BY <1>5, <1>6, <1>7

LEMMA EventsTellStep ==
  ASSUME JobInv, ObservedByParse, EventsTellLifecycle, [Next]_vars
  PROVE  EventsTellLifecycle'
<1>1. JobsKept /\ TypeInv
  BY StepsOfTheSystem DEF JobInv
<1>2. CASE UNCHANGED <<applied, postingVars>>
  <2>1. UNCHANGED <<applied, posting, events>>
    BY <1>2 DEF postingVars
  <2>2. \A p \in Postings : Reparsed(p)' = Reparsed(p)
    BY <1>1, <2>1, ReadingsStay DEF Reparsed, Lists, Parsed
  <2>3. QED
    BY <2>1, <2>2 DEF EventsTellLifecycle
<1>3. ASSUME NEW j \in DOMAIN jobs, Applies(j), NEW p \in Postings, ~Reparsed(p)'
      PROVE  ~Reparsed(p) /\ (jobs[j].reprocess => ~Lists(j, p))
  <2>1. /\ DOMAIN applied' = DOMAIN applied \cup {Len(applied) + 1}
        /\ applied'[Len(applied) + 1] = j
        /\ \A k \in DOMAIN applied : applied'[k] = applied[k]
    BY <1>1, <1>3, AppliedLast
  <2>2. \A k \in DOMAIN applied :
          ~(jobs[applied[k]].reprocess /\ Lists(applied[k], p))
    BY <1>1, <1>3, <2>1, ReadingsStay DEF Reparsed, Lists, Parsed
  <2>3. jobs[j].reprocess => ~Lists(j, p)
    BY <1>1, <1>3, <2>1 DEF Reparsed, Lists, Parsed, JobsKept
  <2>4. QED
    BY <2>2, <2>3 DEF Reparsed
<1>4. ASSUME NEW j \in DOMAIN jobs, Applies(j)
      PROVE  EventsTellLifecycle'
  BY <1>1, <1>3, <1>4, TaleStep DEF EventsTellLifecycle
<1>5. QED
  BY <1>1, <1>2, <1>4, ParseApplies, StepsOfTheSystem

-----------------------------------------------------------------------------
(* The theorems.                                                           *)

LEMMA InvInit ==
  ASSUME Init
  PROVE  PostingInv
<1> USE DEF Init
<1>1. TypeInv
  <2>1. 0 \in 0..ClosureThreshold
    BY PostingLifecycleAssumption
  <2>2. Unseen \in Row
    BY <2>1 DEF Unseen, Row, Lifecycle, Reason, Content
  <2>3. posting \in [Postings -> Row]
    BY <2>2
  <2>4. DOMAIN jobs = {} /\ Len(jobs) = 0
    OBVIOUS
  <2>5. applied \in Seq(DOMAIN jobs) /\ jobs \in Seq(Job) /\ holding \in [Workers -> 0..Len(jobs)]
    BY <2>4
  <2>6. QED
    BY <2>3, <2>5 DEF TypeInv, TypeOK, Row, Job
<1>2. \A p \in Postings :
        /\ Sightings(p) = {}
        /\ posting[p] = Unseen
        /\ events[p] = << >>
        /\ Turns(events[p]) = {}
  BY DEF Sightings, Turns
<1>3. JobInv
  BY <1>1 DEF JobInv, JobsParseTheirPoll, OneJobPerPoll, AppliedSucceeded
<1>4. RowInv
  BY <1>2 DEF RowInv, ObservedByParse, LifecycleFollowsHistory, SightedIsKnown
<1>5. ObservationsMatchSnapshots /\ OneEventPerObservation
  BY DEF ObservationsMatchSnapshots, OneEventPerObservation
<1>6. EventsTellLifecycle
  BY <1>2 DEF EventsTellLifecycle, Tells, Unseen
<1>7. QED
  BY <1>3, <1>4, <1>5, <1>6 DEF PostingInv

LEMMA InvNext ==
  ASSUME PostingInv, [Next]_vars
  PROVE  PostingInv'
BY JobStep, RowInvStep, ObservationsMatchStep, OneEventStep, EventsTellStep
DEF PostingInv, RowInv, JobInv

LEMMA InvHolds == Spec => []PostingInv
<1>1. Init => PostingInv
  BY InvInit
<1>2. PostingInv /\ [Next]_vars => PostingInv'
  BY InvNext
<1>3. QED
  BY <1>1, <1>2, PTL DEF Spec

(* The tables of apps/jobs hold what their columns allow, and a poll is    *)
(* recorded against one snapshot.                                          *)
THEOREM PostingTypes == Spec => [](TypeOK /\ Len(served) = Len(recorded))
<1>1. PostingInv => TypeOK /\ Len(served) = Len(recorded)
  BY DEF PostingInv, JobInv, TypeInv
<1>2. QED
  BY <1>1, InvHolds, PTL

(* The row of a posting is what the parses that succeeded say, in the      *)
(* order in which they did: _persist_result neither forgets nor counts a   *)
(* poll twice, whatever is redelivered, retried, reparsed or overtaken.    *)
THEOREM RowsFollowHistory == Spec => []LifecycleFollowsHistory
<1>1. PostingInv => LifecycleFollowsHistory
  BY DEF PostingInv, RowInv
<1>2. QED
  BY <1>1, InvHolds, PTL

(* An observation never contradicts the snapshot of its poll, be it        *)
(* written by the poll's own run or by a reparse for that poll.            *)
THEOREM ObservationsAreTrue == Spec => []ObservationsMatchSnapshots
<1>1. PostingInv => ObservationsMatchSnapshots
  BY DEF PostingInv
<1>2. QED
  BY <1>1, InvHolds, PTL

(* A posting and poll have one change event at most, and an observation    *)
(* when they have one.                                                     *)
THEOREM EventsAreUnique == Spec => []OneEventPerObservation
<1>1. PostingInv => OneEventPerObservation
  BY DEF PostingInv
<1>2. QED
  BY <1>1, InvHolds, PTL

(* The change events of a posting that no reparse listed are its life:     *)
(* _change_type and the closing by absence leave out no turn and repeat    *)
(* none.                                                                   *)
THEOREM EventsAreTheLife == Spec => []EventsTellLifecycle
<1>1. PostingInv => EventsTellLifecycle
  BY DEF PostingInv
<1>2. QED
  BY <1>1, InvHolds, PTL

(* Only a parse that succeeds touches the postings; results, observations  *)
(* and events stay as they were written.                                   *)
THEOREM HistoryStays == Spec => HistoryIsAppendOnly
<1> DEFINE Kept ==
      /\ postingVars' # postingVars => applied' # applied
      /\ \A j \in DOMAIN jobs :
           jobs[j].status \in {"succeeded", "failed"} => jobs'[j] = jobs[j]
      /\ \A p \in Postings :
           /\ \A i \in Polls : observations[p][i] # "none" =>
                observations'[p][i] = observations[p][i]
           /\ SubSeq(events'[p], 1, Len(events[p])) = events[p]
<1>1. ASSUME PostingInv, [Next]_vars PROVE Kept
  <2>1. TypeInv /\ JobsKept
    BY <1>1, StepsOfTheSystem DEF PostingInv, JobInv
  <2>2. \A p \in Postings : events[p] \in Seq(Event)
    BY <2>1, EachRow DEF TypeInv
  <2>3. CASE UNCHANGED <<applied, postingVars>>
    <3>1. \A p \in Postings : SubSeq(events[p], 1, Len(events[p])) = events[p]
      BY <2>2
    <3>2. QED
      BY <2>1, <2>3, <3>1 DEF postingVars, JobsKept
  <2>4. ASSUME NEW j \in DOMAIN jobs, Applies(j) PROVE Kept
    <3>1. applied' # applied
      <4>1. Len(applied') = Len(applied) + 1 /\ Len(applied) \in Nat
        BY <2>1, <2>4 DEF Applies, TypeInv, TypeOK
      <4>2. QED
        BY <4>1
    <3>2. ASSUME NEW p \in Postings
          PROVE  SubSeq(events'[p], 1, Len(events[p])) = events[p]
      <4>1. CASE events'[p] = events[p]
        BY <2>2, <4>1
      <4>2. ASSUME NEW e \in Event, events'[p] = Append(events[p], e)
            PROVE  SubSeq(events'[p], 1, Len(events[p])) = events[p]
        BY <2>2, <4>2
      <4>3. \A type \in ChangeType : [type |-> type, poll |-> jobs[j].poll] \in Event
        BY <2>1, <2>4, ObservedAfter DEF Event
      <4>4. QED
        BY <2>1, <2>4, <4>1, <4>2, <4>3, ReportedEvents
    <3>3. \A p \in Postings, i \in Polls :
            observations[p][i] # "none" => observations'[p][i] = observations[p][i]
      BY <2>1, <2>4, ObservedAfter
    <3>4. QED
      BY <2>1, <3>1, <3>2, <3>3 DEF JobsKept
  <2>5. QED
    BY <1>1, <2>1, <2>3, <2>4, ParseApplies, StepsOfTheSystem
<1>2. PostingInv /\ [Next]_vars => [Kept]_vars
  BY <1>1
<1> HIDE DEF Kept
<1>3. Spec => [][Kept]_vars
  BY <1>2, InvHolds, PTL DEF Spec
<1> USE DEF Kept
<1>4. QED
  BY <1>3 DEF HistoryIsAppendOnly
=============================================================================
