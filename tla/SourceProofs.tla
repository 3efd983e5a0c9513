---------------------------- MODULE SourceProofs ----------------------------
(***************************************************************************)
(* Proofs about SourceFetch, for any runs of the endpoint, workers, retry  *)
(* limits and failures of the environment, and about HttpFetch, for any    *)
(* URLs, redirects, addresses and limits.                                  *)
(***************************************************************************)
EXTENDS SourceFetch, HttpFetch, SequenceTheorems, FiniteSetTheorems, TLAPS

-----------------------------------------------------------------------------
(* The inductive invariant.                                                *)

(* A worker has a message while it is at work, and its attempt exists.     *)
WorkersHold ==
  \A w \in Workers :
    /\ message[w] = NoMessage <=> phase[w] = "idle"
    /\ phase[w] = "fetching" => working[w] \in DOMAIN attempts[message[w].run]

(* Only the newest attempt of a run may be STARTED or have succeeded.      *)
OlderAttemptsFailed ==
  \A r \in Runs : \A i \in DOMAIN attempts[r] :
    attempts[r][i] \in {"started"} \cup Success => i = Len(attempts[r])

Succeeded(r) == attempts[r] # << >> /\ Last(attempts[r]) \in Success

(* Run, candidate, step and the parse say what the newest attempt says; a  *)
(* 304 may or may not have a parse.                                        *)
RowsFollowAttempt ==
  \A r \in Runs :
    /\ parses[r] \in IF Succeeded(r) THEN {0, 1} ELSE {0}
    /\ Succeeded(r) /\ Last(attempts[r]) = "fetched" => parses[r] = 1
    /\ run[r] = "complete" <=> Succeeded(r)
    /\ candidate[r] = "registered" <=> Succeeded(r)
    /\ step[r] = "complete" <=> Succeeded(r)

(* A worker that will settle the attempt that is STARTED, or write it off. *)
Recovers(w, r) ==
  /\ Carries(message[w], r)
  /\ \/ phase[w] = "received" /\ RecoverStarted(message[w])
     \/ phase[w] = "fetching" /\ Live(w)

(* Such a worker, or a delivery that may take over what it finds STARTED.  *)
Recoverable(r) ==
  \/ \E m \in Message : queue[m] > 0 /\ m.run = r /\ RecoverStarted(m)
  \/ \E w \in Workers : Recovers(w, r)

StartedIsRecoverable ==
  \A r \in Runs :
    attempts[r] # << >> /\ Last(attempts[r]) = "started" /\ r \notin stranded =>
      Recoverable(r)

(* A worker that still has a say: not one whose attempt was taken over.    *)
Pursues(w, r) ==
  /\ Carries(message[w], r)
  /\ \/ phase[w] \in {"received", "retrying"}
     \/ phase[w] = "fetching" /\ Live(w)

Pursued(r) ==
  \/ \E m \in Message : queue[m] > 0 /\ m.run = r
  \/ \E w \in Workers : Pursues(w, r)

UnfinishedIsPursued ==
  \A r \in Runs :
    run[r] \in {"queued", "running"} /\ r \in published /\ r \notin stranded =>
      Pursued(r)

(* Only runs that exist are published.                                     *)
PublishedExists == \A r \in published : run[r] \notin {"absent", "refused"}

AttemptInv ==
  TypeOK /\ WorkersHold /\ OlderAttemptsFailed /\ AttemptsAreExclusive

DeliveryInv == StartedIsRecoverable /\ UnfinishedIsPursued /\ PublishedExists

SourceInv == AttemptInv /\ RowsFollowAttempt /\ DeliveryInv
-----------------------------------------------------------------------------
(* Facts about the operators of the model.                                 *)

(* What _begin_fetch makes of the attempts: a new one that is STARTED, and *)
(* the one before written off if it was.                                   *)
LEMMA BegunAttempts ==
  ASSUME NEW s \in Seq(AttemptState)
  PROVE  /\ Begun(s) \in Seq(AttemptState)
         /\ Len(Begun(s)) = Len(s) + 1
         /\ Begun(s)[Len(s) + 1] = "started"
         /\ \A i \in 1..Len(s) :
              Begun(s)[i] = IF i = Len(s) /\ s[i] = "started" THEN "failed" ELSE s[i]
<1>1. CASE s # << >> /\ Last(s) = "started"
  <2> DEFINE t == [s EXCEPT ![Len(s)] = "failed"]
  <2>1. Len(s) \in 1..Len(s)
    BY <1>1, EmptySeq
  <2>2. /\ t \in Seq(AttemptState)
        /\ Len(t) = Len(s)
        /\ \A i \in 1..Len(s) : t[i] = IF i = Len(s) THEN "failed" ELSE s[i]
    BY <2>1, ExceptSeq DEF Success, AttemptState
  <2>3. Begun(s) = Append(t, "started")
    BY <1>1 DEF Begun
  <2> HIDE DEF t
  <2>4. QED
    BY <1>1, <2>2, <2>3 DEF Last, Success, AttemptState
<1>2. CASE ~(s # << >> /\ Last(s) = "started")
  <2>1. Begun(s) = Append(s, "started")
    BY <1>2 DEF Begun
  <2>2. \A i \in 1..Len(s) : ~(i = Len(s) /\ s[i] = "started")
    BY <1>2 DEF Last
  <2>3. QED
    BY <2>1, <2>2 DEF Success, AttemptState
<1>3. QED
  BY <1>1, <1>2

(* The messages that are sent are messages.                                *)
LEMMA SentMessages ==
  /\ \A r \in Runs : Fresh(r) \in Message
  /\ \A m \in Message : m.retries < MaxRetries => Again(m) \in Message
  /\ \A m \in Message : Redelivered(m) \in Message
  /\ \A m \in Message : m.run \in Runs /\ m # NoMessage
<1>1. \A r \in Runs : Fresh(r) \in Message
  BY SourceFetchAssumption DEF Fresh, Message
<1>2. ASSUME NEW m \in Message, m.retries < MaxRetries PROVE Again(m) \in Message
  <2>1. m.retries + 1 \in 0..MaxRetries
    BY <1>2, SourceFetchAssumption DEF Message
  <2>2. [m EXCEPT !.retries = m.retries + 1] \in Message
    BY <2>1 DEF Message
  <2>3. Again(m) = [[m EXCEPT !.retries = m.retries + 1] EXCEPT !.delivery = "first"]
    BY DEF Again
  <2>4. QED
    BY <2>2, <2>3 DEF Message
<1>3. ASSUME NEW m \in Message PROVE Redelivered(m) \in Message
  BY DEF Redelivered, Message
<1>4. \A m \in Message : m.run \in Runs /\ m # NoMessage
  BY SourceFetchAssumption DEF Message
<1>5. QED
  BY <1>1, <1>2, <1>3, <1>4

(* A worker that is at work has a message about a run.                     *)
LEMMA WorkersMessage ==
  ASSUME TypeOK, WorkersHold, NEW w \in Workers, phase[w] # "idle"
  PROVE  message[w] \in Message /\ message[w].run \in Runs
BY SentMessages DEF TypeOK, WorkersHold

(* Sending a message keeps the queue a bag of messages.                    *)
LEMMA SendType ==
  ASSUME queue \in [Message -> Nat], NEW m \in Message, Send(m)
  PROVE  /\ queue' \in [Message -> Nat]
         /\ queue'[m] > 0
         /\ \A n \in Message : queue'[n] >= queue[n]
BY DEF Send

-----------------------------------------------------------------------------
(* What a step may do to the attempts.                                     *)

Results == {"failed", "blocked"} \cup Success

(* The result that a worker records is that of its own attempt.            *)
LEMMA SettledAttempts ==
  ASSUME TypeOK, WorkersHold, NEW w \in Workers, phase[w] = "fetching", Live(w),
         NEW result \in Results, Settle(w, result)
  PROVE  LET r == message[w].run IN
         /\ r \in Runs
         /\ working[w] \in 1..Len(attempts[r])
         /\ attempts' \in [Runs -> Seq(AttemptState)]
         /\ \A q \in Runs \ {r} : attempts'[q] = attempts[q]
         /\ Len(attempts'[r]) = Len(attempts[r])
         /\ \A i \in 1..Len(attempts[r]) :
              attempts'[r][i] = IF i = working[w] THEN result ELSE attempts[r][i]
<1> DEFINE r == message[w].run
           t == [attempts[r] EXCEPT ![working[w]] = result]
<1>1. r \in Runs
  BY WorkersMessage
<1>2. attempts[r] \in Seq(AttemptState) /\ working[w] \in 1..Len(attempts[r])
  BY <1>1 DEF Live, TypeOK
<1>3. /\ t \in Seq(AttemptState)
      /\ Len(t) = Len(attempts[r])
      /\ \A i \in 1..Len(attempts[r]) :
           t[i] = IF i = working[w] THEN result ELSE attempts[r][i]
  BY <1>2, ExceptSeq DEF Results, Success, AttemptState
<1>4. attempts' = [attempts EXCEPT ![r] = t]
  BY DEF Settle
<1> HIDE DEF t
<1>5. attempts'[r] = t /\ \A q \in Runs \ {r} : attempts'[q] = attempts[q]
  BY <1>1, <1>4 DEF TypeOK
<1>6. attempts' \in [Runs -> Seq(AttemptState)]
  BY <1>1, <1>3, <1>4 DEF TypeOK
<1>7. QED
  BY <1>1, <1>2, <1>3, <1>5, <1>6

(* A worker that begins adds an attempt to its run.                        *)
LEMMA BegunStep ==
  ASSUME TypeOK, WorkersHold, NEW w \in Workers, BeginFetch(w)
  PROVE  LET r == message[w].run
             n == Len(attempts[r]) IN
         /\ r \in Runs
         /\ n \in Nat
         /\ attempts' \in [Runs -> Seq(AttemptState)]
         /\ \A q \in Runs \ {r} : attempts'[q] = attempts[q]
         /\ Len(attempts'[r]) = n + 1
         /\ attempts'[r][n + 1] = "started"
         /\ \A i \in 1..n :
              attempts'[r][i] = IF i = n /\ attempts[r][i] = "started" THEN "failed"
                                ELSE attempts[r][i]
<1> DEFINE r == message[w].run
<1>1. r \in Runs
  BY WorkersMessage DEF BeginFetch
<1>2. attempts[r] \in Seq(AttemptState)
  BY <1>1 DEF TypeOK
<1>3. attempts' = [attempts EXCEPT ![r] = Begun(attempts[r])]
  BY DEF BeginFetch
<1>4. attempts'[r] = Begun(attempts[r]) /\ \A q \in Runs \ {r} : attempts'[q] = attempts[q]
  BY <1>1, <1>3 DEF TypeOK
<1>5. attempts' \in [Runs -> Seq(AttemptState)]
  BY <1>1, <1>2, <1>3, BegunAttempts DEF TypeOK
<1> DEFINE b == Begun(attempts[r])
<1>6. /\ Len(b) = Len(attempts[r]) + 1
      /\ b[Len(attempts[r]) + 1] = "started"
      /\ \A i \in 1..Len(attempts[r]) :
           b[i] = IF i = Len(attempts[r]) /\ attempts[r][i] = "started" THEN "failed"
                  ELSE attempts[r][i]
  BY <1>2, BegunAttempts
<1>7. Len(attempts[r]) \in Nat
  BY <1>2
<1> HIDE DEF b
<1>8. attempts'[r] = b
  BY <1>4 DEF b
<1>9. QED
  BY <1>1, <1>4, <1>5, <1>6, <1>7, <1>8

(* A worker's record of its result.                                        *)
Records(w) ==
  \/ \E answer \in Success : FetchSucceeds(w, answer)
  \/ \E result \in {"failed", "blocked"} : FetchRefused(w, result)
  \/ FetchFails(w)

LEMMA RecordsSettle ==
  ASSUME NEW w \in Workers, Records(w), Live(w)
  PROVE  \E result \in Results : Settle(w, result)
BY DEF Records, FetchSucceeds, FetchRefused, FetchFails, RecordSuccess, RecordFailure,
       Results

(* The rows of the runs change when one is submitted, by a beginning       *)
(* attempt, by a result whose attempt is still live, and by exhaustion.    *)
LEMMA RowsStep ==
  ASSUME [Next]_vars
  PROVE  \/ \E r \in Runs : Submit(r) \/ PollRegistered(r) \/ RefuseSubmission(r)
         \/ \E w \in Workers : BeginFetch(w)
         \/ \E w \in Workers : phase[w] = "fetching" /\ Live(w) /\ Records(w)
         \/ \E w \in Workers : MarkExhausted(w) /\ run[message[w].run] # "complete"
         \/ UNCHANGED <<run, candidate, step, attempts, parses>>
<1> DEFINE rows == <<run, candidate, step, attempts, parses>>
<1>1. ASSUME NEW r \in Runs, Publish(r) PROVE UNCHANGED rows
  BY <1>1 DEF Publish, rowVars
<1>2. ASSUME NEW result \in {"succeeded", "failed"}, OperatorBlocks \/ ParseReports(result)
      PROVE  UNCHANGED rows
  BY <1>2 DEF OperatorBlocks, ParseReports
<1>3. ASSUME NEW w \in Workers, Records(w)
      PROVE  phase[w] = "fetching" /\ (Live(w) \/ UNCHANGED rows)
  BY <1>3 DEF Records, FetchSucceeds, FetchRefused, FetchFails, RecordSuccess,
     RecordFailure, rowVars
<1>4. ASSUME NEW w \in Workers, MarkExhausted(w)
      PROVE  run[message[w].run] # "complete" \/ UNCHANGED rows
  BY <1>4 DEF MarkExhausted, RecordExhaustion, rowVars
<1>5. ASSUME NEW w \in Workers, SkipFetch(w) \/ RetryFetch(w) \/ Disturbance(w)
      PROVE  UNCHANGED rows
  BY <1>5 DEF SkipFetch, RetryFetch, Disturbance, DatabaseError, TaskAborts, WorkerLost,
     Redeliver, rowVars
<1>6. ASSUME NEW w \in Workers, NEW m \in Message, Receive(w, m) PROVE UNCHANGED rows
  BY <1>6 DEF Receive, rowVars
<1>7. ASSUME UNCHANGED vars PROVE UNCHANGED rows
  BY <1>7 DEF vars, rowVars
<1>8. ASSUME NEW w \in Workers, Progress(w)
      PROVE  \/ BeginFetch(w) \/ Records(w) \/ SkipFetch(w) \/ RetryFetch(w)
             \/ MarkExhausted(w)
  BY <1>8 DEF Progress, Records
<1>9. QED
  BY <1>1, <1>2, <1>3, <1>4, <1>5, <1>6, <1>7, <1>8 DEF Next

-----------------------------------------------------------------------------
(* Type correctness.                                                       *)

(* The rows of the runs keep their types, and no attempt is deleted.       *)
LEMMA RowsType ==
  ASSUME TypeOK, WorkersHold, [Next]_vars
  PROVE  /\ run' \in [Runs -> RunStatus]
         /\ candidate' \in [Runs -> CandidateState]
         /\ step' \in [Runs -> StepState]
         /\ attempts' \in [Runs -> Seq(AttemptState)]
         /\ parses' \in [Runs -> Nat]
         /\ \A r \in Runs : Len(attempts'[r]) >= Len(attempts[r])
<1> DEFINE Goal ==
      /\ run' \in [Runs -> RunStatus]
      /\ candidate' \in [Runs -> CandidateState]
      /\ step' \in [Runs -> StepState]
      /\ attempts' \in [Runs -> Seq(AttemptState)]
      /\ parses' \in [Runs -> Nat]
      /\ \A r \in Runs : Len(attempts'[r]) >= Len(attempts[r])
<1> DEFINE Grown ==
      /\ attempts' \in [Runs -> Seq(AttemptState)]
      /\ \A r \in Runs : Len(attempts'[r]) >= Len(attempts[r])
<1>0. /\ \A r \in Runs : Len(attempts[r]) \in Nat
      /\ UNCHANGED attempts => Grown
  BY DEF TypeOK
<1>1. ASSUME NEW r \in Runs, Submit(r) \/ PollRegistered(r) \/ RefuseSubmission(r) PROVE Goal
  <2>1. Grown
    BY <1>0, <1>1 DEF Submit, PollRegistered, Queued, RefuseSubmission
  <2>2. QED
    BY <1>1, <2>1 DEF Submit, PollRegistered, Queued, RefuseSubmission, TypeOK, RunStatus, CandidateState
<1>2. ASSUME NEW w \in Workers, BeginFetch(w) PROVE Goal
  <2>1. Grown
    BY <1>0, <1>2, BegunStep
  <2>2. QED
    BY <1>2, <2>1 DEF BeginFetch, TypeOK, RunStatus, StepState
<1>3. ASSUME NEW w \in Workers, phase[w] = "fetching", Live(w), Records(w) PROVE Goal
  <2>1. PICK result \in Results : Settle(w, result)
    BY <1>3, RecordsSettle
  <2>2. Grown
    BY <1>0, <1>3, <2>1, SettledAttempts
  <2>3. \/ \E answer \in Success : RecordSuccess(w, answer)
        \/ \E result2 \in {"failed", "blocked"}, newRun \in RunStatus,
             newCandidate \in CandidateState :
             RecordFailure(w, result2, newRun, newCandidate)
    BY <1>3 DEF Records, FetchSucceeds, FetchRefused, FetchFails, RunStatus, CandidateState
  <2>4. ASSUME NEW answer \in Success, RecordSuccess(w, answer) PROVE Goal
    <3>1. /\ run' \in [Runs -> RunStatus]
          /\ candidate' \in [Runs -> CandidateState]
          /\ step' \in [Runs -> StepState]
      BY <1>3, <2>4 DEF RecordSuccess, TypeOK, RunStatus, CandidateState, StepState
    <3>2. parses' \in [Runs -> Nat]
      <4>1. message[w].run \in Runs
        BY <1>3, WorkersMessage
      <4>2. PICK n \in {parses[message[w].run], parses[message[w].run] + 1} :
              parses' = [parses EXCEPT ![message[w].run] = n]
        BY <1>3, <2>4 DEF RecordSuccess
      <4>3. n \in Nat
        BY <4>1 DEF TypeOK
      <4>4. QED
        BY <4>1, <4>2, <4>3 DEF TypeOK
    <3>3. QED
      BY <2>2, <3>1, <3>2
  <2>5. ASSUME NEW result2, NEW newRun \in RunStatus, NEW newCandidate \in CandidateState,
               RecordFailure(w, result2, newRun, newCandidate)
        PROVE  Goal
    BY <1>3, <2>2, <2>5 DEF RecordFailure, TypeOK, StepState
  <2>6. QED
    BY <2>3, <2>4, <2>5
<1>4. ASSUME NEW w \in Workers, MarkExhausted(w), run[message[w].run] # "complete"
      PROVE  Goal
  <2>1. UNCHANGED attempts
    BY <1>4 DEF MarkExhausted, RecordExhaustion
  <2>2. QED
    BY <1>0, <1>4, <2>1 DEF MarkExhausted, RecordExhaustion, TypeOK, RunStatus, CandidateState
<1>5. ASSUME UNCHANGED <<run, candidate, step, attempts, parses>> PROVE Goal
  <2>1. UNCHANGED attempts
    BY <1>5
  <2>2. QED
    BY <1>0, <1>5, <2>1 DEF TypeOK
<1>6. QED
  BY <1>1, <1>2, <1>3, <1>4, <1>5, RowsStep

EndpointTypes ==
  /\ endpoint \in {"active", "degraded", "blocked"}
  /\ failures \in Nat
  /\ snapshot \in BOOLEAN

(* The endpoint's row.                                                     *)
LEMMA EndpointType ==
  ASSUME TypeOK, [Next]_vars
  PROVE  EndpointTypes'
<1> USE DEF TypeOK, EndpointTypes
<1>1. ASSUME CountFailure, UNCHANGED snapshot PROVE EndpointTypes'
  BY <1>1 DEF CountFailure
<1>2. ASSUME NEW w \in Workers, Records(w)
      PROVE  EndpointTypes'
  <2>1. CASE Live(w)
    <3>1. ASSUME NEW answer \in Success, RecordSuccess(w, answer) PROVE EndpointTypes'
      <4>1. /\ endpoint' = "active" /\ failures' = 0
            /\ snapshot' = (snapshot \/ answer = "fetched")
        BY <2>1, <3>1, Zenon DEF RecordSuccess
      <4>2. (snapshot \/ answer = "fetched") \in BOOLEAN
        BY Zenon
      <4>3. snapshot' \in BOOLEAN
        BY <4>1, <4>2, Zenon
      <4>4. QED
        BY <4>1, <4>3
    <3>2. (\E answer \in Success : RecordSuccess(w, answer)) \/ EndpointTypes'
      BY <1>1, <1>2, <2>1 DEF Records, FetchSucceeds, FetchRefused, FetchFails,
         RecordFailure
    <3>3. QED
      BY <3>1, <3>2
  <2>2. CASE ~Live(w)
    BY <1>2, <2>2 DEF Records, FetchSucceeds, FetchRefused, FetchFails,
       RecordSuccess, RecordFailure, rowVars, endpointVars
  <2>3. QED
    BY <2>1, <2>2
<1>3. ASSUME NEW w \in Workers, MarkExhausted(w)
      PROVE  EndpointTypes'
  BY <1>3 DEF MarkExhausted, RecordExhaustion, rowVars, endpointVars
<1>4. ASSUME NEW w \in Workers,
             BeginFetch(w) \/ SkipFetch(w) \/ RetryFetch(w) \/ Disturbance(w)
      PROVE  UNCHANGED endpointVars
  BY <1>4 DEF BeginFetch, SkipFetch, RetryFetch, Disturbance, DatabaseError, TaskAborts,
     WorkerLost, Redeliver, rowVars
<1>5. ASSUME NEW w \in Workers, NEW m \in Message, Receive(w, m) PROVE UNCHANGED endpointVars
  BY <1>5 DEF Receive, rowVars
<1>6. ASSUME NEW r \in Runs, Submit(r) \/ PollRegistered(r) \/ RefuseSubmission(r) \/ Publish(r)
      PROVE  UNCHANGED endpointVars
  BY <1>6 DEF Submit, PollRegistered, Queued, RefuseSubmission, Publish, rowVars
<1>7. ASSUME NEW result \in {"succeeded", "failed"}, OperatorBlocks \/ ParseReports(result)
      PROVE  EndpointTypes'
  BY <1>7 DEF OperatorBlocks, ParseReports
<1>8. ASSUME UNCHANGED vars PROVE UNCHANGED endpointVars
  BY <1>8 DEF vars, rowVars
<1>9. ASSUME UNCHANGED endpointVars
      PROVE  EndpointTypes'
  BY <1>9 DEF endpointVars
<1>10. QED
  BY <1>2, <1>3, <1>4, <1>5, <1>6, <1>7, <1>8, <1>9 DEF Next, Progress, Records

(* What the workers hold and the broker keeps.                             *)
TasksType ==
  /\ queue \in [Message -> Nat]
  /\ phase \in [Workers -> Phase]
  /\ message \in [Workers -> Message \cup {NoMessage}]
  /\ working \in [Workers -> Nat]
  /\ published \in SUBSET Runs
  /\ stranded \in SUBSET Runs
  /\ faults \in Nat

(* A worker that ends its task holds nothing.                              *)
LEMMA FinishHolds ==
  ASSUME TypeOK, WorkersHold, NEW w \in Workers, Finish(w),
         attempts' \in [Runs -> Seq(AttemptState)],
         \A r \in Runs : Len(attempts'[r]) >= Len(attempts[r])
  PROVE  /\ phase' \in [Workers -> Phase]
         /\ message' \in [Workers -> Message \cup {NoMessage}]
         /\ working' \in [Workers -> Nat]
         /\ WorkersHold'
<1>1. /\ phase' \in [Workers -> Phase]
      /\ message' \in [Workers -> Message \cup {NoMessage}]
      /\ working' \in [Workers -> Nat]
  BY DEF Finish, TypeOK, Phase
<1>2. ASSUME NEW v \in Workers
      PROVE  /\ message'[v] = NoMessage <=> phase'[v] = "idle"
             /\ phase'[v] = "fetching" => working'[v] \in DOMAIN attempts'[message'[v].run]
  <2>1. CASE v = w
    BY <2>1 DEF Finish, TypeOK
  <2>2. CASE v # w
    <3>1. UNCHANGED <<phase[v], message[v], working[v]>>
      BY <2>2 DEF Finish, TypeOK
    <3>2. ASSUME phase[v] = "fetching"
          PROVE  working[v] \in DOMAIN attempts'[message[v].run]
      <4>1. message[v].run \in Runs
        BY <3>2, WorkersMessage
      <4>2. working[v] \in 1..Len(attempts[message[v].run])
        BY <3>2, <4>1 DEF WorkersHold, TypeOK
      <4>3. QED
        BY <4>1, <4>2 DEF TypeOK
    <3>3. QED
      BY <3>1, <3>2 DEF WorkersHold
  <2>3. QED
    BY <2>1, <2>2
<1>3. QED
  BY <1>1, <1>2 DEF WorkersHold

LEMMA TasksStep ==
  ASSUME TypeOK, WorkersHold, [Next]_vars
  PROVE  TasksType' /\ WorkersHold'
<1> DEFINE Grown ==
      /\ attempts' \in [Runs -> Seq(AttemptState)]
      /\ \A r \in Runs : Len(attempts'[r]) >= Len(attempts[r])
<1>0. Grown
  BY RowsType
<1> DEFINE Kept == UNCHANGED <<phase, message, working>>
<1>1. ASSUME Kept
      PROVE  /\ phase' \in [Workers -> Phase]
             /\ message' \in [Workers -> Message \cup {NoMessage}]
             /\ working' \in [Workers -> Nat]
             /\ WorkersHold'
  <2>1. ASSUME NEW v \in Workers, phase[v] = "fetching"
        PROVE  working[v] \in DOMAIN attempts'[message[v].run]
    <3>1. message[v].run \in Runs
      BY <2>1, WorkersMessage
    <3>2. working[v] \in 1..Len(attempts[message[v].run])
      BY <2>1, <3>1 DEF WorkersHold, TypeOK
    <3>3. QED
      BY <1>0, <3>1, <3>2 DEF TypeOK
  <2>2. QED
    BY <1>1, <2>1 DEF TypeOK, WorkersHold
<1>2. ASSUME NEW r \in Runs, Submit(r) \/ PollRegistered(r) \/ RefuseSubmission(r)
      PROVE  TasksType' /\ WorkersHold'
  BY <1>1, <1>2 DEF Submit, PollRegistered, Queued, RefuseSubmission, workerVars, TypeOK, TasksType
<1>3. ASSUME NEW r \in Runs, Publish(r) PROVE TasksType' /\ WorkersHold'
  <2>1. queue' \in [Message -> Nat]
    BY <1>3, SendType, SentMessages DEF Publish, TypeOK
  <2>2. faults' \in Nat
    BY <1>3 DEF Publish, Fault, TypeOK
  <2>3. QED
    BY <1>1, <1>3, <2>1, <2>2 DEF Publish, workerVars, TypeOK, TasksType
<1>4. ASSUME NEW result \in {"succeeded", "failed"}, OperatorBlocks \/ ParseReports(result)
      PROVE  TasksType' /\ WorkersHold'
  BY <1>1, <1>4 DEF OperatorBlocks, ParseReports, Fault, workerVars, TypeOK, TasksType
<1>5. ASSUME NEW w \in Workers, BeginFetch(w) PROVE TasksType' /\ WorkersHold'
  <2> DEFINE r == message[w].run
  <2>1. /\ r \in Runs /\ Len(attempts[r]) \in Nat
        /\ Len(attempts'[r]) = Len(attempts[r]) + 1
    BY <1>5, BegunStep
  <2>2. TasksType'
    BY <1>5, <2>1 DEF BeginFetch, TypeOK, TasksType, Phase
  <2>3. ASSUME NEW v \in Workers
        PROVE  /\ message'[v] = NoMessage <=> phase'[v] = "idle"
               /\ phase'[v] = "fetching" => working'[v] \in DOMAIN attempts'[message'[v].run]
    <3>1. CASE v = w
      <4>1. /\ phase'[v] = "fetching" /\ message'[v] = message[w]
            /\ working'[v] = Len(attempts[r]) + 1
            /\ message[w] # NoMessage
        BY <1>5, <3>1, WorkersMessage, SentMessages DEF BeginFetch, TypeOK
      <4>2. QED
        BY <1>0, <2>1, <4>1
    <3>2. CASE v # w
      <4>1. UNCHANGED <<phase[v], message[v], working[v]>>
        BY <1>5, <3>2 DEF BeginFetch, TypeOK
      <4>2. ASSUME phase[v] = "fetching"
            PROVE  working[v] \in DOMAIN attempts'[message[v].run]
        <5>1. message[v].run \in Runs
          BY <4>2, WorkersMessage
        <5>2. working[v] \in 1..Len(attempts[message[v].run])
          BY <4>2, <5>1 DEF WorkersHold, TypeOK
        <5>3. QED
          BY <1>0, <5>1, <5>2 DEF TypeOK
      <4>3. QED
        BY <4>1, <4>2 DEF WorkersHold
    <3>3. QED
      BY <3>1, <3>2
  <2>4. QED
    BY <2>2, <2>3 DEF WorkersHold
<1>6. ASSUME NEW w \in Workers, Finish(w), queue' \in [Message -> Nat],
             published' = published, stranded' \in SUBSET Runs, faults' \in Nat
      PROVE  TasksType' /\ WorkersHold'
  BY <1>0, <1>6, FinishHolds DEF TypeOK, TasksType
<1>7. ASSUME NEW w \in Workers,
             \/ SkipFetch(w) \/ (\E answer \in Success : FetchSucceeds(w, answer)) \/ MarkExhausted(w)
             \/ \E result \in {"failed", "blocked"} : FetchRefused(w, result)
      PROVE  TasksType' /\ WorkersHold'
  BY <1>6, <1>7 DEF SkipFetch, FetchSucceeds, MarkExhausted, FetchRefused, TypeOK
<1>8. ASSUME NEW w \in Workers, FetchFails(w) PROVE TasksType' /\ WorkersHold'
  <2>1. TasksType'
    BY <1>8 DEF FetchFails, TypeOK, TasksType, Phase
  <2>2. ASSUME NEW v \in Workers, phase'[v] = "fetching"
        PROVE  working[v] \in DOMAIN attempts'[message[v].run]
    <3>1. phase[v] = "fetching"
      BY <1>8, <2>2 DEF FetchFails, TypeOK
    <3>2. message[v].run \in Runs
      BY <3>1, WorkersMessage
    <3>3. working[v] \in 1..Len(attempts[message[v].run])
      BY <3>1, <3>2 DEF WorkersHold, TypeOK
    <3>4. QED
      BY <1>0, <3>2, <3>3 DEF TypeOK
  <2>3. QED
    BY <1>8, <2>1, <2>2 DEF FetchFails, WorkersHold, TypeOK
<1>9. ASSUME NEW w \in Workers, RetryFetch(w) PROVE TasksType' /\ WorkersHold'
  <2>1. message[w] \in Message
    BY <1>9, WorkersMessage DEF RetryFetch
  <2>2. queue' \in [Message -> Nat]
    BY <1>9, <2>1, SendType, SentMessages DEF RetryFetch, TypeOK
  <2>3. QED
    BY <1>6, <1>9, <2>2 DEF RetryFetch, TypeOK
<1>10. ASSUME NEW w \in Workers, Disturbance(w) PROVE TasksType' /\ WorkersHold'
  <2>1. message[w] \in Message /\ message[w].run \in Runs
    BY <1>10, WorkersMessage DEF Disturbance, DatabaseError, TaskAborts, WorkerLost, Redeliver
  <2>2. faults' \in Nat
    BY <1>10 DEF Disturbance, DatabaseError, TaskAborts, WorkerLost, Redeliver, Fault, TypeOK
  <2>3. queue' \in [Message -> Nat]
    BY <1>10, <2>1, SendType, SentMessages
       DEF Disturbance, DatabaseError, TaskAborts, WorkerLost, Redeliver, TypeOK
  <2>4. stranded' \in SUBSET Runs
    BY <1>10, <2>1 DEF Disturbance, DatabaseError, TaskAborts, WorkerLost, Redeliver, TypeOK
  <2>5. published' = published
    BY <1>10 DEF Disturbance, DatabaseError, TaskAborts, WorkerLost, Redeliver
  <2>6. CASE Redeliver(w)
    BY <1>1, <2>2, <2>3, <2>4, <2>5, <2>6 DEF Redeliver, workerVars, TypeOK, TasksType
  <2>7. CASE ~Redeliver(w)
    BY <1>6, <1>10, <2>2, <2>3, <2>4, <2>5, <2>7
       DEF Disturbance, DatabaseError, TaskAborts, WorkerLost
  <2>8. QED
    BY <2>6, <2>7
<1>11. ASSUME NEW w \in Workers, NEW m \in Message, Receive(w, m)
       PROVE  TasksType' /\ WorkersHold'
  <2>1. queue' \in [Message -> Nat]
    BY <1>11 DEF Receive, TypeOK
  <2>2. TasksType'
    BY <1>11, <2>1 DEF Receive, TypeOK, TasksType, Phase
  <2>3. ASSUME NEW v \in Workers
        PROVE  /\ message'[v] = NoMessage <=> phase'[v] = "idle"
               /\ phase'[v] = "fetching" => working'[v] \in DOMAIN attempts'[message'[v].run]
    <3>1. CASE v = w
      BY <1>11, <3>1, SentMessages DEF Receive, TypeOK
    <3>2. CASE v # w
      BY <1>11, <3>2 DEF Receive, TypeOK, WorkersHold, rowVars
    <3>3. QED
      BY <3>1, <3>2
  <2>4. QED
    BY <2>2, <2>3 DEF WorkersHold
<1>12. ASSUME UNCHANGED vars PROVE TasksType' /\ WorkersHold'
  BY <1>12 DEF vars, rowVars, workerVars, TypeOK, TasksType, WorkersHold
<1>13. QED
  BY <1>2, <1>3, <1>4, <1>5, <1>7, <1>8, <1>9, <1>10, <1>11, <1>12 DEF Next, Progress

LEMMA TypeStep == TypeOK /\ WorkersHold /\ [Next]_vars => TypeOK' /\ WorkersHold'
BY RowsType, EndpointType, TasksStep DEF TypeOK, TasksType, EndpointTypes

(* SourceFetch is type correct: rows, messages and workers keep their      *)
(* types whatever the deliveries do to each other.                         *)
THEOREM TypeCorrect == Spec => [](TypeOK /\ WorkersHold)
<1>1. Init => TypeOK /\ WorkersHold
  <2>1. Init => TypeOK
    BY EmptySeq DEF Init, TypeOK, RunStatus, CandidateState, StepState, Phase
  <2>2. Init => WorkersHold
    BY DEF Init, WorkersHold
  <2>3. QED
    BY <2>1, <2>2
<1>2. QED
  BY <1>1, TypeStep, PTL DEF Spec

-----------------------------------------------------------------------------
(* The attempts of a run.                                                  *)

(* A worker comes to fetch by beginning an attempt only.                   *)
LEMMA FetchersStep ==
  ASSUME TypeOK, [Next]_vars, NEW v \in Workers, phase'[v] = "fetching"
  PROVE  \/ BeginFetch(v)
         \/ /\ phase[v] = "fetching"
            /\ message'[v] = message[v]
            /\ working'[v] = working[v]
<1> DEFINE Same == UNCHANGED <<phase[v], message[v], working[v]>>
<1> USE DEF TypeOK
<1>1. ASSUME NEW w \in Workers, Finish(w) PROVE Same
  BY <1>1 DEF Finish
<1>2. ASSUME UNCHANGED workerVars PROVE Same
  BY <1>2 DEF workerVars
<1>3. ASSUME NEW w \in Workers, BeginFetch(w) PROVE BeginFetch(v) \/ Same
  BY <1>3 DEF BeginFetch
<1>4. ASSUME NEW w \in Workers, FetchFails(w) PROVE Same
  BY <1>4 DEF FetchFails
<1>5. ASSUME NEW w \in Workers, NEW m \in Message, Receive(w, m) PROVE Same
  BY <1>5 DEF Receive
<1>6. ASSUME NEW w \in Workers,
             \/ SkipFetch(w) \/ (\E answer \in Success : FetchSucceeds(w, answer)) \/ RetryFetch(w) \/ MarkExhausted(w)
             \/ \E result \in {"failed", "blocked"} : FetchRefused(w, result)
             \/ Disturbance(w)
      PROVE  Same
  BY <1>1, <1>2, <1>6 DEF SkipFetch, FetchSucceeds, RetryFetch, MarkExhausted, FetchRefused,
     Disturbance, DatabaseError, TaskAborts, WorkerLost, Redeliver
<1>7. ASSUME NEW r \in Runs, Submit(r) \/ PollRegistered(r) \/ RefuseSubmission(r) \/ Publish(r) PROVE Same
  BY <1>2, <1>7 DEF Submit, PollRegistered, Queued, RefuseSubmission, Publish
<1>8. ASSUME NEW result \in {"succeeded", "failed"}, OperatorBlocks \/ ParseReports(result)
      PROVE  Same
  BY <1>2, <1>8 DEF OperatorBlocks, ParseReports
<1>9. ASSUME UNCHANGED vars PROVE Same
  BY <1>2, <1>9 DEF vars
<1> HIDE DEF TypeOK, Same
<1>10. BeginFetch(v) \/ Same
  BY <1>3, <1>4, <1>5, <1>6, <1>7, <1>8, <1>9 DEF Next, Progress
<1>11. QED
  BY <1>10 DEF Same

LEMMA OlderAttemptsStep ==
  ASSUME TypeOK, WorkersHold, OlderAttemptsFailed, [Next]_vars
  PROVE  OlderAttemptsFailed'
<1>1. ASSUME NEW w \in Workers, BeginFetch(w) PROVE OlderAttemptsFailed'
  <2> DEFINE r == message[w].run
             n == Len(attempts[r])
  <2>1. /\ r \in Runs /\ n \in Nat
        /\ attempts' \in [Runs -> Seq(AttemptState)]
        /\ \A q \in Runs \ {r} : attempts'[q] = attempts[q]
        /\ Len(attempts'[r]) = n + 1
        /\ \A i \in 1..n :
             attempts'[r][i] = IF i = n /\ attempts[r][i] = "started" THEN "failed"
                               ELSE attempts[r][i]
    BY <1>1, BegunStep
  <2>2. ~NothingToFetch(r, message[w])
    BY <1>1 DEF BeginFetch
  <2>3. n # 0 => attempts[r][n] \notin Success
    BY <2>1, <2>2, EmptySeq DEF NothingToFetch, Last, TypeOK
  <2> HIDE DEF r, n
  <2>4. ASSUME NEW q \in Runs, NEW i \in DOMAIN attempts'[q],
               attempts'[q][i] \in {"started"} \cup Success
        PROVE  i = Len(attempts'[q])
    <3>1. CASE q # r
      BY <2>1, <2>4, <3>1 DEF OlderAttemptsFailed
    <3>2. CASE q = r /\ i # n + 1
      <4>1. i \in 1..n /\ i \in DOMAIN attempts[r]
        BY <2>1, <3>2 DEF TypeOK, n
      <4>2. attempts[r][i] \in {"started"} \cup Success
        BY <2>1, <2>4, <3>2, <4>1
      <4>3. i = n
        BY <2>1, <4>1, <4>2 DEF OlderAttemptsFailed, n
      <4>4. QED
        BY <2>1, <2>3, <2>4, <3>2, <4>1, <4>2, <4>3 DEF Success
    <3>3. CASE q = r /\ i = n + 1
      BY <2>1, <3>3
    <3>4. QED
      BY <3>1, <3>2, <3>3
  <2>5. QED
    BY <2>4 DEF OlderAttemptsFailed
<1>2. ASSUME NEW w \in Workers, phase[w] = "fetching", Live(w), Records(w)
      PROVE  OlderAttemptsFailed'
  <2>1. PICK result \in Results : Settle(w, result)
    BY <1>2, RecordsSettle
  <2> DEFINE r == message[w].run
  <2>2. /\ r \in Runs
        /\ working[w] \in 1..Len(attempts[r])
        /\ attempts' \in [Runs -> Seq(AttemptState)]
        /\ \A q \in Runs \ {r} : attempts'[q] = attempts[q]
        /\ Len(attempts'[r]) = Len(attempts[r])
        /\ \A i \in 1..Len(attempts[r]) :
             attempts'[r][i] = IF i = working[w] THEN result ELSE attempts[r][i]
    BY <1>2, <2>1, SettledAttempts
  <2>3. attempts[r][working[w]] = "started"
    BY <1>2 DEF Live
  <2>4. ASSUME NEW q \in Runs, NEW i \in DOMAIN attempts'[q],
               attempts'[q][i] \in {"started"} \cup Success
        PROVE  i = Len(attempts'[q])
    <3>1. CASE q # r
      BY <2>2, <2>4, <3>1 DEF OlderAttemptsFailed
    <3>2. CASE q = r
      <4>1. i \in 1..Len(attempts[r]) /\ i \in DOMAIN attempts[r]
        BY <2>2, <3>2 DEF TypeOK
      <4>2. attempts[r][i] \in {"started"} \cup Success
        BY <2>2, <2>3, <2>4, <3>2, <4>1
      <4>3. QED
        BY <2>2, <3>2, <4>1, <4>2 DEF OlderAttemptsFailed
    <3>3. QED
      BY <3>1, <3>2
  <2>5. QED
    BY <2>4 DEF OlderAttemptsFailed
<1>3. ASSUME UNCHANGED attempts PROVE OlderAttemptsFailed'
  BY <1>3 DEF OlderAttemptsFailed
<1>4. QED
  BY <1>1, <1>2, <1>3, RowsStep DEF Submit, PollRegistered, Queued, RefuseSubmission, MarkExhausted, RecordExhaustion

(* A new attempt has a number that no worker holds for its run.            *)
LEMMA ExclusiveStep ==
  ASSUME TypeOK, WorkersHold, AttemptsAreExclusive, [Next]_vars
  PROVE  AttemptsAreExclusive'
<1>1. ASSUME NEW w \in Workers, BeginFetch(w), NEW v \in Workers, v # w,
             phase'[v] = "fetching", message'[v].run = message'[w].run
      PROVE  working'[v] # working'[w]
  <2> DEFINE r == message[w].run
  <2>1. /\ message'[w] = message[w] /\ working'[w] = Len(attempts[r]) + 1
        /\ UNCHANGED <<phase[v], message[v], working[v]>>
    BY <1>1 DEF BeginFetch, TypeOK
  <2>2. r \in Runs /\ Len(attempts[r]) \in Nat
    BY <1>1, BegunStep
  <2>3. working[v] \in 1..Len(attempts[r])
    BY <1>1, <2>1, <2>2 DEF WorkersHold, TypeOK
  <2>4. QED
    BY <2>1, <2>2, <2>3
<1>2. ASSUME NEW v \in Workers, NEW w \in Workers, v # w,
             phase'[v] = "fetching", phase'[w] = "fetching",
             message'[v].run = message'[w].run
      PROVE  working'[v] # working'[w]
  <2>1. CASE BeginFetch(v) \/ BeginFetch(w)
    BY <1>1, <1>2, <2>1
  <2>2. CASE ~BeginFetch(v) /\ ~BeginFetch(w)
    <3>1. /\ phase[v] = "fetching" /\ message'[v] = message[v] /\ working'[v] = working[v]
          /\ phase[w] = "fetching" /\ message'[w] = message[w] /\ working'[w] = working[w]
      BY <1>2, <2>2, FetchersStep
    <3>2. QED
      BY <1>2, <3>1 DEF AttemptsAreExclusive
  <2>3. QED
    BY <2>1, <2>2
<1>3. QED
  BY <1>2 DEF AttemptsAreExclusive

(* The attempts part of the inductive invariant.                           *)
LEMMA AttemptInvariant == Spec => []AttemptInv
<1>1. Init => AttemptInv
  <2>1. ASSUME Init PROVE OlderAttemptsFailed /\ AttemptsAreExclusive
    BY <2>1, EmptySeq DEF Init, OlderAttemptsFailed, AttemptsAreExclusive
  <2>2. Init => TypeOK /\ WorkersHold
    BY EmptySeq DEF Init, TypeOK, RunStatus, CandidateState, StepState, Phase, WorkersHold
  <2>3. QED
    BY <2>1, <2>2 DEF AttemptInv
<1>2. AttemptInv /\ [Next]_vars => AttemptInv'
  BY TypeStep, OlderAttemptsStep, ExclusiveStep DEF AttemptInv
<1>3. QED
  BY <1>1, <1>2, PTL DEF Spec

(* Whoever takes a run over closes the attempt it takes over: only the     *)
(* newest attempt of a run is ever STARTED.                                *)
THEOREM OnlyTheNewestIsLive == Spec => []OnlyNewestIsLive
<1>1. AttemptInv => OnlyNewestIsLive
  BY DEF AttemptInv, OlderAttemptsFailed, OnlyNewestIsLive
<1>2. QED
  BY <1>1, AttemptInvariant, PTL

(* No two workers fetch for the same attempt, however often the command    *)
(* was delivered.                                                          *)
THEOREM ExclusiveAttempts == Spec => []AttemptsAreExclusive
<1>1. AttemptInv => AttemptsAreExclusive
  BY DEF AttemptInv
<1>2. QED
  BY <1>1, AttemptInvariant, PTL

-----------------------------------------------------------------------------
(* The result of a run.                                                    *)

(* Rows that say of every run what its newest attempt says.                *)
RowFollows(r) ==
  /\ parses[r] \in IF Succeeded(r) THEN {0, 1} ELSE {0}
  /\ Succeeded(r) /\ Last(attempts[r]) = "fetched" => parses[r] = 1
  /\ run[r] = "complete" <=> Succeeded(r)
  /\ candidate[r] = "registered" <=> Succeeded(r)
  /\ step[r] = "complete" <=> Succeeded(r)

(* An attempt that is still STARTED is the newest, so its run has no       *)
(* result yet.                                                             *)
LEMMA LiveIsNewest ==
  ASSUME AttemptInv, NEW w \in Workers, phase[w] = "fetching", Live(w)
  PROVE  /\ message[w].run \in Runs
         /\ working[w] = Len(attempts[message[w].run])
         /\ attempts[message[w].run] # << >>
         /\ ~Succeeded(message[w].run)
<1> DEFINE r == message[w].run
<1>1. r \in Runs
  BY WorkersMessage DEF AttemptInv
<1>2. working[w] \in DOMAIN attempts[r] /\ attempts[r][working[w]] = "started"
  BY DEF Live
<1>3. working[w] = Len(attempts[r])
  BY <1>1, <1>2 DEF AttemptInv, OlderAttemptsFailed
<1>4. attempts[r] # << >>
  BY <1>2
<1>5. QED
  BY <1>1, <1>2, <1>3, <1>4 DEF Succeeded, Last, Success

LEMMA RowsFollowStep ==
  ASSUME AttemptInv, RowsFollowAttempt, [Next]_vars
  PROVE  RowsFollowAttempt'
<1>0. TypeOK /\ WorkersHold /\ \A r \in Runs : RowFollows(r)
  BY DEF AttemptInv, RowsFollowAttempt, RowFollows
<1>1. ASSUME NEW q \in Runs, Submit(q) \/ PollRegistered(q) \/ RefuseSubmission(q), NEW r \in Runs
      PROVE  RowFollows(r)'
  BY <1>0, <1>1 DEF Submit, PollRegistered, Queued, RefuseSubmission, RowFollows, Succeeded, TypeOK
<1>2. ASSUME NEW w \in Workers, BeginFetch(w), NEW r \in Runs PROVE RowFollows(r)'
  <2>0. PICK q \in Runs : q = message[w].run
    BY <1>0, <1>2, WorkersMessage DEF BeginFetch
  <2> DEFINE n == Len(attempts[q])
  <2>1. /\ n \in Nat
        /\ attempts' \in [Runs -> Seq(AttemptState)]
        /\ \A x \in Runs \ {q} : attempts'[x] = attempts[x]
        /\ Len(attempts'[q]) = n + 1
        /\ attempts'[q][n + 1] = "started"
    BY <1>0, <1>2, <2>0, BegunStep
  <2>2. ~Succeeded(q)
    BY <1>2, <2>0 DEF BeginFetch, NothingToFetch, Succeeded
  <2>3. ~Succeeded(q)'
    BY <2>1 DEF Succeeded, Last, Success
  <2>4. r # q => (Succeeded(r)' <=> Succeeded(r))
    BY <2>1 DEF Succeeded
  <2>5. QED
    BY <1>0, <1>2, <2>0, <2>2, <2>3, <2>4 DEF BeginFetch, RowFollows, TypeOK
<1>3. ASSUME NEW w \in Workers, phase[w] = "fetching", Live(w), Records(w), NEW r \in Runs
      PROVE  RowFollows(r)'
  <2>0. PICK q \in Runs : q = message[w].run
    BY <1>3, LiveIsNewest
  <2>1. PICK result \in Results : Settle(w, result)
    BY <1>3, RecordsSettle
  <2>2. working[w] = Len(attempts[q]) /\ attempts[q] # << >> /\ ~Succeeded(q)
    BY <1>3, <2>0, LiveIsNewest
  <2>3. /\ attempts' \in [Runs -> Seq(AttemptState)]
        /\ \A x \in Runs \ {q} : attempts'[x] = attempts[x]
        /\ Len(attempts'[q]) = Len(attempts[q])
        /\ attempts'[q][working[w]] = result
    BY <1>0, <1>3, <2>0, <2>1, SettledAttempts
  <2>4. r # q => (Succeeded(r)' <=> Succeeded(r)) /\ Last(attempts'[r]) = Last(attempts[r])
    BY <2>3 DEF Succeeded, Last
  <2>5. attempts'[q] # << >>
    BY <2>2, <2>3, EmptySeq DEF TypeOK
  <2>6. (Succeeded(q)' <=> result \in Success) /\ Last(attempts'[q]) = result
    BY <2>2, <2>3, <2>5 DEF Succeeded, Last
  <2>7. ASSUME NEW answer \in Success, RecordSuccess(w, answer) PROVE RowFollows(r)'
    <3>1. Settle(w, answer)
      BY <1>3, <2>7 DEF RecordSuccess
    <3>2. attempts'[q][working[w]] = answer
      BY <1>0, <1>3, <2>0, <3>1, SettledAttempts DEF Results, Success
    <3>3. Succeeded(q)' /\ Last(attempts'[q]) = answer
      BY <2>3, <2>6, <3>2
    <3>4. QED
      BY <1>0, <1>3, <2>0, <2>2, <2>4, <2>7, <3>3 DEF RecordSuccess, RowFollows, TypeOK, Success
  <2>8. ASSUME NEW result2 \in {"failed", "blocked"},
               NEW newRun \in {"failed", "queued"},
               NEW newCandidate \in {"unsafe", "rejected", "fetch_queued"},
               RecordFailure(w, result2, newRun, newCandidate)
        PROVE  RowFollows(r)'
    <3>1. Settle(w, result2)
      BY <1>3, <2>8 DEF RecordFailure
    <3>2. attempts'[q][working[w]] = result2
      BY <1>0, <1>3, <2>0, <3>1, SettledAttempts DEF Results, Success
    <3>3. ~Succeeded(q)'
      BY <2>3, <2>6, <3>2 DEF Success
    <3>4. QED
      BY <1>0, <1>3, <2>0, <2>2, <2>4, <2>8, <3>3 DEF RecordFailure, RowFollows, TypeOK
  <2>9. QED
    BY <1>3, <2>7, <2>8 DEF Records, FetchSucceeds, FetchRefused, FetchFails
<1>4. ASSUME NEW w \in Workers, MarkExhausted(w), run[message[w].run] # "complete",
             NEW r \in Runs
      PROVE  RowFollows(r)'
  <2>1. message[w].run \in Runs
    BY <1>0, <1>4, WorkersMessage DEF MarkExhausted
  <2>2. Succeeded(r)' <=> Succeeded(r)
    BY <1>4 DEF MarkExhausted, RecordExhaustion, Succeeded
  <2>3. QED
    BY <1>0, <1>4, <2>1, <2>2 DEF MarkExhausted, RecordExhaustion, RowFollows, TypeOK
<1>5. ASSUME UNCHANGED <<run, candidate, step, attempts, parses>>, NEW r \in Runs
      PROVE  RowFollows(r)'
  BY <1>0, <1>5 DEF RowFollows, Succeeded
<1>6. \A r \in Runs : RowFollows(r)'
  BY <1>1, <1>2, <1>3, <1>4, <1>5, RowsStep
<1>7. QED
  BY <1>6 DEF RowFollows, RowsFollowAttempt

(* A run's successful attempts are the newest one, or none.                *)
LEMMA SuccessesAreNewest ==
  ASSUME AttemptInv, NEW r \in Runs
  PROVE  Successes(r) = IF Succeeded(r) THEN {Len(attempts[r])} ELSE {}
<1>1. attempts[r] \in Seq(AttemptState)
  BY DEF AttemptInv, TypeOK
<1>2. \A i \in Successes(r) : i = Len(attempts[r]) /\ Succeeded(r)
  BY <1>1, EmptySeq DEF Successes, AttemptInv, OlderAttemptsFailed, Succeeded, Last
<1>3. Succeeded(r) => Len(attempts[r]) \in Successes(r)
  BY <1>1, EmptySeq DEF Successes, Succeeded, Last
<1>4. QED
  BY <1>2, <1>3

LEMMA RowsInvariant == Spec => [](AttemptInv /\ RowsFollowAttempt)
<1>1. Init => RowsFollowAttempt
  BY DEF Init, RowsFollowAttempt, Succeeded
<1>2. RowsFollowAttempt /\ AttemptInv /\ [Next]_vars => RowsFollowAttempt'
  BY RowsFollowStep
<1>3. QED
  BY <1>1, <1>2, AttemptInvariant, PTL DEF Spec

(* However many deliveries fetch a run at the same time, its result is     *)
(* taken once, a fetched body is parsed once and a 304 at most once, and   *)
(* run, candidate and effect step agree about the success.                 *)
THEOREM ResultIsTakenOnce == Spec => []OneResultPerRun
<1>1. ASSUME AttemptInv, RowsFollowAttempt, NEW r \in Runs
      PROVE  /\ Cardinality(Successes(r)) <= 1
             /\ parses[r] <= Cardinality(Successes(r))
             /\ \A i \in Successes(r) : attempts[r][i] = "fetched" => parses[r] = 1
             /\ run[r] = "complete" <=> Successes(r) # {}
             /\ candidate[r] = "registered" <=> Successes(r) # {}
             /\ step[r] = "complete" <=> Successes(r) # {}
  <2>1. CASE Succeeded(r)
    <3>1. Successes(r) = {Len(attempts[r])}
      BY <1>1, <2>1, SuccessesAreNewest
    <3>2. Cardinality(Successes(r)) = 1
      BY <3>1, FS_Singleton
    <3>3. \A i \in Successes(r) : attempts[r][i] = "fetched" => parses[r] = 1
      BY <1>1, <2>1, <3>1 DEF RowsFollowAttempt, Last
    <3>4. QED
      BY <1>1, <2>1, <3>1, <3>2, <3>3 DEF RowsFollowAttempt
  <2>2. CASE ~Succeeded(r)
    <3>1. Successes(r) = {}
      BY <1>1, <2>2, SuccessesAreNewest
    <3>2. Cardinality(Successes(r)) = 0
      BY <3>1, FS_EmptySet
    <3>3. QED
      BY <1>1, <2>2, <3>1, <3>2 DEF RowsFollowAttempt
  <2>3. QED
    BY <2>1, <2>2
<1>2. AttemptInv /\ RowsFollowAttempt => OneResultPerRun
  BY <1>1 DEF OneResultPerRun
<1>3. QED
  BY <1>2, RowsInvariant, PTL

(* A step settles an attempt that was STARTED, or none.                    *)
LEMMA ResultsStep ==
  ASSUME AttemptInv, RowsFollowAttempt, [Next]_vars, NEW r \in Runs
  PROVE  /\ run[r] = "complete" => run'[r] = "complete" /\ parses'[r] = parses[r]
         /\ \A i \in DOMAIN attempts[r] :
              attempts[r][i] # "started" => attempts'[r][i] = attempts[r][i]
<1> DEFINE Final ==
      /\ run[r] = "complete" => run'[r] = "complete" /\ parses'[r] = parses[r]
      /\ \A i \in DOMAIN attempts[r] :
           attempts[r][i] # "started" => attempts'[r][i] = attempts[r][i]
<1>0. TypeOK /\ WorkersHold /\ \A q \in Runs : run[q] = "complete" => Succeeded(q)
  BY DEF AttemptInv, RowsFollowAttempt
<1>1. ASSUME NEW q \in Runs, Submit(q) \/ PollRegistered(q) \/ RefuseSubmission(q) PROVE Final
  BY <1>0, <1>1 DEF Submit, PollRegistered, Queued, RefuseSubmission, TypeOK
<1>2. ASSUME NEW w \in Workers, BeginFetch(w) PROVE Final
  <2> DEFINE q == message[w].run
  <2>1. /\ q \in Runs
        /\ \A x \in Runs \ {q} : attempts'[x] = attempts[x]
        /\ \A i \in 1..Len(attempts[q]) :
             attempts'[q][i] = IF i = Len(attempts[q]) /\ attempts[q][i] = "started"
                               THEN "failed" ELSE attempts[q][i]
    BY <1>0, <1>2, BegunStep
  <2>2. ~Succeeded(q)
    BY <1>2 DEF BeginFetch, NothingToFetch, Succeeded
  <2>3. DOMAIN attempts[q] = 1..Len(attempts[q])
    BY <1>0, <2>1 DEF TypeOK
  <2>4. ASSUME NEW i \in DOMAIN attempts[r], attempts[r][i] # "started"
        PROVE  attempts'[r][i] = attempts[r][i]
    BY <2>1, <2>3, <2>4
  <2>5. run[r] = "complete" => run'[r] = "complete" /\ parses'[r] = parses[r]
    BY <1>0, <1>2, <2>1, <2>2 DEF BeginFetch, TypeOK
  <2>6. QED
    BY <2>4, <2>5
<1>3. ASSUME NEW w \in Workers, phase[w] = "fetching", Live(w), Records(w) PROVE Final
  <2> DEFINE q == message[w].run
  <2>1. PICK result \in Results : Settle(w, result)
    BY <1>3, RecordsSettle
  <2>2. q \in Runs /\ ~Succeeded(q)
    BY <1>3, LiveIsNewest
  <2>3. /\ \A x \in Runs \ {q} : attempts'[x] = attempts[x]
        /\ \A i \in 1..Len(attempts[q]) :
             attempts'[q][i] = IF i = working[w] THEN result ELSE attempts[q][i]
    BY <1>0, <1>3, <2>1, SettledAttempts
  <2>4. DOMAIN attempts[q] = 1..Len(attempts[q]) /\ attempts[q][working[w]] = "started"
    BY <1>0, <1>3, <2>2 DEF TypeOK, Live
  <2>5. ASSUME NEW i \in DOMAIN attempts[r], attempts[r][i] # "started"
        PROVE  attempts'[r][i] = attempts[r][i]
    BY <2>3, <2>4, <2>5
  <2>6. run[r] = "complete" => r # q
    BY <1>0, <2>2
  <2>7. r # q => run'[r] = run[r] /\ parses'[r] = parses[r]
    BY <1>0, <1>3, <2>2 DEF Records, FetchSucceeds, FetchRefused, FetchFails, RecordSuccess,
       RecordFailure, TypeOK
  <2>8. QED
    BY <2>5, <2>6, <2>7
<1>4. ASSUME NEW w \in Workers, MarkExhausted(w), run[message[w].run] # "complete" PROVE Final
  <2>1. message[w].run \in Runs
    BY <1>0, <1>4, WorkersMessage DEF MarkExhausted
  <2>2. QED
    BY <1>0, <1>4, <2>1 DEF MarkExhausted, RecordExhaustion, TypeOK
<1>5. ASSUME UNCHANGED <<run, candidate, step, attempts, parses>> PROVE Final
  BY <1>5
<1>6. QED
  BY <1>1, <1>2, <1>3, <1>4, <1>5, RowsStep

(* A settled attempt keeps its result and a completed run stays complete,  *)
(* whichever late worker or exhausted retry chain reports afterwards.      *)
THEOREM ResultsStayFinal == Spec => ResultsAreFinal
<1>1. ASSUME AttemptInv, RowsFollowAttempt, [Next]_vars
      PROVE  \A r \in Runs :
               /\ run[r] = "complete" => run'[r] = "complete" /\ parses'[r] = parses[r]
               /\ \A i \in DOMAIN attempts[r] :
                    attempts[r][i] # "started" => attempts'[r][i] = attempts[r][i]
  BY <1>1, ResultsStep
<1>2. AttemptInv /\ RowsFollowAttempt /\ [Next]_vars =>
        [\A r \in Runs :
           /\ run[r] = "complete" => run'[r] = "complete" /\ parses'[r] = parses[r]
           /\ \A i \in DOMAIN attempts[r] :
                attempts[r][i] # "started" => attempts'[r][i] = attempts[r][i]]_vars
  BY <1>1
<1>3. QED
  BY <1>2, RowsInvariant, PTL DEF Spec, ResultsAreFinal

-----------------------------------------------------------------------------
(* Deliveries.                                                             *)

Delivers(r) ==
  /\ attempts[r] # << >> /\ Last(attempts[r]) = "started" /\ r \notin stranded =>
       Recoverable(r)
  /\ run[r] \in {"queued", "running"} /\ r \in published /\ r \notin stranded =>
       Pursued(r)

(* A step of one worker, which leaves the messages in the broker and the   *)
(* run's attempts alone, takes away no carrier but that worker.            *)
LEMMA CarriersKept ==
  ASSUME NEW w \in Workers, NEW r \in Runs,
         \A v \in Workers \ {w} : UNCHANGED <<phase[v], message[v], working[v]>>,
         queue \in [Message -> Nat], queue' \in [Message -> Nat],
         \A m \in Message : queue'[m] >= queue[m],
         UNCHANGED attempts[r]
  PROVE  /\ Recoverable(r) => Recoverable(r)' \/ Recovers(w, r)
         /\ Pursued(r) => Pursued(r)' \/ Pursues(w, r)
<1>1. \A m \in Message : queue[m] > 0 => queue'[m] > 0
  OBVIOUS
<1>2. ASSUME NEW v \in Workers, v # w
      PROVE  (Recovers(v, r) => Recovers(v, r)') /\ (Pursues(v, r) => Pursues(v, r)')
  <2>1. UNCHANGED <<phase[v], message[v], working[v]>>
    BY <1>2
  <2>2. Carries(message[v], r) => (Live(v) <=> Live(v)')
    BY <2>1 DEF Carries, Live
  <2>3. QED
    BY <2>1, <2>2 DEF Recovers, Pursues, Carries
<1>3. QED
  BY <1>1, <1>2 DEF Recoverable, Pursued

(* The same for a step that moves only what other runs need.               *)
LEMMA OthersDeliver ==
  ASSUME NEW w \in Workers, NEW r \in Runs, Delivers(r),
         ~Recovers(w, r), ~Pursues(w, r),
         \A v \in Workers \ {w} : UNCHANGED <<phase[v], message[v], working[v]>>,
         queue \in [Message -> Nat], queue' \in [Message -> Nat],
         \A m \in Message : queue'[m] >= queue[m],
         UNCHANGED <<attempts[r], run[r], published>>, stranded \subseteq stranded'
  PROVE  Delivers(r)'
BY CarriersKept DEF Delivers

(* What a message in the broker is good for.                               *)
LEMMA QueuedDelivers ==
  ASSUME NEW m \in Message, queue'[m] > 0, RecoverStarted(m)
  PROVE  Delivers(m.run)'
BY DEF Delivers, Recoverable, Pursued

(* A worker at work is a carrier of its own run alone.                     *)
LEMMA CarriesItsRun ==
  ASSUME NEW w \in Workers, NEW r \in Runs, message[w].run # r
  PROVE  ~Recovers(w, r) /\ ~Pursues(w, r)
BY DEF Recovers, Pursues, Carries

(* The steps outside the workers.                                          *)
LEMMA OutsideDelivers ==
  ASSUME AttemptInv, PublishedExists, NEW r \in Runs, Delivers(r),
         \/ \E q \in Runs : Submit(q) \/ PollRegistered(q) \/ RefuseSubmission(q) \/ Publish(q)
         \/ OperatorBlocks
         \/ \E result \in {"succeeded", "failed"} : ParseReports(result)
         \/ UNCHANGED vars
  PROVE  Delivers(r)'
<1>0. queue \in [Message -> Nat] /\ run \in [Runs -> RunStatus]
  BY DEF AttemptInv, TypeOK
<1> DEFINE Same == UNCHANGED <<phase, message, working, queue, attempts, published, stranded>>
<1>1. ASSUME Same, run'[r] \in {"queued", "running"} /\ r \in published => run'[r] = run[r]
      PROVE  Delivers(r)'
  <2>1. (Recoverable(r) <=> Recoverable(r)') /\ (Pursued(r) <=> Pursued(r)')
    BY <1>1 DEF Recoverable, Pursued, Recovers, Pursues, Carries, Live
  <2>2. QED
    BY <1>1, <2>1 DEF Delivers
<1>2. ASSUME NEW q \in Runs, Submit(q) \/ PollRegistered(q) \/ RefuseSubmission(q) PROVE Delivers(r)'
  BY <1>0, <1>1, <1>2 DEF Submit, PollRegistered, Queued, RefuseSubmission, workerVars, PublishedExists
<1>3. ASSUME NEW q \in Runs, Publish(q) PROVE Delivers(r)'
  <2>1. /\ \A m \in Message : queue'[m] >= queue[m]
        /\ queue'[Fresh(q)] > 0 /\ Fresh(q) \in Message
    BY <1>0, <1>3, SendType, SentMessages DEF Publish
  <2>2. \A m \in Message : queue[m] > 0 => queue'[m] > 0
    BY <1>0, <2>1, <1>3, SendType, SentMessages DEF Publish
  <2>3. UNCHANGED <<phase, message, working, run, attempts, stranded>>
        /\ published' = published \cup {q}
    BY <1>3 DEF Publish, workerVars, rowVars
  <2>4. (Recoverable(r) => Recoverable(r)') /\ (Pursued(r) => Pursued(r)')
    BY <2>2, <2>3 DEF Recoverable, Pursued, Recovers, Pursues, Carries, Live
  <2>5. Pursued(q)'
    BY <2>1 DEF Pursued, Fresh
  <2>6. QED
    BY <2>3, <2>4, <2>5 DEF Delivers
<1>4. ASSUME NEW result \in {"succeeded", "failed"}, OperatorBlocks \/ ParseReports(result)
      PROVE  Delivers(r)'
  BY <1>1, <1>4 DEF OperatorBlocks, ParseReports, workerVars
<1>5. ASSUME UNCHANGED vars PROVE Delivers(r)'
  BY <1>1, <1>5 DEF vars, workerVars, rowVars
<1>6. QED
  BY <1>2, <1>3, <1>4, <1>5

LEMMA ReceiveDelivers ==
  ASSUME AttemptInv, NEW w \in Workers, NEW m \in Message, Receive(w, m),
         NEW r \in Runs, Delivers(r)
  PROVE  Delivers(r)'
<1>1. /\ phase[w] = "idle" /\ phase'[w] = "received" /\ message'[w] = m
      /\ \A v \in Workers \ {w} : UNCHANGED <<phase[v], message[v], working[v]>>
      /\ \A n \in Message \ {m} : queue'[n] = queue[n]
      /\ UNCHANGED <<attempts, run, published, stranded>>
  BY DEF Receive, AttemptInv, TypeOK, rowVars
<1>2. Carries(m, m.run)
  BY SentMessages DEF Carries
<1>3. m.run = r => Pursues(w, r)' /\ (RecoverStarted(m) => Recovers(w, r)')
  BY <1>1, <1>2 DEF Pursues, Recovers
<1>4. ~Recovers(w, r) /\ ~Pursues(w, r)
  BY <1>1 DEF Recovers, Pursues
<1>5. ASSUME NEW v \in Workers, v # w
      PROVE  (Recovers(v, r) => Recovers(v, r)') /\ (Pursues(v, r) => Pursues(v, r)')
  BY <1>1, <1>5 DEF Recovers, Pursues, Carries, Live
<1>6. Recoverable(r) => Recoverable(r)'
  BY <1>1, <1>3, <1>4, <1>5 DEF Recoverable
<1>7. Pursued(r) => Pursued(r)'
  BY <1>1, <1>3, <1>4, <1>5 DEF Pursued
<1>8. QED
  BY <1>1, <1>6, <1>7 DEF Delivers

(* A worker leaves its run with another carrier, settled, or stranded.     *)
LEMMA WorkerDelivers ==
  ASSUME AttemptInv, RowsFollowAttempt, PublishedExists,
         NEW w \in Workers, Progress(w) \/ Disturbance(w),
         NEW r \in Runs, \A x \in Runs : Delivers(x)
  PROVE  Delivers(r)'
<1>0. TypeOK /\ WorkersHold /\ queue \in [Message -> Nat] /\ queue' \in [Message -> Nat]
  <2>1. [Next]_vars
    BY DEF Next
  <2>2. QED
    BY <2>1, TypeStep DEF AttemptInv, TypeOK
<1> DEFINE m == message[w]
<1>1. phase[w] # "idle" /\ m \in Message /\ m.run \in Runs
  <2>1. phase[w] # "idle"
    BY DEF Progress, Disturbance, BeginFetch, SkipFetch, FetchSucceeds, FetchRefused,
       FetchFails, RetryFetch, MarkExhausted, DatabaseError, TaskAborts, WorkerLost, Redeliver
  <2>2. QED
    BY <1>0, <2>1, WorkersMessage
<1>2. PICK q \in Runs : q = m.run
  BY <1>1
<1>3. \A v \in Workers \ {w} : UNCHANGED <<phase[v], message[v], working[v]>>
  BY <1>0 DEF TypeOK, Progress, Disturbance, BeginFetch, SkipFetch, FetchSucceeds,
     FetchRefused, FetchFails, RetryFetch, MarkExhausted, DatabaseError, TaskAborts,
     WorkerLost, Redeliver, Finish, workerVars
<1>4. \A n \in Message : queue'[n] >= queue[n]
  <2>1. UNCHANGED queue \/ \E n \in Message : Send(n)
    BY <1>1, SentMessages DEF Progress, Disturbance, BeginFetch, SkipFetch, FetchSucceeds,
       FetchRefused, FetchFails, RetryFetch, MarkExhausted, DatabaseError, TaskAborts,
       WorkerLost, Redeliver
  <2>2. QED
    BY <1>0, <2>1, SendType
<1>5. published' = published /\ stranded \subseteq stranded'
  BY DEF Progress, Disturbance, BeginFetch, SkipFetch, FetchSucceeds, FetchRefused,
     FetchFails, RetryFetch, MarkExhausted, DatabaseError, TaskAborts, WorkerLost, Redeliver
<1>6. CASE r # q
  <2>1. UNCHANGED <<attempts[r], run[r]>>
    <3>1. CASE BeginFetch(w)
      <4>1. UNCHANGED attempts[r]
        BY <1>0, <1>2, <1>6, <3>1, BegunStep
      <4>2. UNCHANGED run[r]
        BY <1>0, <1>2, <1>6, <3>1 DEF BeginFetch, TypeOK
      <4>3. QED
        BY <4>1, <4>2
    <3>2. CASE Records(w) /\ Live(w)
      <4>1. PICK result \in Results : Settle(w, result)
        BY <3>2, RecordsSettle
      <4>2. phase[w] = "fetching"
        BY <3>2 DEF Records, FetchSucceeds, FetchRefused, FetchFails
      <4>3. UNCHANGED attempts[r]
        BY <1>0, <1>2, <1>6, <3>2, <4>1, <4>2, SettledAttempts
      <4>4. UNCHANGED run[r]
        BY <1>0, <1>2, <1>6, <3>2 DEF Records, FetchSucceeds, FetchRefused, FetchFails,
           RecordSuccess, RecordFailure, TypeOK
      <4>5. QED
        BY <4>3, <4>4
    <3>3. CASE MarkExhausted(w)
      BY <1>0, <1>2, <1>6, <3>3 DEF MarkExhausted, RecordExhaustion, rowVars, TypeOK
    <3>4. CASE ~BeginFetch(w) /\ ~(Records(w) /\ Live(w)) /\ ~MarkExhausted(w)
      BY <3>4 DEF Progress, Disturbance, Records, SkipFetch, FetchSucceeds, FetchRefused,
         FetchFails, RecordSuccess, RecordFailure, RetryFetch, DatabaseError, TaskAborts,
         WorkerLost, Redeliver, rowVars
    <3>5. QED
      BY <3>1, <3>2, <3>3, <3>4
  <2>2. ~Recovers(w, r) /\ ~Pursues(w, r)
    BY <1>2, <1>6, CarriesItsRun
  <2>3. QED
    BY <1>0, <1>3, <1>4, <1>5, <2>1, <2>2, OthersDeliver
<1>7. CASE r = q
  <2>0. Carries(m, q)
    BY <1>1, <1>2, SentMessages DEF Carries
  <2>1. CASE BeginFetch(w)
    <3>1. /\ Len(attempts[q]) + 1 \in DOMAIN attempts'[q]
          /\ attempts'[q][Len(attempts[q]) + 1] = "started"
      BY <1>0, <1>2, <2>1, BegunStep
    <3>2. /\ message'[w] = m /\ phase'[w] = "fetching"
          /\ working'[w] = Len(attempts[q]) + 1
      BY <1>0, <1>2, <2>1 DEF BeginFetch, TypeOK
    <3>3. Recovers(w, q)'
      BY <1>2, <2>0, <3>1, <3>2 DEF Recovers, Carries, Live
    <3>4. Recoverable(q)' /\ Pursued(q)'
      BY <3>3 DEF Recoverable, Pursued, Recovers, Pursues
    <3>5. QED
      BY <1>7, <3>4 DEF Delivers
  <2>2. CASE SkipFetch(w)
    <3>1. UNCHANGED <<attempts[q], run[q]>> /\ NothingToFetch(q, m) /\ phase[w] = "received"
      BY <1>2, <2>2 DEF SkipFetch, rowVars
    <3>2. CASE Last(attempts[q]) \in Success
      <4>1. run[q] = "complete"
        BY <3>1, <3>2 DEF NothingToFetch, RowsFollowAttempt, Succeeded
      <4>2. QED
        BY <1>7, <3>1, <3>2, <4>1 DEF Delivers, Success
    <3>3. CASE Last(attempts[q]) \notin Success
      <4>1. Last(attempts[q]) = "started" /\ attempts[q] # << >> /\ ~RecoverStarted(m)
        BY <3>1, <3>3 DEF NothingToFetch
      <4>2. ~Recovers(w, q)
        BY <3>1, <4>1 DEF Recovers
      <4>3. Recoverable(q) => Recoverable(q)'
        BY <1>0, <1>3, <1>4, <3>1, <4>2, CarriersKept
      <4>4. q \notin stranded' => Recoverable(q)'
        BY <1>5, <4>1, <4>3 DEF Delivers
      <4>5. Recoverable(q)' => Pursued(q)'
        BY DEF Recoverable, Pursued, Recovers, Pursues
      <4>6. QED
        BY <1>7, <4>4, <4>5 DEF Delivers
    <3>4. QED
      BY <3>2, <3>3
  <2>3. CASE Records(w) /\ ~Live(w)
    <3>1. UNCHANGED <<attempts[q], run[q]>> /\ phase[w] = "fetching"
      BY <2>3 DEF Records, FetchSucceeds, FetchRefused, FetchFails, RecordSuccess,
         RecordFailure, rowVars
    <3>2. ~Recovers(w, q) /\ ~Pursues(w, q)
      BY <2>3, <3>1 DEF Recovers, Pursues
    <3>3. QED
      BY <1>0, <1>3, <1>4, <1>5, <1>7, <3>1, <3>2, OthersDeliver
  <2>4. CASE Records(w) /\ Live(w)
    <3>1. PICK result \in Results : Settle(w, result)
      BY <2>4, RecordsSettle
    <3>2. phase[w] = "fetching"
      BY <2>4 DEF Records, FetchSucceeds, FetchRefused, FetchFails
    <3>3. working[w] = Len(attempts[q]) /\ working[w] \in 1..Len(attempts[q])
      BY <1>2, <2>4, <3>2, LiveIsNewest DEF Live
    <3>4. Len(attempts'[q]) = Len(attempts[q]) /\ attempts'[q][working[w]] = result
      BY <1>0, <1>2, <2>4, <3>1, <3>2, SettledAttempts
    <3>5. Last(attempts'[q]) # "started"
      BY <3>3, <3>4 DEF Last, Results, Success
    <3>6. CASE FetchFails(w)
      <4>1. message'[w] = m /\ phase'[w] = "retrying"
        BY <1>0, <3>6 DEF FetchFails, TypeOK
      <4>2. Pursued(q)'
        BY <2>0, <4>1 DEF Pursued, Pursues, Carries
      <4>3. QED
        BY <1>7, <3>5, <4>2 DEF Delivers
    <3>7. CASE ~FetchFails(w)
      <4>1. run'[q] \in {"complete", "failed"}
        BY <1>0, <1>2, <2>4, <3>7 DEF Records, FetchSucceeds, FetchRefused, RecordSuccess,
           RecordFailure, TypeOK
      <4>2. QED
        BY <1>7, <3>5, <4>1 DEF Delivers
    <3>8. QED
      BY <3>6, <3>7
  <2>5. CASE MarkExhausted(w)
    <3>1. attempts'[q] = attempts[q] /\ run'[q] \in {"complete", "failed"}
      BY <1>0, <1>2, <2>5 DEF MarkExhausted, RecordExhaustion, rowVars, TypeOK
    <3>2. ~Recovers(w, q)
      BY <2>5 DEF MarkExhausted, Recovers
    <3>3. Recoverable(q) => Recoverable(q)'
      BY <1>0, <1>3, <1>4, <3>1, <3>2, CarriersKept
    <3>4. QED
      BY <1>5, <1>7, <3>1, <3>3 DEF Delivers
  <2>6. ASSUME m.retries < MaxRetries, Send(Again(m)) PROVE Delivers(q)'
    <3>1. Again(m) \in Message /\ queue'[Again(m)] > 0
      BY <1>0, <1>1, <2>6, SendType, SentMessages
    <3>2. Again(m).run = q /\ RecoverStarted(Again(m))
      <4>1. m.retries \in Nat /\ Again(m).retries = m.retries + 1 /\ Again(m).run = q
        BY <1>1, <1>2, SourceFetchAssumption DEF Again, Message
      <4>2. QED
        BY <4>1 DEF RecoverStarted
    <3>3. QED
      BY <3>1, <3>2, QueuedDelivers
  <2>7. ASSUME Send(Redelivered(m)) PROVE Delivers(q)'
    <3>1. Redelivered(m) \in Message /\ queue'[Redelivered(m)] > 0
      BY <1>0, <1>1, <2>7, SendType, SentMessages
    <3>2. Redelivered(m).run = q /\ RecoverStarted(Redelivered(m))
      BY <1>1, <1>2 DEF Redelivered, RecoverStarted, Message
    <3>3. QED
      BY <3>1, <3>2, QueuedDelivers
  <2>8. ASSUME q \in stranded' PROVE Delivers(q)'
    BY <2>8 DEF Delivers
  <2>9. CASE RetryFetch(w) \/ Disturbance(w)
    BY <1>2, <1>7, <2>6, <2>7, <2>8, <2>9 DEF RetryFetch, Disturbance, DatabaseError,
       TaskAborts, WorkerLost, Redeliver
  <2>10. QED
    BY <2>1, <2>2, <2>3, <2>4, <2>5, <2>9 DEF Progress, Records
<1>8. QED
  BY <1>6, <1>7

(* Runs are published when they exist, and never cease to.                 *)
LEMMA PublishedStep ==
  ASSUME AttemptInv, PublishedExists, [Next]_vars
  PROVE  PublishedExists'
<1> DEFINE Exists(status) == status \notin {"absent", "refused"}
<1>0. TypeOK /\ WorkersHold /\ published \subseteq Runs
  BY DEF AttemptInv, TypeOK
<1>1. ASSUME NEW r \in Runs, Exists(run[r]) PROVE Exists(run'[r])
  <2>1. ASSUME NEW q \in Runs, Submit(q) \/ PollRegistered(q) \/ RefuseSubmission(q) PROVE Exists(run'[r])
    BY <1>0, <1>1, <2>1 DEF Submit, PollRegistered, Queued, RefuseSubmission, TypeOK
  <2>2. ASSUME NEW w \in Workers, BeginFetch(w) PROVE Exists(run'[r])
    BY <1>0, <1>1, <2>2 DEF BeginFetch, TypeOK
  <2>3. ASSUME NEW w \in Workers, Records(w), Live(w) PROVE Exists(run'[r])
    BY <1>0, <1>1, <2>3 DEF Records, FetchSucceeds, FetchRefused, FetchFails, RecordSuccess,
       RecordFailure, TypeOK
  <2>4. ASSUME NEW w \in Workers, MarkExhausted(w), run[message[w].run] # "complete"
        PROVE  Exists(run'[r])
    BY <1>0, <1>1, <2>4 DEF MarkExhausted, RecordExhaustion, TypeOK
  <2>5. QED
    BY <1>1, <2>1, <2>2, <2>3, <2>4, RowsStep
<1>2. ASSUME NEW r \in published', r \notin published PROVE r \in Runs /\ Exists(run'[r])
  <2>1. ASSUME NEW w \in Workers, Progress(w) \/ Disturbance(w) PROVE published' = published
    BY <2>1 DEF Progress, Disturbance, BeginFetch, SkipFetch, FetchSucceeds, FetchRefused,
       FetchFails, RetryFetch, MarkExhausted, DatabaseError, TaskAborts, WorkerLost, Redeliver
  <2>2. \E q \in Runs : Publish(q) /\ r = q
    BY <1>2, <2>1 DEF Next, Submit, PollRegistered, Queued, RefuseSubmission, Publish, OperatorBlocks, ParseReports,
       Receive, vars
  <2>3. QED
    BY <2>2 DEF Publish, rowVars
<1>3. QED
  BY <1>0, <1>1, <1>2 DEF PublishedExists

LEMMA DeliveryStep ==
  ASSUME AttemptInv, RowsFollowAttempt, DeliveryInv, [Next]_vars
  PROVE  DeliveryInv'
<1>1. PublishedExists /\ \A r \in Runs : Delivers(r)
  BY DEF DeliveryInv, StartedIsRecoverable, UnfinishedIsPursued, Delivers
<1>2. \A r \in Runs : Delivers(r)'
  BY <1>1, OutsideDelivers, ReceiveDelivers, WorkerDelivers DEF Next
<1>3. PublishedExists'
  BY <1>1, PublishedStep
<1>4. QED
  BY <1>2, <1>3 DEF DeliveryInv, StartedIsRecoverable, UnfinishedIsPursued, Delivers

LEMMA SourceInvariant == Spec => []SourceInv
<1>1. Init => DeliveryInv
  BY DEF Init, DeliveryInv, StartedIsRecoverable, UnfinishedIsPursued, PublishedExists
<1>2. AttemptInv /\ RowsFollowAttempt /\ DeliveryInv /\ [Next]_vars => DeliveryInv'
  BY DeliveryStep
<1>3. AttemptInv /\ RowsFollowAttempt /\ DeliveryInv => SourceInv
  BY DEF SourceInv
<1>4. QED
  BY <1>1, <1>2, <1>3, RowsInvariant, PTL DEF Spec

(* A run that waits or runs is not forgotten: a delivery of its command is *)
(* in the broker or with a worker, unless Celery gave up one of its tasks. *)
THEOREM UnfinishedRunsAreUnderway == Spec => []UnfinishedIsUnderway
<1>1. \A r \in Runs : Pursued(r) => Underway(r)
  BY SentMessages DEF Pursued, Pursues, Underway, Carries
<1>2. SourceInv => UnfinishedIsUnderway
  BY <1>1 DEF SourceInv, DeliveryInv, UnfinishedIsPursued, UnfinishedIsUnderway
<1>3. QED
  BY <1>2, SourceInvariant, PTL

-----------------------------------------------------------------------------
(* One call of the HTTP client.                                            *)

Urls == {CanonicalOf[l] : l \in Locations}
Contacts == [url : Urls, host : PublicHosts]
Hop == [from : Urls, to : Locations]

HttpTypeInv ==
  /\ stage \in Stage
  /\ stage # "idle" => location \in Locations
  /\ chain \in Seq(Hop)
  /\ contacts \in Seq(Contacts)
  /\ clock \in Nat /\ bytes \in Nat /\ arrived \in Nat

(* Every redirect leads from a hop that was contacted to the next one.     *)
ChainIsLinked ==
  /\ Len(chain) <= MaxRedirects
  /\ Len(contacts) \in {Len(chain), Len(chain) + 1}
  /\ \A i \in 1..Len(chain) :
       /\ chain[i].from = contacts[i].url
       /\ i < Len(contacts) => CanonicalOf[chain[i].to] = contacts[i + 1].url
  /\ Len(chain) > 0 => location = chain[Len(chain)].to

(* What was contacted has been visited, and the next hop has not.          *)
VisitedBefore ==
  /\ stage # "done" => \A i \in 1..Len(contacts) : contacts[i].url \in visited
  /\ stage = "requesting" =>
       /\ Target \in visited /\ Target # Forbidden /\ pinned \subseteq PublicHosts
       /\ \A i \in 1..Len(contacts) : contacts[i].url # Target

(* How far the hop at hand has come.                                       *)
StageFollowsHop ==
  /\ stage = "idle" => Len(chain) = 0
  /\ stage \in {"idle", "validating", "requesting"} => Len(contacts) = Len(chain)
  /\ stage \in {"answering", "reading"} =>
       Len(contacts) = Len(chain) + 1 /\ contacts[Len(contacts)].url = Target

AskedIsFirst ==
  /\ Len(contacts) > 0 => contacts[1].url = asked
  /\ Len(contacts) = 0 /\ stage \in {"idle", "validating"} => asked = Forbidden
  /\ Len(contacts) = 0 /\ stage = "requesting" => asked = Target

ContactsAreDistinct ==
  \A i \in 1..Len(contacts) :
    /\ contacts[i].url # Forbidden
    /\ \A j \in 1..i - 1 : contacts[j].url # contacts[i].url

BodyWithinLimits == stage # "done" => bytes <= MaxBytes /\ arrived <= Deadline

SuccessIsDone == verdict.outcome \in {"fetched", "unchanged"} => stage = "done"

HttpInv ==
  /\ HttpTypeInv /\ ChainIsLinked /\ VisitedBefore /\ StageFollowsHop
  /\ AskedIsFirst /\ ContactsAreDistinct /\ BodyWithinLimits
  /\ SuccessIsDone /\ EvidenceIsTrue

(* A call that ends without a success keeps what it contacted.             *)
LEMMA FailingKeepsHttp ==
  ASSUME HttpInv, stage' = "done", verdict'.outcome \in {"failed", "escaped"},
         UNCHANGED <<location, chain, contacts, clock>>, location \in Locations,
         bytes' \in Nat, arrived' \in Nat,
         Len(contacts) > 0 => asked' = asked
  PROVE  HttpInv'
<1>1. HttpTypeInv'
  BY DEF HttpInv, HttpTypeInv, Stage
<1>2. ChainIsLinked' /\ ContactsAreDistinct'
  BY DEF HttpInv, ChainIsLinked, ContactsAreDistinct
<1>3. VisitedBefore' /\ StageFollowsHop' /\ AskedIsFirst'
  BY DEF HttpInv, HttpTypeInv, VisitedBefore, StageFollowsHop, AskedIsFirst
<1>4. BodyWithinLimits' /\ SuccessIsDone' /\ EvidenceIsTrue'
  BY DEF BodyWithinLimits, SuccessIsDone, EvidenceIsTrue
<1>5. QED
  BY <1>1, <1>2, <1>3, <1>4 DEF HttpInv

(* A call that succeeds hands over what it contacted.                      *)
LEMMA SucceedingKeepsHttp ==
  ASSUME HttpInv, stage \in {"answering", "reading"}, stage' = "done",
         \/ verdict'.outcome = "unchanged"
         \/ verdict'.outcome = "fetched" /\ bytes > 0,
         UNCHANGED <<targetVars, replyVars, clock, contacts>>
  PROVE  HttpInv'
<1>0. UNCHANGED <<location, asked, pinned, visited, chain, bytes, arrived>>
  BY DEF targetVars, replyVars
<1>1. HttpTypeInv'
  BY <1>0 DEF HttpInv, HttpTypeInv, Stage
<1>2. ChainIsLinked' /\ ContactsAreDistinct'
  BY <1>0 DEF HttpInv, ChainIsLinked, ContactsAreDistinct
<1>3. VisitedBefore' /\ StageFollowsHop' /\ AskedIsFirst' /\ BodyWithinLimits' /\ SuccessIsDone'
  BY <1>0 DEF HttpInv, HttpTypeInv, VisitedBefore, StageFollowsHop, AskedIsFirst,
     BodyWithinLimits, SuccessIsDone
<1>4. EvidenceIsTrue'
  <2>1. chain \in Seq(Hop) /\ contacts \in Seq(Contacts) /\ bytes \in Nat
    BY DEF HttpInv, HttpTypeInv
  <2>2. Len(contacts) = Len(chain) + 1 /\ contacts[Len(contacts)].url = Target
    BY DEF HttpInv, StageFollowsHop
  <2>3. contacts[1].url = asked
    BY <2>1, <2>2 DEF HttpInv, AskedIsFirst
  <2>4. \A i \in DOMAIN chain :
          /\ chain[i].from = contacts[i].url
          /\ CanonicalOf[chain[i].to] = contacts[i + 1].url
    BY <2>1, <2>2 DEF HttpInv, ChainIsLinked
  <2>5. verdict'.outcome = "fetched" => bytes \in 1..MaxBytes /\ arrived <= Deadline
    BY <2>1, HttpAssumption DEF HttpInv, BodyWithinLimits
  <2>6. Target' = Target
    BY <1>0 DEF Target
  <2>7. QED
    BY <1>0, <2>2, <2>3, <2>4, <2>5, <2>6 DEF EvidenceIsTrue
<1>5. QED
  BY <1>1, <1>2, <1>3, <1>4 DEF HttpInv

LEMMA EnteringKeepsHttp ==
  ASSUME HttpInv, NEW answers \in SUBSET Hosts, EnterHop(answers)
  PROVE  HttpInv'
<1>1. /\ stage = "validating" /\ Target # Forbidden /\ answers \subseteq PublicHosts
      /\ UNCHANGED <<location, chain, bytes, arrived, clock, contacts>>
      /\ location \in Locations
      /\ asked' = IF asked = Forbidden THEN Target ELSE asked
  BY DEF EnterHop, Admits, replyVars, HttpInv, HttpTypeInv
<1>2. Len(contacts) \in Nat /\ Len(contacts) = Len(chain) /\ contacts \in Seq(Contacts)
  BY <1>1 DEF HttpInv, HttpTypeInv, StageFollowsHop
<1>3. Len(contacts) > 0 => asked' = asked
  BY <1>1, <1>2 DEF HttpInv, AskedIsFirst, ContactsAreDistinct
<1>4. CASE stage' = "done"
  <2>1. verdict'.outcome = "failed"
    BY <1>1, <1>4 DEF EnterHop, FailsFetch, EndsAs
  <2>2. bytes' \in Nat /\ arrived' \in Nat
    BY <1>1 DEF HttpInv, HttpTypeInv
  <2>3. QED
    BY <1>1, <1>3, <1>4, <2>1, <2>2, FailingKeepsHttp
<1>5. CASE stage' # "done"
  <2>1. /\ stage' = "requesting" /\ pinned' = answers /\ UNCHANGED verdict
        /\ visited' = visited \cup {Target} /\ Target \notin visited
    BY <1>5 DEF EnterHop, FailsFetch, EndsAs, Seen
  <2>2. Target' = Target
    BY <1>1 DEF Target
  <2>3. HttpTypeInv'
    BY <1>1, <2>1 DEF HttpInv, HttpTypeInv, Stage
  <2>4. ChainIsLinked' /\ ContactsAreDistinct'
    BY <1>1 DEF HttpInv, ChainIsLinked, ContactsAreDistinct
  <2>5. VisitedBefore'
    BY <1>1, <2>1, <2>2 DEF HttpInv, VisitedBefore
  <2>6. StageFollowsHop' /\ BodyWithinLimits'
    BY <1>1, <1>2, <2>1 DEF HttpInv, StageFollowsHop, BodyWithinLimits
  <2>7. AskedIsFirst'
    BY <1>1, <1>2, <1>3, <2>1, <2>2 DEF HttpInv, AskedIsFirst
  <2>8. SuccessIsDone' /\ EvidenceIsTrue'
    BY <1>1, <2>1 DEF HttpInv, SuccessIsDone, EvidenceIsTrue
  <2>9. QED
    BY <2>3, <2>4, <2>5, <2>6, <2>7, <2>8 DEF HttpInv
<1>6. QED
  BY <1>4, <1>5

LEMMA ConnectingKeepsHttp ==
  ASSUME HttpInv, NEW h \in Hosts, Connect(h)
  PROVE  HttpInv'
<1> DEFINE new == [url |-> Target, host |-> h]
<1>1. /\ stage = "requesting" /\ stage' = "answering" /\ h \in pinned
      /\ contacts' = Append(contacts, new)
      /\ UNCHANGED <<location, asked, pinned, visited, chain, bytes, arrived, clock, verdict>>
  BY DEF Connect, targetVars, replyVars
<1>2. location \in Locations /\ Target \in Urls /\ new \in Contacts
  BY <1>1 DEF HttpInv, HttpTypeInv, VisitedBefore, Target, Urls, Contacts
<1>3. /\ contacts \in Seq(Contacts) /\ chain \in Seq(Hop) /\ Len(contacts) = Len(chain)
      /\ Len(contacts) \in Nat
  BY <1>1 DEF HttpInv, HttpTypeInv, StageFollowsHop
<1>4. /\ contacts' \in Seq(Contacts) /\ Len(contacts') = Len(contacts) + 1
      /\ \A i \in 1..Len(contacts) : contacts'[i] = contacts[i]
      /\ contacts'[Len(contacts) + 1] = new
  BY <1>1, <1>2, <1>3
<1>5. Target' = Target /\ new.url = Target
  BY <1>1 DEF Target
<1> HIDE DEF new
<1>6. HttpTypeInv'
  BY <1>1, <1>4 DEF HttpInv, HttpTypeInv, Stage
<1>7. ChainIsLinked'
  <2>1. /\ Len(chain) <= MaxRedirects
        /\ Len(chain) > 0 => location = chain[Len(chain)].to
        /\ \A i \in 1..Len(chain) :
             /\ chain[i].from = contacts[i].url
             /\ i < Len(contacts) => CanonicalOf[chain[i].to] = contacts[i + 1].url
    BY DEF HttpInv, ChainIsLinked
  <2>2. \A i \in 1..Len(chain) : chain[i].from = contacts'[i].url
    BY <1>3, <1>4, <2>1
  <2>3. ASSUME NEW i \in 1..Len(chain)
        PROVE  CanonicalOf[chain[i].to] = contacts'[i + 1].url
    <3>1. CASE i < Len(contacts)
      BY <1>3, <1>4, <2>1, <3>1
    <3>2. CASE i = Len(contacts)
      BY <1>3, <1>4, <1>5, <2>1, <3>2 DEF Target
    <3>3. QED
      BY <1>3, <3>1, <3>2
  <2>4. QED
    BY <1>1, <1>3, <1>4, <2>1, <2>2, <2>3 DEF ChainIsLinked
<1>8. VisitedBefore'
  BY <1>1, <1>3, <1>4, <1>5 DEF HttpInv, VisitedBefore
<1>9. StageFollowsHop' /\ AskedIsFirst' /\ BodyWithinLimits' /\ SuccessIsDone' /\ EvidenceIsTrue'
  BY <1>1, <1>3, <1>4, <1>5 DEF HttpInv, StageFollowsHop, AskedIsFirst, BodyWithinLimits,
     SuccessIsDone, EvidenceIsTrue
<1>10. ContactsAreDistinct'
  <2>1. Target # Forbidden /\ \A i \in 1..Len(contacts) : contacts[i].url # Target
    BY <1>1 DEF HttpInv, VisitedBefore
  <2>2. ASSUME NEW i \in 1..Len(contacts')
        PROVE  /\ contacts'[i].url # Forbidden
               /\ \A j \in 1..i - 1 : contacts'[j].url # contacts'[i].url
    <3>1. CASE i \in 1..Len(contacts)
      <4>1. contacts[i].url # Forbidden /\ \A j \in 1..i - 1 : contacts[j].url # contacts[i].url
        BY <3>1 DEF HttpInv, ContactsAreDistinct
      <4>2. contacts'[i] = contacts[i] /\ \A j \in 1..i - 1 : contacts'[j] = contacts[j]
        BY <1>3, <1>4, <3>1
      <4>3. QED
        BY <4>1, <4>2
    <3>2. CASE i = Len(contacts) + 1
      <4>1. contacts'[i].url = Target /\ \A j \in 1..i - 1 : contacts'[j] = contacts[j]
        BY <1>3, <1>4, <1>5, <3>2
      <4>2. \A j \in 1..i - 1 : contacts[j].url # Target
        BY <1>3, <2>1, <3>2
      <4>3. QED
        BY <2>1, <4>1, <4>2
    <3>3. QED
      BY <1>3, <1>4, <3>1, <3>2
  <2>3. QED
    BY <2>2 DEF ContactsAreDistinct
<1>11. QED
  BY <1>6, <1>7, <1>8, <1>9, <1>10 DEF HttpInv

LEMMA RedirectKeepsHttp ==
  ASSUME HttpInv, NEW l \in Locations, Redirect(l)
  PROVE  HttpInv'
<1>1. /\ stage = "answering" /\ Len(chain) < MaxRedirects
      /\ UNCHANGED <<asked, pinned, visited, clock, bytes, contacts, arrived>>
  BY DEF Redirect
<1>2. CASE l \in Unjoinable
  <2>1. stage' = "done" /\ verdict'.outcome = "escaped" /\ UNCHANGED <<location, chain>>
    BY <1>2 DEF Redirect, EndsWith, EndsAs
  <2>2. location \in Locations /\ bytes' \in Nat /\ arrived' \in Nat
    BY <1>1 DEF HttpInv, HttpTypeInv
  <2>3. QED
    BY <1>1, <2>1, <2>2, FailingKeepsHttp
<1>3. CASE l \notin Unjoinable
  <2> DEFINE hop == [from |-> Target, to |-> l]
  <2>1. /\ stage' = "validating" /\ chain' = Append(chain, hop) /\ location' = l
        /\ UNCHANGED verdict
    BY <1>3 DEF Redirect
  <2>2. hop \in Hop
    BY <1>1 DEF HttpInv, HttpTypeInv, Hop, Urls, Target
  <2>3. hop.from = Target /\ hop.to = l
    OBVIOUS
  <2>4. /\ contacts \in Seq(Contacts) /\ chain \in Seq(Hop) /\ Len(chain) \in Nat
        /\ Len(contacts) = Len(chain) + 1 /\ contacts[Len(contacts)].url = Target
    BY <1>1 DEF HttpInv, HttpTypeInv, StageFollowsHop
  <2> HIDE DEF hop
  <2>5. /\ chain' \in Seq(Hop) /\ Len(chain') = Len(chain) + 1
        /\ \A i \in 1..Len(chain) : chain'[i] = chain[i]
        /\ chain'[Len(chain) + 1] = hop
    BY <2>1, <2>2, <2>4
  <2>6. HttpTypeInv'
    BY <1>1, <2>1, <2>5 DEF HttpInv, HttpTypeInv, Stage
  <2>7. ChainIsLinked'
    <3>1. \A i \in 1..Len(chain) :
            chain[i].from = contacts[i].url /\ CanonicalOf[chain[i].to] = contacts[i + 1].url
      BY <2>4 DEF HttpInv, ChainIsLinked
    <3>2. \A i \in 1..Len(chain') :
            /\ chain'[i].from = contacts[i].url
            /\ i < Len(contacts) => CanonicalOf[chain'[i].to] = contacts[i + 1].url
      BY <2>3, <2>4, <2>5, <3>1
    <3>3. Len(chain') <= MaxRedirects
      BY <1>1, <2>4, <2>5, HttpAssumption
    <3>4. QED
      BY <1>1, <2>1, <2>3, <2>4, <2>5, <3>2, <3>3 DEF ChainIsLinked
  <2>8. VisitedBefore' /\ AskedIsFirst' /\ ContactsAreDistinct' /\ BodyWithinLimits'
    BY <1>1, <2>1, <2>4 DEF HttpInv, VisitedBefore, AskedIsFirst, ContactsAreDistinct,
       BodyWithinLimits
  <2>9. StageFollowsHop' /\ SuccessIsDone' /\ EvidenceIsTrue'
    BY <1>1, <2>1, <2>4, <2>5 DEF HttpInv, StageFollowsHop, SuccessIsDone, EvidenceIsTrue
  <2>10. QED
    BY <2>6, <2>7, <2>8, <2>9 DEF HttpInv
<1>4. QED
  BY <1>2, <1>3

LEMMA ReadingKeepsHttp ==
  ASSUME HttpInv, NEW n \in 1..MaxBytes, ReadChunk(n)
  PROVE  HttpInv'
<1>1. /\ stage = "reading" /\ UNCHANGED <<location, asked, pinned, visited, chain, clock, contacts>>
      /\ location \in Locations
  BY DEF ReadChunk, targetVars, HttpInv, HttpTypeInv
<1>2. /\ bytes \in Nat /\ arrived \in Nat /\ clock \in Nat /\ n \in Nat
      /\ bytes <= MaxBytes /\ arrived <= Deadline
  BY <1>1, HttpAssumption DEF HttpInv, HttpTypeInv, BodyWithinLimits
<1>3. bytes' \in Nat /\ arrived' \in Nat
  <2>1. UNCHANGED <<bytes, arrived>> \/ (bytes' = bytes + n /\ arrived' = clock)
    BY DEF ReadChunk
  <2>2. QED
    BY <1>2, <2>1
<1>4. CASE stage' = "done"
  <2>1. verdict'.outcome = "failed"
    BY <1>1, <1>4 DEF ReadChunk, FailsFetch, EndsAs
  <2>2. QED
    BY <1>1, <1>3, <1>4, <2>1, FailingKeepsHttp
<1>5. CASE stage' # "done"
  <2>1. /\ UNCHANGED <<stage, verdict>> /\ bytes' = bytes + n /\ bytes + n <= MaxBytes
        /\ arrived' = clock /\ clock <= Deadline
    <3>1. ~(clock > Deadline)
      BY <1>5 DEF ReadChunk, FailsFetch, EndsAs
    <3>2. /\ bytes' = bytes + n /\ arrived' = clock
          /\ ~(bytes + n > MaxBytes) /\ UNCHANGED <<stage, verdict>>
      BY <1>5, <3>1 DEF ReadChunk, FailsFetch, EndsAs, Overflows
    <3>3. QED
      BY <1>2, <3>1, <3>2, HttpAssumption
  <2>2. HttpTypeInv' /\ BodyWithinLimits'
    BY <1>1, <1>3, <2>1 DEF HttpInv, HttpTypeInv, BodyWithinLimits
  <2>3. ChainIsLinked' /\ StageFollowsHop' /\ AskedIsFirst' /\ ContactsAreDistinct'
    BY <1>1, <2>1 DEF HttpInv, ChainIsLinked, StageFollowsHop, AskedIsFirst,
       ContactsAreDistinct, Target
  <2>4. VisitedBefore' /\ SuccessIsDone' /\ EvidenceIsTrue'
    BY <1>1, <2>1 DEF HttpInv, VisitedBefore, SuccessIsDone, EvidenceIsTrue
  <2>5. QED
    BY <2>2, <2>3, <2>4 DEF HttpInv
<1>6. QED
  BY <1>4, <1>5

(* The steps that begin a call, let time pass, or take an answer as it is. *)
LEMMA StayingKeepsHttp ==
  ASSUME HttpInv,
         \/ TimePasses \/ Accept \/ UNCHANGED httpVars
         \/ \E l \in Locations : CallFetch(l)
  PROVE  HttpInv'
<1>1. ASSUME TimePasses PROVE HttpInv'
  <2>1. clock' \in Nat /\ UNCHANGED <<stage, location, asked, pinned, visited, chain, bytes,
                                       arrived, verdict, contacts>>
    BY <1>1 DEF TimePasses, targetVars, replyVars, HttpInv, HttpTypeInv
  <2>2. HttpTypeInv' /\ ChainIsLinked' /\ VisitedBefore' /\ StageFollowsHop'
    BY <2>1 DEF HttpInv, HttpTypeInv, ChainIsLinked, VisitedBefore, StageFollowsHop, Target
  <2>3. AskedIsFirst' /\ ContactsAreDistinct' /\ BodyWithinLimits' /\ SuccessIsDone'
        /\ EvidenceIsTrue'
    BY <2>1 DEF HttpInv, AskedIsFirst, ContactsAreDistinct, BodyWithinLimits, SuccessIsDone,
       EvidenceIsTrue, Target
  <2>4. QED
    BY <2>2, <2>3 DEF HttpInv
<1>2. ASSUME Accept PROVE HttpInv'
  <2>1. /\ stage = "answering" /\ stage' = "reading"
        /\ UNCHANGED <<location, asked, pinned, visited, chain, bytes, arrived, clock,
                        verdict, contacts>>
    BY <1>2 DEF Accept, targetVars, replyVars
  <2>2. HttpTypeInv' /\ ChainIsLinked' /\ VisitedBefore' /\ StageFollowsHop'
    BY <2>1 DEF HttpInv, HttpTypeInv, Stage, ChainIsLinked, VisitedBefore, StageFollowsHop,
       Target
  <2>3. AskedIsFirst' /\ ContactsAreDistinct' /\ BodyWithinLimits' /\ SuccessIsDone'
        /\ EvidenceIsTrue'
    BY <2>1 DEF HttpInv, AskedIsFirst, ContactsAreDistinct, BodyWithinLimits, SuccessIsDone,
       EvidenceIsTrue
  <2>4. QED
    BY <2>2, <2>3 DEF HttpInv
<1>3. ASSUME NEW l \in Locations, CallFetch(l) PROVE HttpInv'
  <2>1. /\ stage = "idle" /\ stage' = "validating" /\ location' = l
        /\ UNCHANGED <<asked, pinned, visited, chain, bytes, arrived, clock, verdict, contacts>>
    BY <1>3 DEF CallFetch, replyVars
  <2>2. Len(contacts) = 0 /\ Len(chain) = 0
    BY <2>1 DEF HttpInv, StageFollowsHop
  <2>3. HttpTypeInv' /\ ChainIsLinked' /\ VisitedBefore' /\ StageFollowsHop'
    BY <2>1, <2>2 DEF HttpInv, HttpTypeInv, Stage, ChainIsLinked, VisitedBefore, StageFollowsHop
  <2>4. AskedIsFirst' /\ ContactsAreDistinct' /\ BodyWithinLimits' /\ SuccessIsDone'
        /\ EvidenceIsTrue'
    BY <2>1 DEF HttpInv, AskedIsFirst, ContactsAreDistinct, BodyWithinLimits, SuccessIsDone,
       EvidenceIsTrue
  <2>5. QED
    BY <2>3, <2>4 DEF HttpInv
<1>4. ASSUME UNCHANGED httpVars PROVE HttpInv'
  <2>1. UNCHANGED <<stage, location, asked, pinned, visited, chain, bytes, arrived, clock,
                    verdict, contacts>>
    BY <1>4 DEF httpVars, targetVars, replyVars
  <2>2. HttpTypeInv' /\ ChainIsLinked' /\ VisitedBefore' /\ StageFollowsHop'
    BY <2>1 DEF HttpInv, HttpTypeInv, ChainIsLinked, VisitedBefore, StageFollowsHop, Target
  <2>3. AskedIsFirst' /\ ContactsAreDistinct' /\ BodyWithinLimits' /\ SuccessIsDone'
        /\ EvidenceIsTrue'
    BY <2>1 DEF HttpInv, AskedIsFirst, ContactsAreDistinct, BodyWithinLimits, SuccessIsDone,
       EvidenceIsTrue, Target
  <2>4. QED
    BY <2>2, <2>3 DEF HttpInv
<1>5. QED
  BY <1>1, <1>2, <1>3, <1>4

LEMMA HttpStep == HttpInv /\ [HttpNext]_httpVars => HttpInv'
<1> SUFFICES ASSUME HttpInv, [HttpNext]_httpVars PROVE HttpInv'
  OBVIOUS
<1>0. HttpTypeInv
  BY DEF HttpInv
<1>1. ASSUME NEW again \in BOOLEAN, stage \notin {"idle", "done"},
             FailsFetch(again) \/ EndsWith("escaped"),
             UNCHANGED <<targetVars, replyVars, clock, contacts>>
      PROVE  HttpInv'
  <2>1. stage' = "done" /\ verdict'.outcome \in {"failed", "escaped"}
    BY <1>1 DEF FailsFetch, EndsWith, EndsAs
  <2>2. /\ UNCHANGED <<location, asked, chain, contacts, clock>> /\ location \in Locations
        /\ bytes' \in Nat /\ arrived' \in Nat
    BY <1>0, <1>1 DEF targetVars, replyVars, HttpTypeInv
  <2>3. QED
    BY <2>1, <2>2, FailingKeepsHttp
<1>2. ASSUME NEW answers \in SUBSET Hosts, Refuse(answers) PROVE HttpInv'
  BY <1>1, <1>2 DEF Refuse
<1>3. ASSUME NetworkFails \/ ProtocolBreaks \/ RedirectFails \/ HeadersFail PROVE HttpInv'
  BY <1>1, <1>3 DEF NetworkFails, ProtocolBreaks, RedirectFails, HeadersFail
<1>4. ASSUME NEW again \in BOOLEAN, StatusFails(again) PROVE HttpInv'
  BY <1>1, <1>4 DEF StatusFails
<1>5. ASSUME NotModified PROVE HttpInv'
  BY <1>5, SucceedingKeepsHttp DEF NotModified, EndsWith, EndsAs
<1>6. ASSUME EndOfBody PROVE HttpInv'
  <2>1. CASE bytes = 0
    BY <1>1, <1>6, <2>1 DEF EndOfBody
  <2>2. CASE bytes # 0
    <3>1. bytes > 0
      BY <1>0, <2>2 DEF HttpTypeInv
    <3>2. QED
      BY <1>6, <2>2, <3>1, SucceedingKeepsHttp DEF EndOfBody, EndsWith, EndsAs
  <2>3. QED
    BY <2>1, <2>2
<1>7. QED
  BY <1>2, <1>3, <1>4, <1>5, <1>6, EnteringKeepsHttp, ConnectingKeepsHttp, RedirectKeepsHttp,
     ReadingKeepsHttp, StayingKeepsHttp DEF HttpNext

LEMMA HttpInvariant == HttpSpec => []HttpInv
<1>1. HttpInit => HttpInv
  <2> SUFFICES ASSUME HttpInit PROVE HttpInv
    OBVIOUS
  <2> USE DEF HttpInit
  <2>1. HttpTypeInv /\ ChainIsLinked
    BY EmptySeq, HttpAssumption DEF HttpTypeInv, Stage, ChainIsLinked
  <2>2. VisitedBefore /\ StageFollowsHop /\ AskedIsFirst /\ ContactsAreDistinct
    BY EmptySeq DEF VisitedBefore, StageFollowsHop, AskedIsFirst, ContactsAreDistinct
  <2>3. BodyWithinLimits /\ SuccessIsDone /\ EvidenceIsTrue
    BY HttpAssumption DEF BodyWithinLimits, SuccessIsDone, EvidenceIsTrue
  <2>4. QED
    BY <2>1, <2>2, <2>3 DEF HttpInv
<1>2. QED
  BY <1>1, HttpStep, PTL DEF HttpSpec

(* Whatever way servers redirect and the resolver answers, a call opens at *)
(* most one connection per canonical URL, and only to permitted addresses. *)
THEOREM HopsStayDistinct == HttpSpec => []HopsAreDistinct
<1>1. HttpInv => HopsAreDistinct
  <2> SUFFICES ASSUME HttpInv PROVE HopsAreDistinct
    OBVIOUS
  <2>1. contacts \in Seq(Contacts) /\ chain \in Seq(Hop)
    BY DEF HttpInv, HttpTypeInv
  <2>2. Len(contacts) <= MaxRedirects + 1
    BY <2>1, HttpAssumption DEF HttpInv, ChainIsLinked
  <2>3. \A i \in DOMAIN contacts : contacts[i].host \in PublicHosts
    <3>1. \A i \in DOMAIN contacts : contacts[i] \in Contacts
      BY <2>1, ElementOfSeq
    <3>2. QED
      BY <3>1 DEF Contacts
  <2>4. QED
    BY <2>1, <2>2, <2>3 DEF HttpInv, ContactsAreDistinct, HopsAreDistinct
<1>2. QED
  BY <1>1, HttpInvariant, PTL

(* A call that succeeds hands over what happened: a redirect chain over    *)
(* the hops that were contacted, and a body within limit and deadline.     *)
THEOREM EvidenceStaysTrue == HttpSpec => []EvidenceIsTrue
<1>1. HttpInv => EvidenceIsTrue
  BY DEF HttpInv
<1>2. QED
  BY <1>1, HttpInvariant, PTL
=============================================================================
