---------------------------- MODULE OutboxProofs ----------------------------
(***************************************************************************)
(* Proofs about Outbox for every value of its constants.                   *)
(***************************************************************************)
EXTENDS Outbox, TLAPS

(* Every variable keeps its type under every step of the outbox.           *)
LEMMA TypeStep == TypeOK /\ [Next]_vars => TypeOK'
<1> SUFFICES ASSUME TypeOK, [Next]_vars PROVE TypeOK'
  OBVIOUS
<1> USE OutboxAssumption DEF TypeOK, Status, Outcome, Fault
<1>1. ASSUME NEW c \in Commands, Submit(c) PROVE TypeOK'
  BY <1>1 DEF Submit, dispatcherVars, workerVars, auditVars
<1>2. ASSUME NEW d \in Dispatchers, NEW batch \in SUBSET Commands, Claim(d, batch)
      PROVE  TypeOK'
  BY <1>2 DEF Claim, workerVars, auditVars
<1>3. ASSUME NEW d \in Dispatchers, NEW c \in Commands, Publish(d, c)
      PROVE  TypeOK'
  <2>1. <<c, 0>> \in Message
    BY DEF Message
  <2>2. CASE RefuseUnsupported(d, c)
    BY <2>2 DEF RefuseUnsupported, Take, rowVars, workerVars, auditVars
  <2>3. CASE PublishAccepted(d, c)
    BY <2>3, <2>1 DEF PublishAccepted, Take, Enqueue, rowVars, workerVars, auditVars
  <2>4. CASE PublishRejected(d, c)
    BY <2>4 DEF PublishRejected, Take, rowVars, workerVars, auditVars
  <2>5. CASE PublishUnconfirmed(d, c)
    BY <2>5, <2>1 DEF PublishUnconfirmed, Take, Enqueue, rowVars, workerVars, auditVars
  <2>6. QED
    BY <1>3, <2>2, <2>3, <2>4, <2>5 DEF Publish
<1>4. ASSUME NEW d \in Dispatchers, Mark(d) PROVE TypeOK'
  <2>1. CASE MarkPublished(d)
    BY <2>1 DEF MarkPublished, PutDown, workerVars, auditVars
  <2>2. CASE MarkFailed(d)
    BY <2>2 DEF MarkFailed, PutDown, AtLeast, workerVars, auditVars
  <2>3. CASE MarkTooLate(d)
    BY <2>3 DEF MarkTooLate, PutDown, rowVars, workerVars, auditVars
  <2>4. QED
    BY <1>4, <2>1, <2>2, <2>3 DEF Mark
<1>5. ASSUME NEW d \in Dispatchers, DispatcherCrash(d) PROVE TypeOK'
  BY <1>5 DEF DispatcherCrash, rowVars, workerVars, auditVars
<1>6. ASSUME NEW c \in Commands, BackoffElapses(c) PROVE TypeOK'
  BY <1>6 DEF BackoffElapses, dispatcherVars, workerVars, auditVars
<1>7. ASSUME NEW c \in Commands, OrphanedClaimAges(c) \/ StalledClaimAges(c)
      PROVE  TypeOK'
  BY <1>7 DEF OrphanedClaimAges, StalledClaimAges, ClaimAges, dispatcherVars,
              workerVars, auditVars
<1>8. ASSUME NEW batch \in SUBSET Commands, RecoverStaleClaims(batch) PROVE TypeOK'
  BY <1>8 DEF RecoverStaleClaims, dispatcherVars, workerVars
<1>9. ASSUME NEW c \in Commands, OperatorRetry(c) PROVE TypeOK'
  BY <1>9 DEF OperatorRetry, dispatcherVars, workerVars
<1>10. ASSUME NEW w \in Workers, NEW m \in Message, Deliver(w, m) PROVE TypeOK'
  BY <1>10 DEF Deliver, rowVars, dispatcherVars, auditVars
<1>11. ASSUME NEW w \in Workers, NEW m \in Message, Execute(w, m) PROVE TypeOK'
  BY <1>11 DEF Execute, Message, rowVars, dispatcherVars, auditVars
<1>12. ASSUME NEW w \in Workers, Acknowledge(w) PROVE TypeOK'
  BY <1>12 DEF Acknowledge, Drop, rowVars, dispatcherVars, auditVars
<1>13. ASSUME NEW w \in Workers, NEW m \in Message, ExecuteRetries(w, m)
       PROVE  TypeOK'
  <2>1. <<m[1], m[2] + 1>> \in Message
    BY <1>13 DEF ExecuteRetries, Message
  <2>2. QED
    BY <1>13, <2>1 DEF ExecuteRetries, Drop, rowVars, dispatcherVars, auditVars
<1>14. ASSUME NEW w \in Workers, NEW m \in Message, ExecuteGivesUp(w, m)
       PROVE  TypeOK'
  BY <1>14 DEF ExecuteGivesUp, Drop, Message, rowVars, dispatcherVars, auditVars
<1>15. ASSUME NEW w \in Workers, NEW m \in Message,
              WorkerLost(w, m) \/ VisibilityTimeout(w, m)
       PROVE  TypeOK'
  <2>1. CASE WorkerLost(w, m)
    BY <2>1 DEF WorkerLost, Drop, rowVars, dispatcherVars, auditVars
  <2>2. CASE VisibilityTimeout(w, m)
    BY <2>2 DEF VisibilityTimeout, rowVars, dispatcherVars, workerVars, auditVars
  <2>3. QED
    BY <1>15, <2>1, <2>2
<1>16. CASE UNCHANGED vars
  BY <1>16 DEF vars, rowVars, dispatcherVars, workerVars, auditVars
<1>17. QED
  BY <1>1, <1>2, <1>3, <1>4, <1>5, <1>6, <1>7, <1>8, <1>9, <1>10, <1>11, <1>12,
     <1>13, <1>14, <1>15, <1>16
     DEF Next, DispatcherNext, RowNext, WorkerNext

(* Type correctness of every reachable state.                              *)
THEOREM TypeCorrect == Spec => []TypeOK
<1>1. Init => TypeOK
  BY OutboxAssumption DEF Init, TypeOK, Status, Outcome, Message
<1>2. QED
  BY <1>1, TypeStep, PTL DEF Spec

-----------------------------------------------------------------------------
(* Only the consuming task's transaction writes effects.                   *)
LEMMA EffectsStep ==
  [Next]_vars => \/ UNCHANGED effects
                 \/ \E w \in Workers, m \in Message : Execute(w, m)
<1> SUFFICES ASSUME [Next]_vars,
                    \A w \in Workers, m \in Message : ~Execute(w, m)
             PROVE  UNCHANGED effects
  OBVIOUS
<1> USE DEF auditVars, workerVars, dispatcherVars, rowVars
<1>1. CASE DispatcherNext
  BY <1>1 DEF DispatcherNext, Claim, Publish, RefuseUnsupported, PublishAccepted,
     PublishRejected, PublishUnconfirmed, Take, Mark, MarkPublished, MarkFailed,
     MarkTooLate, PutDown, DispatcherCrash
<1>2. CASE RowNext
  BY <1>2 DEF RowNext, Submit, BackoffElapses, OrphanedClaimAges,
     StalledClaimAges, ClaimAges, OperatorRetry, RecoverStaleClaims
<1>3. CASE WorkerNext
  BY <1>3 DEF WorkerNext, Acknowledge, Deliver, ExecuteRetries, ExecuteGivesUp,
     WorkerLost, VisibilityTimeout
<1>4. CASE UNCHANGED vars
  BY <1>4 DEF vars
<1>5. QED
  BY <1>1, <1>2, <1>3, <1>4 DEF Next

LEMMA EffectStep == TypeOK /\ AtMostOneEffect /\ [Next]_vars => AtMostOneEffect'
<1> SUFFICES ASSUME TypeOK, AtMostOneEffect, [Next]_vars PROVE AtMostOneEffect'
  OBVIOUS
<1>1. CASE UNCHANGED effects
  BY <1>1 DEF AtMostOneEffect
<1>2. ASSUME NEW w \in Workers, NEW m \in Message, Execute(w, m)
      PROVE  AtMostOneEffect'
  BY <1>2 DEF Execute, AtMostOneEffect, TypeOK, Message
<1>3. QED
  BY <1>1, <1>2, EffectsStep

(* However often a command is published, redelivered or retried, its       *)
(* effect is written at most once.                                         *)
THEOREM EffectIsIdempotent == Spec => []AtMostOneEffect
<1>1. Init => AtMostOneEffect
  BY DEF Init, AtMostOneEffect
<1>2. QED
  BY <1>1, EffectStep, TypeCorrect, PTL DEF Spec

-----------------------------------------------------------------------------
(* The steps that move a row, spend an attempt or write an audit event.    *)
LEMMA RowStep ==
  [Next]_vars =>
    \/ UNCHANGED <<status, attempts, auditVars>>
    \/ \E c \in Commands : Submit(c) \/ OperatorRetry(c)
    \/ \E d \in Dispatchers, batch \in SUBSET Commands : Claim(d, batch)
    \/ \E d \in Dispatchers : MarkPublished(d) \/ MarkFailed(d)
    \/ \E batch \in SUBSET Commands : RecoverStaleClaims(batch)
<1> USE DEF auditVars, workerVars, dispatcherVars, rowVars
<1>1. CASE DispatcherNext
  BY <1>1 DEF DispatcherNext, Publish, RefuseUnsupported, PublishAccepted,
     PublishRejected, PublishUnconfirmed, Take, Mark, MarkTooLate, PutDown,
     DispatcherCrash
<1>2. CASE RowNext
  BY <1>2 DEF RowNext, BackoffElapses, OrphanedClaimAges, StalledClaimAges, ClaimAges
<1>3. CASE WorkerNext
  BY <1>3 DEF WorkerNext, Acknowledge, Deliver, Execute, ExecuteRetries,
     ExecuteGivesUp, WorkerLost, VisibilityTimeout
<1>4. CASE UNCHANGED vars
  BY <1>4 DEF vars
<1>5. QED
  BY <1>1, <1>2, <1>3, <1>4 DEF Next

LEMMA AllowanceStep == TypeOK /\ AttemptAllowance /\ [Next]_vars => AttemptAllowance'
<1> SUFFICES ASSUME TypeOK, AttemptAllowance, [Next]_vars PROVE AttemptAllowance'
  OBVIOUS
<1> USE OutboxAssumption DEF AttemptAllowance, AttemptsAccountedFor, TypeOK, Status
<1>1. CASE UNCHANGED <<status, attempts, auditVars>>
  BY <1>1 DEF auditVars
<1>2. ASSUME NEW c \in Commands, Submit(c) PROVE AttemptAllowance'
  BY <1>2 DEF Submit, auditVars
<1>3. ASSUME NEW c \in Commands, OperatorRetry(c) PROVE AttemptAllowance'
  BY <1>3 DEF OperatorRetry
<1>4. ASSUME NEW d \in Dispatchers, NEW batch \in SUBSET Commands, Claim(d, batch)
      PROVE  AttemptAllowance'
  BY <1>4 DEF Claim, Eligible, auditVars
<1>5. ASSUME NEW d \in Dispatchers, MarkPublished(d) PROVE AttemptAllowance'
  BY <1>5 DEF MarkPublished, PutDown, auditVars
<1>6. ASSUME NEW d \in Dispatchers, MarkFailed(d) PROVE AttemptAllowance'
  BY <1>6 DEF MarkFailed, OwnsClaim, AtLeast, PutDown, auditVars
<1>7. ASSUME NEW batch \in SUBSET Commands, RecoverStaleClaims(batch)
      PROVE  AttemptAllowance'
  BY <1>7 DEF RecoverStaleClaims
<1>8. QED
  BY <1>1, <1>2, <1>3, <1>4, <1>5, <1>6, <1>7, RowStep

(* No command spends more publication attempts than the automatic budget   *)
(* and one per audited recovery or operator retry.                         *)
THEOREM AttemptsAreAccountedFor == Spec => []AttemptsAccountedFor
<1>1. Init => AttemptAllowance
  BY OutboxAssumption DEF Init, AttemptAllowance, AttemptsAccountedFor
<1>2. AttemptAllowance => AttemptsAccountedFor
  BY DEF AttemptAllowance
<1>3. QED
  BY <1>1, <1>2, AllowanceStep, TypeCorrect, PTL DEF Spec

-----------------------------------------------------------------------------
(* Nothing the outbox does gets ahead of its cause.                        *)
LEMMA CausalityStep == TypeOK /\ Causality /\ [Next]_vars => Causality'
<1> SUFFICES ASSUME TypeOK, Causality, [Next]_vars PROVE Causality'
  OBVIOUS
<1> USE OutboxAssumption DEF TypeOK, Causality, Fault
<1>1. ASSUME NEW c \in Commands, Submit(c) PROVE Causality'
  BY <1>1 DEF Submit, dispatcherVars, workerVars, auditVars
<1>2. ASSUME NEW d \in Dispatchers, NEW batch \in SUBSET Commands, Claim(d, batch)
      PROVE  Causality'
  BY <1>2 DEF Claim, Eligible, Idle, workerVars, auditVars
<1>3. ASSUME NEW d \in Dispatchers, NEW c \in Commands, Publish(d, c)
      PROVE  Causality'
  <2>1. CASE RefuseUnsupported(d, c)
    BY <2>1 DEF RefuseUnsupported, Take, rowVars, workerVars, auditVars
  <2>2. CASE PublishRejected(d, c)
    BY <2>2 DEF PublishRejected, Take, rowVars, workerVars, auditVars
  <2>3. ASSUME Take(d, c, "accepted") \/ Take(d, c, "rejected"), Enqueue(c)
        PROVE  Causality'
    <3>1. <<c, 0>> \in Message /\ <<c, 0>>[1] = c
      BY DEF Message
    <3>2. \A m \in Message : queue'[m] > 0 => m[1] \in sent'
      BY <2>3, <3>1 DEF Enqueue
    <3>3. status' = status /\ effects' = effects /\ held' = held /\ sent \subseteq sent'
      BY <2>3 DEF Take, Enqueue, rowVars, workerVars
    <3>4. \A e \in Dispatchers :
            /\ \A k \in todo'[e] : status'[k] # "absent"
            /\ current'[e] # None => status'[current'[e]] # "absent"
            /\ outcome'[e] # "none" => current'[e] # None
            /\ outcome'[e] = "accepted" => current'[e] \in sent'
      BY <2>3, <3>3 DEF Take, Enqueue
    <3>5. \A k \in sent' : status'[k] # "absent"
      BY <2>3, <3>3 DEF Take, Enqueue
    <3>6. QED
      BY <3>2, <3>3, <3>4, <3>5
  <2>4. QED
    BY <1>3, <2>1, <2>2, <2>3 DEF Publish, PublishAccepted, PublishUnconfirmed
<1>4. ASSUME NEW d \in Dispatchers, Mark(d) PROVE Causality'
  <2>1. CASE MarkPublished(d)
    BY <2>1 DEF MarkPublished, PutDown, workerVars, auditVars
  <2>2. CASE MarkFailed(d)
    BY <2>2 DEF MarkFailed, PutDown, workerVars, auditVars
  <2>3. CASE MarkTooLate(d)
    BY <2>3 DEF MarkTooLate, PutDown, rowVars, workerVars, auditVars
  <2>4. QED
    BY <1>4, <2>1, <2>2, <2>3 DEF Mark
<1>5. ASSUME NEW d \in Dispatchers, DispatcherCrash(d) PROVE Causality'
  BY <1>5 DEF DispatcherCrash, rowVars, workerVars, auditVars
<1>6. ASSUME NEW c \in Commands,
             BackoffElapses(c) \/ OrphanedClaimAges(c) \/ StalledClaimAges(c)
      PROVE  Causality'
  BY <1>6 DEF BackoffElapses, OrphanedClaimAges, StalledClaimAges, ClaimAges,
              dispatcherVars, workerVars, auditVars
<1>7. ASSUME NEW batch \in SUBSET Commands, RecoverStaleClaims(batch) PROVE Causality'
  BY <1>7 DEF RecoverStaleClaims, dispatcherVars, workerVars
<1>8. ASSUME NEW c \in Commands, OperatorRetry(c) PROVE Causality'
  BY <1>8 DEF OperatorRetry, dispatcherVars, workerVars
<1>9. ASSUME NEW w \in Workers, NEW m \in Message, Deliver(w, m) PROVE Causality'
  BY <1>9 DEF Deliver, rowVars, dispatcherVars, auditVars
<1>10. ASSUME NEW w \in Workers, NEW m \in Message, Execute(w, m) PROVE Causality'
  BY <1>10 DEF Execute, Message, rowVars, dispatcherVars, auditVars
<1>11. ASSUME NEW w \in Workers, Acknowledge(w) PROVE Causality'
  BY <1>11 DEF Acknowledge, Drop, rowVars, dispatcherVars, auditVars
<1>12. ASSUME NEW w \in Workers, NEW m \in Message, ExecuteRetries(w, m)
       PROVE  Causality'
  <2>1. <<m[1], m[2] + 1>> \in Message /\ <<m[1], m[2] + 1>>[1] = m[1]
    BY <1>12 DEF ExecuteRetries, Message
  <2>2. QED
    BY <1>12, <2>1 DEF ExecuteRetries, Drop, rowVars, dispatcherVars, auditVars
<1>13. ASSUME NEW w \in Workers, NEW m \in Message,
              ExecuteGivesUp(w, m) \/ WorkerLost(w, m) \/ VisibilityTimeout(w, m)
       PROVE  Causality'
  BY <1>13 DEF ExecuteGivesUp, WorkerLost, VisibilityTimeout, Drop, rowVars,
               dispatcherVars, workerVars, auditVars
<1>14. CASE UNCHANGED vars
  BY <1>14 DEF vars, rowVars, dispatcherVars, workerVars, auditVars
<1>15. QED
  BY <1>1, <1>2, <1>3, <1>4, <1>5, <1>6, <1>7, <1>8, <1>9, <1>10, <1>11, <1>12,
     <1>13, <1>14 DEF Next, DispatcherNext, RowNext, WorkerNext

(* A command is published, delivered or applied only after the transaction *)
(* that recorded it, and marked PUBLISHED only after it was really sent.   *)
THEOREM CausalityHolds == Spec => []Causality
<1>1. Init => Causality
  BY OutboxAssumption DEF Init, Causality
<1>2. QED
  BY <1>1, CausalityStep, TypeCorrect, PTL DEF Spec

-----------------------------------------------------------------------------
(* The row lifecycle: who may move a row, and out of which state.          *)
LEMMA OwnerStep ==
  TypeOK /\ Causality /\ [Next]_vars =>
    \A c \in Commands : LeavesPublishing(c) =>
       \/ /\ current[claimedBy[c]] = c
          /\ current'[claimedBy[c]] = None
       \/ /\ c \in stale
          /\ recovered'[c] = recovered[c] + 1
<1> SUFFICES ASSUME TypeOK, Causality, [Next]_vars,
                    NEW c \in Commands, LeavesPublishing(c)
             PROVE  \/ /\ current[claimedBy[c]] = c
                       /\ current'[claimedBy[c]] = None
                    \/ /\ c \in stale
                       /\ recovered'[c] = recovered[c] + 1
  OBVIOUS
<1> USE DEF LeavesPublishing, TypeOK
<1>1. CASE UNCHANGED <<status, attempts, auditVars>>
  BY <1>1
<1>2. ASSUME NEW k \in Commands, Submit(k) \/ OperatorRetry(k) PROVE FALSE
  BY <1>2 DEF Submit, OperatorRetry
<1>3. ASSUME NEW d \in Dispatchers, NEW batch \in SUBSET Commands, Claim(d, batch)
      PROVE  FALSE
  BY <1>3 DEF Claim
<1>4. ASSUME NEW d \in Dispatchers, MarkPublished(d) \/ MarkFailed(d)
      PROVE  current[claimedBy[c]] = c /\ current'[claimedBy[c]] = None
  BY <1>4 DEF MarkPublished, MarkFailed, OwnsClaim, PutDown
<1>5. ASSUME NEW batch \in SUBSET Commands, RecoverStaleClaims(batch)
      PROVE  c \in stale /\ recovered'[c] = recovered[c] + 1
  BY <1>5 DEF RecoverStaleClaims
<1>6. QED
  BY <1>1, <1>2, <1>3, <1>4, <1>5, RowStep

(* A claim is only ever ended by the dispatcher that owns it, or by the    *)
(* audited recovery of a stale claim.                                      *)
THEOREM ClaimsEndByOwnerOrRecovery == Spec => OwnerOrRecoverySettles
<1>1. TypeOK /\ Causality /\ [Next]_vars =>
        [\A c \in Commands : LeavesPublishing(c) =>
           \/ /\ current[claimedBy[c]] = c
              /\ current'[claimedBy[c]] = None
           \/ /\ c \in stale
              /\ recovered'[c] = recovered[c] + 1]_vars
  BY OwnerStep
<1>2. QED
  BY <1>1, TypeCorrect, CausalityHolds, PTL DEF Spec, OwnerOrRecoverySettles

LEMMA SettledStep ==
  TypeOK /\ [Next]_vars =>
    \A c \in Commands :
      /\ status[c] = "published" => status'[c] = "published"
      /\ status[c] = "failed" /\ attempts[c] >= MaxAttempts
           /\ status'[c] # "failed" => retried'[c] = retried[c] + 1
<1> SUFFICES ASSUME TypeOK, [Next]_vars, NEW c \in Commands
             PROVE  /\ status[c] = "published" => status'[c] = "published"
                    /\ status[c] = "failed" /\ attempts[c] >= MaxAttempts
                         /\ status'[c] # "failed" => retried'[c] = retried[c] + 1
  OBVIOUS
<1> USE OutboxAssumption DEF TypeOK
<1>1. CASE UNCHANGED <<status, attempts, auditVars>>
  BY <1>1
<1>2. ASSUME NEW k \in Commands, Submit(k) \/ OperatorRetry(k)
      PROVE  status'[c] = status[c] \/ (status[c] = "absent")
               \/ (status[c] = "failed" /\ retried'[c] = retried[c] + 1)
  BY <1>2 DEF Submit, OperatorRetry
<1>3. ASSUME NEW d \in Dispatchers, NEW batch \in SUBSET Commands, Claim(d, batch)
      PROVE  status'[c] = status[c] \/ Eligible(c)
  BY <1>3 DEF Claim
<1>4. ASSUME NEW d \in Dispatchers, MarkPublished(d) \/ MarkFailed(d)
      PROVE  status'[c] = status[c] \/ status[c] = "publishing"
  BY <1>4 DEF MarkPublished, MarkFailed, OwnsClaim
<1>5. ASSUME NEW batch \in SUBSET Commands, RecoverStaleClaims(batch)
      PROVE  status'[c] = status[c] \/ status[c] = "publishing"
  BY <1>5 DEF RecoverStaleClaims
<1>6. QED
  BY <1>1, <1>2, <1>3, <1>4, <1>5, RowStep DEF Eligible

(* PUBLISHED is final, and a row that used up its automatic attempts is    *)
(* only moved by an audited operator retry.                                *)
THEOREM SettledRowsStay == Spec => SettledRowsMoveOnlyByOperator
<1>1. TypeOK /\ [Next]_vars =>
        [\A c \in Commands :
          /\ status[c] = "published" => status'[c] = "published"
          /\ status[c] = "failed" /\ attempts[c] >= MaxAttempts
               /\ status'[c] # "failed" => retried'[c] = retried[c] + 1]_vars
  BY SettledStep
<1>2. QED
  BY <1>1, TypeCorrect, PTL DEF Spec, SettledRowsMoveOnlyByOperator

-----------------------------------------------------------------------------
(* Nothing that was sent is forgotten.                                     *)
DeliveryVars == <<queue, workerVars, effects, sent, lost>>

(* The steps that touch the broker, a worker or an effect.                 *)
LEMMA DeliveryStep ==
  [Next]_vars =>
    \/ UNCHANGED DeliveryVars
    \/ \E c \in Commands : Enqueue(c) /\ UNCHANGED <<workerVars, effects, lost>>
    \/ \E w \in Workers, m \in Message :
         \/ Deliver(w, m) \/ Execute(w, m) \/ ExecuteRetries(w, m)
         \/ ExecuteGivesUp(w, m) \/ WorkerLost(w, m) \/ VisibilityTimeout(w, m)
    \/ \E w \in Workers : Acknowledge(w)
<1> USE DEF DeliveryVars
<1>1. CASE DispatcherNext
  BY <1>1 DEF DispatcherNext, Claim, Publish, RefuseUnsupported, PublishAccepted,
     PublishRejected, PublishUnconfirmed, Take, Mark, MarkPublished, MarkFailed,
     MarkTooLate, PutDown, DispatcherCrash
<1>2. CASE RowNext
  BY <1>2 DEF RowNext, Submit, BackoffElapses, OrphanedClaimAges,
     StalledClaimAges, ClaimAges, OperatorRetry, RecoverStaleClaims
<1>3. CASE WorkerNext
  BY <1>3 DEF WorkerNext
<1>4. CASE UNCHANGED vars
  BY <1>4 DEF vars
<1>5. QED
  BY <1>1, <1>2, <1>3, <1>4 DEF Next

Covered(c) == effects[c] > 0 \/ Underway(c) \/ c \in lost

(* Underway, told without the pair that a message is.                      *)
LEMMA UnderwayMessage ==
  ASSUME TypeOK, NEW c \in Commands
  PROVE  Underway(c) <=>
           \E m \in Message :
             /\ m[1] = c
             /\ queue[m] > 0 \/ \E w \in Workers : m \in held[w] /\ w \notin finished
<1>1. \A r \in 0..MaxTaskRetries : <<c, r>> \in Message /\ <<c, r>>[1] = c
  BY DEF Message
<1>2. \A m \in Message : m = <<m[1], m[2]>> /\ m[2] \in 0..MaxTaskRetries
  BY DEF Message
<1>3. \A w \in Workers : \A m \in held[w] : m \in Message
  BY DEF TypeOK
<1>4. QED
  BY <1>1, <1>2, <1>3 DEF Underway

LEMMA CoverStep == TypeOK /\ SentIsCovered /\ [Next]_vars => SentIsCovered'
<1> SUFFICES ASSUME TypeOK, TypeOK', SentIsCovered, [Next]_vars,
                    NEW c \in Commands, c \in sent'
             PROVE  Covered(c)'
  BY TypeStep DEF SentIsCovered, Covered, TypeOK
<1> DEFINE Copy(m) ==
      queue[m] > 0 \/ \E w \in Workers : m \in held[w] /\ w \notin finished
<1>1. Underway(c) <=> \E m \in Message : m[1] = c /\ Copy(m)
  BY UnderwayMessage
<1>2. Underway(c)' <=> \E m \in Message : m[1] = c /\ Copy(m)'
  <2>1. \A r \in 0..MaxTaskRetries : <<c, r>> \in Message /\ <<c, r>>[1] = c
    BY DEF Message
  <2>2. \A m \in Message : m = <<m[1], m[2]>> /\ m[2] \in 0..MaxTaskRetries
    BY DEF Message
  <2>3. \A w \in Workers : \A m \in held'[w] : m \in Message
    BY DEF TypeOK
  <2>4. QED
    BY <2>1, <2>2, <2>3 DEF Underway
<1>3. c \in sent => effects[c] > 0 \/ Underway(c) \/ c \in lost
  BY DEF SentIsCovered
<1> USE DEF TypeOK, Covered
<1>4. CASE UNCHANGED DeliveryVars
  BY <1>4, <1>1, <1>2, <1>3 DEF DeliveryVars, workerVars
<1>5. ASSUME NEW k \in Commands, Enqueue(k), UNCHANGED <<workerVars, effects, lost>>
      PROVE  Covered(c)'
  <2>1. <<k, 0>> \in Message /\ <<k, 0>>[1] = k
    BY OutboxAssumption DEF Message
  <2>2. \A m \in Message : Copy(m) => Copy(m)'
    BY <1>5, <2>1 DEF Enqueue, workerVars
  <2>3. Copy(<<k, 0>>)'
    BY <1>5, <2>1 DEF Enqueue
  <2>4. QED
    BY <1>5, <1>1, <1>2, <1>3, <2>1, <2>2, <2>3 DEF Enqueue
<1>6. ASSUME NEW w \in Workers, NEW m \in Message, Deliver(w, m) PROVE Covered(c)'
  <2>1. \A n \in Message : Copy(n) => Copy(n)'
    BY <1>6 DEF Deliver
  <2>2. QED
    BY <1>6, <1>1, <1>2, <1>3, <2>1 DEF Deliver
<1>7. ASSUME NEW w \in Workers, NEW m \in Message, Execute(w, m) PROVE Covered(c)'
  <2>1. m[1] \in Commands /\ effects'[m[1]] > 0 /\ (effects[c] > 0 => effects'[c] > 0)
    BY <1>7 DEF Execute, Message
  <2>2. \A n \in Message : Copy(n) /\ n[1] # m[1] => Copy(n)'
    BY <1>7 DEF Execute
  <2>3. QED
    BY <1>7, <1>1, <1>2, <1>3, <2>1, <2>2 DEF Execute
<1>8. ASSUME NEW w \in Workers, NEW m \in Message, ExecuteRetries(w, m)
      PROVE  Covered(c)'
  <2>1. <<m[1], m[2] + 1>> \in Message /\ <<m[1], m[2] + 1>>[1] = m[1]
    BY <1>8 DEF ExecuteRetries, Message
  <2>2. Copy(<<m[1], m[2] + 1>>)'
    BY <1>8, <2>1 DEF ExecuteRetries
  <2>3. \A n \in Message : Copy(n) /\ n # m => Copy(n)'
    BY <1>8, <2>1 DEF ExecuteRetries, Drop
  <2>4. QED
    BY <1>8, <1>1, <1>2, <1>3, <2>1, <2>2, <2>3 DEF ExecuteRetries
<1>9. ASSUME NEW w \in Workers, NEW m \in Message, ExecuteGivesUp(w, m)
      PROVE  Covered(c)'
  <2>1. \A n \in Message : Copy(n) /\ n # m => Copy(n)'
    BY <1>9 DEF ExecuteGivesUp, Drop
  <2>2. QED
    BY <1>9, <1>1, <1>2, <1>3, <2>1 DEF ExecuteGivesUp
<1>10. ASSUME NEW w \in Workers, NEW m \in Message, WorkerLost(w, m)
       PROVE  Covered(c)'
  <2>1. \A n \in Message : Copy(n) => Copy(n)'
    BY <1>10 DEF WorkerLost, Drop
  <2>2. QED
    BY <1>10, <1>1, <1>2, <1>3, <2>1 DEF WorkerLost
<1>11. ASSUME NEW w \in Workers, NEW m \in Message, VisibilityTimeout(w, m)
       PROVE  Covered(c)'
  <2>1. \A n \in Message : Copy(n) => Copy(n)'
    BY <1>11 DEF VisibilityTimeout, workerVars
  <2>2. QED
    BY <1>11, <1>1, <1>2, <1>3, <2>1 DEF VisibilityTimeout
<1>12. ASSUME NEW w \in Workers, Acknowledge(w) PROVE Covered(c)'
  <2>1. \A n \in Message : Copy(n) => Copy(n)'
    BY <1>12 DEF Acknowledge, Drop
  <2>2. QED
    BY <1>12, <1>1, <1>2, <1>3, <2>1 DEF Acknowledge
<1>13. QED
  BY <1>4, <1>5, <1>6, <1>7, <1>8, <1>9, <1>10, <1>11, <1>12, DeliveryStep

(* A row marked PUBLISHED has its effect, a copy still on its way, or a    *)
(* consuming task that gave up on it: no crash, stall or duplicate of the  *)
(* outbox loses it.  The invariant carries this from the moment the broker *)
(* takes the command, because the mark comes later.                        *)
THEOREM PublishedStaysCovered == Spec => []PublishedIsCovered
<1>1. Init => SentIsCovered
  BY DEF Init, SentIsCovered
<1>2. SentIsCovered /\ Causality => PublishedIsCovered
  BY DEF SentIsCovered, Causality, PublishedIsCovered
<1>3. QED
  BY <1>1, <1>2, CoverStep, TypeCorrect, CausalityHolds, PTL DEF Spec

(* The whole inductive invariant the safety theorems are projections of.   *)
THEOREM InductiveInvariant == Spec => []IInv
<1>1. Init => SentIsCovered /\ AttemptAllowance
  BY OutboxAssumption DEF Init, SentIsCovered, AttemptAllowance, AttemptsAccountedFor
<1>2. QED
  BY <1>1, CoverStep, AllowanceStep, TypeCorrect, CausalityHolds, EffectIsIdempotent,
     PTL DEF Spec, IInv

-----------------------------------------------------------------------------
(* The outbox implements the ledger.  Only a publication sends anything.   *)
LEMMA SentStep ==
  [Next]_vars => \/ UNCHANGED sent
                 \/ \E d \in Dispatchers, c \in Commands : Publish(d, c)
<1> USE DEF auditVars, workerVars, dispatcherVars, rowVars
<1>1. CASE DispatcherNext
  BY <1>1 DEF DispatcherNext, Claim, Mark, MarkPublished, MarkFailed, MarkTooLate,
     PutDown, DispatcherCrash
<1>2. CASE RowNext
  BY <1>2 DEF RowNext, Submit, BackoffElapses, OrphanedClaimAges,
     StalledClaimAges, ClaimAges, OperatorRetry, RecoverStaleClaims
<1>3. CASE WorkerNext
  BY <1>3 DEF WorkerNext, Acknowledge, Deliver, Execute, ExecuteRetries,
     ExecuteGivesUp, WorkerLost, VisibilityTimeout
<1>4. CASE UNCHANGED vars
  BY <1>4 DEF vars
<1>5. QED
  BY <1>1, <1>2, <1>3, <1>4 DEF Next

LEMMA LedgerStep ==
  TypeOK /\ Causality /\ [Next]_vars => [Ledger!LedgerNext]_(Ledger!ledgerVars)
<1> DEFINE Recorded == {c \in Commands : status[c] # "absent"}
           Confirmed == {c \in Commands : status[c] = "published"}
           Parked == {c \in Commands : status[c] = "failed" /\ attempts[c] >= MaxAttempts}
<1> SUFFICES ASSUME TypeOK, Causality, [Next]_vars
             PROVE  Ledger!LedgerNext \/ UNCHANGED Ledger!ledgerVars
  OBVIOUS
<1> USE OutboxAssumption DEF Ledger!ledgerVars
<1>1. ASSUME NEW c \in Commands, Submit(c) PROVE Ledger!LedgerNext
  <2>1. Recorded' = Recorded \cup {c} /\ c \notin Recorded
    BY <1>1 DEF Submit, TypeOK
  <2>2. Confirmed' = Confirmed /\ Parked' = Parked
    BY <1>1 DEF Submit, TypeOK
  <2>3. QED
    BY <1>1, <2>1, <2>2 DEF Submit, Ledger!LedgerNext, Ledger!Record
<1>2. ASSUME NEW d \in Dispatchers, NEW batch \in SUBSET Commands, Claim(d, batch)
      PROVE  UNCHANGED Ledger!ledgerVars
  <2>1. Recorded' = Recorded /\ Confirmed' = Confirmed
    BY <1>2 DEF Claim, Eligible, TypeOK
  <2>2. Parked' = Parked
    BY <1>2 DEF Claim, Eligible, TypeOK
  <2>3. QED
    BY <1>2, <2>1, <2>2 DEF Claim
<1>3. ASSUME NEW d \in Dispatchers, NEW c \in Commands, Publish(d, c)
      PROVE  Ledger!LedgerNext \/ UNCHANGED Ledger!ledgerVars
  <2>1. status' = status /\ attempts' = attempts /\ effects' = effects
    BY <1>3 DEF Publish, RefuseUnsupported, PublishAccepted, PublishRejected,
       PublishUnconfirmed, Take, rowVars
  <2>2. c \in Recorded
    BY <1>3 DEF Publish, RefuseUnsupported, PublishAccepted, PublishRejected,
       PublishUnconfirmed, Take, Causality
  <2>3. sent' = sent \/ sent' = sent \cup {c}
    BY <1>3 DEF Publish, RefuseUnsupported, PublishAccepted, PublishRejected,
       PublishUnconfirmed, Enqueue
  <2>4. CASE c \in sent
    BY <2>1, <2>3, <2>4
  <2>5. CASE c \notin sent
    BY <2>1, <2>2, <2>3, <2>5 DEF Ledger!LedgerNext, Ledger!Send
  <2>6. QED
    BY <2>4, <2>5
<1>4. ASSUME NEW d \in Dispatchers, MarkPublished(d) PROVE Ledger!LedgerNext
  <2>1. PICK c \in Commands : c = current[d]
    BY <1>4 DEF MarkPublished, Causality, TypeOK
  <2>2. Recorded' = Recorded /\ Confirmed' = Confirmed \cup {c} /\ Parked' = Parked
    BY <1>4, <2>1 DEF MarkPublished, OwnsClaim, TypeOK
  <2>3. c \in sent /\ c \notin Confirmed /\ c \notin Parked
    BY <1>4, <2>1 DEF MarkPublished, OwnsClaim, Causality
  <2>4. QED
    BY <1>4, <2>2, <2>3 DEF MarkPublished, PutDown, Ledger!LedgerNext, Ledger!Confirm
<1>5. ASSUME NEW d \in Dispatchers, MarkFailed(d)
      PROVE  Ledger!LedgerNext \/ UNCHANGED Ledger!ledgerVars
  <2>1. PICK c \in Commands : c = current[d]
    BY <1>5 DEF MarkFailed, Causality, TypeOK
  <2>2. Recorded' = Recorded /\ Confirmed' = Confirmed
    BY <1>5, <2>1 DEF MarkFailed, OwnsClaim, TypeOK
  <2>3. Parked' = Parked \/ Parked' = Parked \cup {c}
    BY <1>5, <2>1 DEF MarkFailed, OwnsClaim, TypeOK
  <2>4. c \in Recorded /\ c \notin Confirmed /\ c \notin Parked
    BY <1>5, <2>1 DEF MarkFailed, OwnsClaim
  <2>5. QED
    BY <1>5, <2>2, <2>3, <2>4 DEF MarkFailed, PutDown, Ledger!LedgerNext, Ledger!Park
<1>6. ASSUME NEW batch \in SUBSET Commands, RecoverStaleClaims(batch)
      PROVE  UNCHANGED Ledger!ledgerVars
  BY <1>6 DEF RecoverStaleClaims, TypeOK
<1>7. ASSUME NEW c \in Commands, OperatorRetry(c)
      PROVE  Ledger!LedgerNext \/ UNCHANGED Ledger!ledgerVars
  <2>1. Recorded' = Recorded /\ Confirmed' = Confirmed /\ Parked' = Parked \ {c}
    BY <1>7 DEF OperatorRetry, TypeOK
  <2>2. CASE c \in Parked
    BY <1>7, <2>1, <2>2 DEF OperatorRetry, Ledger!LedgerNext, Ledger!Release
  <2>3. CASE c \notin Parked
    BY <1>7, <2>1, <2>3 DEF OperatorRetry
  <2>4. QED
    BY <2>2, <2>3
<1>8. ASSUME NEW w \in Workers, NEW m \in Message, Execute(w, m)
      PROVE  Ledger!LedgerNext \/ UNCHANGED Ledger!ledgerVars
  <2>1. m[1] \in Commands /\ m[1] \in sent
    BY <1>8 DEF Execute, Causality, Message
  <2>2. UNCHANGED <<status, attempts, sent>>
    BY <1>8 DEF Execute, rowVars
  <2>3. CASE effects[m[1]] = 0
    <3>1. effects' = [effects EXCEPT ![m[1]] = 1]
      BY <1>8, <2>1, <2>3 DEF Execute, TypeOK
    <3>2. QED
      BY <2>1, <2>2, <2>3, <3>1 DEF Ledger!LedgerNext, Ledger!Apply
  <2>4. CASE effects[m[1]] # 0
    <3>1. effects' = effects
      BY <1>8, <2>1, <2>4 DEF Execute, TypeOK
    <3>2. QED
      BY <2>2, <3>1
  <2>5. QED
    BY <2>3, <2>4
<1>9. CASE UNCHANGED <<status, attempts, sent, effects>>
  BY <1>9
<1>10. \/ UNCHANGED <<status, attempts, sent, effects>>
       \/ \E c \in Commands : Submit(c) \/ OperatorRetry(c)
       \/ \E d \in Dispatchers, batch \in SUBSET Commands : Claim(d, batch)
       \/ \E d \in Dispatchers, c \in Commands : Publish(d, c)
       \/ \E d \in Dispatchers : MarkPublished(d) \/ MarkFailed(d)
       \/ \E batch \in SUBSET Commands : RecoverStaleClaims(batch)
       \/ \E w \in Workers, m \in Message : Execute(w, m)
  <2>1. CASE \E d \in Dispatchers, c \in Commands : Publish(d, c)
    BY <2>1
  <2>2. CASE \E w \in Workers, m \in Message : Execute(w, m)
    BY <2>2
  <2>3. CASE UNCHANGED sent /\ UNCHANGED effects
    BY <2>3, RowStep
  <2>4. QED
    BY <2>1, <2>2, <2>3, EffectsStep, SentStep
<1>11. QED
  BY <1>1, <1>2, <1>3, <1>4, <1>5, <1>6, <1>7, <1>8, <1>9, <1>10

(* Every behaviour of the outbox, crashes, stalls and duplicates included, *)
(* is a behaviour of the ledger it promises to its users.                  *)
THEOREM OutboxImplementsLedger == Spec => ImplementsLedger
<1>1. Init => Ledger!LedgerInit
  BY DEF Init, Ledger!LedgerInit
<1>2. QED
  BY <1>1, LedgerStep, TypeCorrect, CausalityHolds, PTL
     DEF Spec, ImplementsLedger, Ledger!LedgerSpec
=============================================================================
