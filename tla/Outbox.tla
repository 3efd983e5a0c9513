------------------------------- MODULE Outbox -------------------------------
(***************************************************************************)
(* The transactional outbox of apps/operations: the life of a TaskOutbox   *)
(* row from the transaction that writes it, through the dispatchers that   *)
(* claim and publish it, the recovery of claims whose dispatcher stopped,  *)
(* and the operator's retry, to the Celery worker that consumes the        *)
(* message and writes the command's effect.                                *)
(*                                                                         *)
(* A database transaction is one action (the code holds the row lock for   *)
(* all of it).  Claiming, publishing and marking are three separate steps, *)
(* as in dispatch_outbox_batch, and anything may happen between them: the  *)
(* dispatcher may die or stall, its claim may be recovered and given to    *)
(* another one, the message may already be consumed.                       *)
(*                                                                         *)
(* Time is abstracted to two sets of rows: "due" (available_at <= now) and  *)
(* "stale" (claimed_at older than STALE_CLAIM_AFTER).                      *)
(***************************************************************************)
EXTENDS Naturals, FiniteSets

CONSTANTS
  Commands,           \* the outbox commands that may be submitted
  Unsupported,        \* those whose command_type has no route
  Dispatchers,        \* invocations of dispatch_outbox_batch that may overlap
  Workers,            \* Celery worker processes
  None,               \* the empty claimed_by, and "no command in hand"
  MaxAttempts,        \* MAX_AUTOMATIC_ATTEMPTS
  BatchLimit,         \* MAX_BATCH_SIZE
  MaxTaskRetries,     \* max_retries of the consuming task
  MaxFaults,          \* bound of the model: failures of the environment
  MaxOperatorRetries  \* bound of the model: operator retries of one command

ASSUME OutboxAssumption ==
  /\ Unsupported \subseteq Commands
  /\ None \notin Commands \cup Dispatchers
  /\ MaxAttempts \in Nat \ {0}
  /\ BatchLimit \in Nat \ {0}
  /\ MaxTaskRetries \in Nat
  /\ MaxFaults \in Nat
  /\ MaxOperatorRetries \in Nat

VARIABLES
  status,      \* OutboxStatus of the command's row, or "absent"
  attempts,    \* TaskOutbox.attempts
  claimedBy,   \* TaskOutbox.claimed_by
  due,         \* the commands with available_at <= now
  stale,       \* those with claimed_at < now - STALE_CLAIM_AFTER
  todo,        \* claimed commands a dispatcher has not handled yet
  current,     \* the command a dispatcher has published but not marked
  outcome,     \* how that publication ended
  queue,       \* copies of each message waiting in the broker
  held,        \* the message a worker has not acknowledged ({} when idle)
  finished,    \* workers whose task body has returned
  effects,     \* number of effects written for the command
  recovered,   \* audit events operations.outbox_claim_recovered
  retried,     \* audit events operations.outbox_retry_requested
  sent,        \* commands the broker accepted at least once
  lost,        \* commands a copy of which ended without its effect
  faults       \* failures of the environment so far

rowVars == <<status, attempts, claimedBy, due, stale>>
dispatcherVars == <<todo, current, outcome>>
workerVars == <<held, finished>>
auditVars == <<recovered, retried>>
vars == <<rowVars, dispatcherVars, queue, workerVars, effects, auditVars,
          sent, lost, faults>>

(* A message is the command's envelope and the task's retry count.         *)
Message == Commands \X (0..MaxTaskRetries)

Status == {"absent", "pending", "publishing", "published", "failed"}
Outcome == {"none", "accepted", "rejected", "unsupported"}

TypeOK ==
  /\ status \in [Commands -> Status]
  /\ attempts \in [Commands -> Nat]
  /\ claimedBy \in [Commands -> Dispatchers \cup {None}]
  /\ due \in SUBSET Commands
  /\ stale \in SUBSET Commands
  /\ todo \in [Dispatchers -> SUBSET Commands]
  /\ current \in [Dispatchers -> Commands \cup {None}]
  /\ outcome \in [Dispatchers -> Outcome]
  /\ queue \in [Message -> Nat]
  /\ held \in [Workers -> SUBSET Message]
  /\ finished \in SUBSET Workers
  /\ effects \in [Commands -> Nat]
  /\ recovered \in [Commands -> Nat]
  /\ retried \in [Commands -> Nat]
  /\ sent \in SUBSET Commands
  /\ lost \in SUBSET Commands
  /\ faults \in Nat

Init ==
  /\ status = [c \in Commands |-> "absent"]
  /\ attempts = [c \in Commands |-> 0]
  /\ claimedBy = [c \in Commands |-> None]
  /\ due = {}
  /\ stale = {}
  /\ todo = [d \in Dispatchers |-> {}]
  /\ current = [d \in Dispatchers |-> None]
  /\ outcome = [d \in Dispatchers |-> "none"]
  /\ queue = [m \in Message |-> 0]
  /\ held = [w \in Workers |-> {}]
  /\ finished = {}
  /\ effects = [c \in Commands |-> 0]
  /\ recovered = [c \in Commands |-> 0]
  /\ retried = [c \in Commands |-> 0]
  /\ sent = {}
  /\ lost = {}
  /\ faults = 0

Fault ==
  /\ faults < MaxFaults
  /\ faults' = faults + 1

-----------------------------------------------------------------------------
(* Writing the command.                                                    *)

(* The run and its outbox row commit together; a second submission with    *)
(* the same idempotency key finds the run and changes nothing.             *)
Submit(c) ==
  /\ status[c] = "absent"
  /\ status' = [status EXCEPT ![c] = "pending"]
  /\ due' = due \cup {c}
  /\ UNCHANGED <<attempts, claimedBy, stale, dispatcherVars, queue, workerVars,
                 effects, auditVars, sent, lost, faults>>

-----------------------------------------------------------------------------
(* Dispatching.                                                            *)

(* Mutants of Eligible: the attempts limit forgotten, and failed rows       *)
(* never claimed again.                                                    *)
EligibleWithoutLimit(c) == status[c] \in {"pending", "failed"}
EligiblePendingOnly(c) == status[c] = "pending"

Eligible(c) ==
  \/ status[c] = "pending"
  \/ /\ status[c] = "failed"
     /\ attempts[c] < MaxAttempts

Idle(d) == todo[d] = {} /\ current[d] = None

(* One transaction claims a batch.  Rows that another transaction has      *)
(* locked are skipped, so the batch can be any bounded part of the         *)
(* eligible, due rows.                                                     *)
Claim(d, batch) ==
  /\ Idle(d)
  /\ batch # {}
  /\ Cardinality(batch) <= BatchLimit
  /\ \A c \in batch : Eligible(c) /\ c \in due
  /\ status' = [c \in Commands |-> IF c \in batch THEN "publishing" ELSE status[c]]
  /\ claimedBy' = [c \in Commands |-> IF c \in batch THEN d ELSE claimedBy[c]]
  /\ stale' = stale \ batch
  /\ attempts' =
       [c \in Commands |-> IF c \in batch THEN attempts[c] + 1 ELSE attempts[c]]
  /\ todo' = [todo EXCEPT ![d] = batch]
  /\ UNCHANGED <<due, current, outcome, queue, workerVars, effects, auditVars,
                 sent, lost, faults>>

(* The dispatcher takes the next claimed command in hand; it does not look *)
(* again at whether it still owns the claim.                               *)
Take(d, c, result) ==
  /\ current[d] = None
  /\ c \in todo[d]
  /\ todo' = [todo EXCEPT ![d] = @ \ {c}]
  /\ current' = [current EXCEPT ![d] = c]
  /\ outcome' = [outcome EXCEPT ![d] = result]
  /\ UNCHANGED <<rowVars, workerVars, effects, auditVars, lost>>

Enqueue(c) ==
  /\ queue' = [queue EXCEPT ![<<c, 0>>] = @ + 1]
  /\ sent' = sent \cup {c}

(* build_envelope refuses a command type without a route.                  *)
RefuseUnsupported(d, c) ==
  /\ c \in Unsupported
  /\ Take(d, c, "unsupported")
  /\ UNCHANGED <<queue, sent, faults>>

PublishAccepted(d, c) ==
  /\ c \notin Unsupported
  /\ Take(d, c, "accepted")
  /\ Enqueue(c)
  /\ UNCHANGED faults

(* The broker is unreachable: nothing was sent.                            *)
PublishRejected(d, c) ==
  /\ c \notin Unsupported
  /\ Fault
  /\ Take(d, c, "rejected")
  /\ UNCHANGED <<queue, sent>>

(* The broker took the message, but the dispatcher saw an exception (a     *)
(* connection reset or the soft time limit).                               *)
PublishUnconfirmed(d, c) ==
  /\ c \notin Unsupported
  /\ Fault
  /\ Take(d, c, "rejected")
  /\ Enqueue(c)

(* Mutant of OwnsClaim: the owner of the claim is not compared.            *)
OwnsClaimByStatus(d, c) == status[c] = "publishing"

(* The guard both marking transactions start with.                         *)
OwnsClaim(d, c) == status[c] = "publishing" /\ claimedBy[c] = d

PutDown(d) ==
  /\ current' = [current EXCEPT ![d] = None]
  /\ outcome' = [outcome EXCEPT ![d] = "none"]
  /\ UNCHANGED <<todo, queue, workerVars, effects, auditVars, sent, lost, faults>>

MarkPublished(d) ==
  LET c == current[d] IN
  /\ outcome[d] = "accepted"
  /\ OwnsClaim(d, c)
  /\ status' = [status EXCEPT ![c] = "published"]
  /\ PutDown(d)
  /\ UNCHANGED <<attempts, claimedBy, due, stale>>

AtLeast(n, floor) == IF n < floor THEN floor ELSE n

(* A failed publication waits for its back-off.  One that cannot succeed   *)
(* uses up the automatic attempts.                                         *)
MarkFailed(d) ==
  LET c == current[d] IN
  /\ outcome[d] \in {"rejected", "unsupported"}
  /\ OwnsClaim(d, c)
  /\ status' = [status EXCEPT ![c] = "failed"]
  /\ due' = due \ {c}
  /\ attempts' = [attempts EXCEPT ![c] =
                    IF outcome[d] = "unsupported" THEN AtLeast(@, MaxAttempts) ELSE @]
  /\ PutDown(d)
  /\ UNCHANGED <<claimedBy, stale>>

(* The claim was recovered meanwhile: both marks return False.             *)
MarkTooLate(d) ==
  /\ current[d] # None
  /\ ~OwnsClaim(d, current[d])
  /\ PutDown(d)
  /\ UNCHANGED rowVars

(* The dispatcher's process dies, or an error escapes from a marking       *)
(* transaction: what it claimed stays PUBLISHING.                          *)
DispatcherCrash(d) ==
  /\ ~Idle(d)
  /\ Fault
  /\ todo' = [todo EXCEPT ![d] = {}]
  /\ current' = [current EXCEPT ![d] = None]
  /\ outcome' = [outcome EXCEPT ![d] = "none"]
  /\ UNCHANGED <<rowVars, queue, workerVars, effects, auditVars, sent, lost>>

-----------------------------------------------------------------------------
(* The passing of time, recovery, and the operator.                        *)

BackoffElapses(c) ==
  /\ status[c] = "failed"
  /\ c \notin due
  /\ due' = due \cup {c}
  /\ UNCHANGED <<status, attempts, claimedBy, stale, dispatcherVars, queue,
                 workerVars, effects, auditVars, sent, lost, faults>>

InHand(d, c) == c \in todo[d] \/ current[d] = c

ClaimAges(c) ==
  /\ status[c] = "publishing"
  /\ c \notin stale
  /\ stale' = stale \cup {c}
  /\ UNCHANGED <<status, attempts, claimedBy, due, dispatcherVars, queue,
                 workerVars, effects, auditVars, sent, lost>>

OrphanedClaimAges(c) ==
  /\ ClaimAges(c)
  /\ ~InHand(claimedBy[c], c)
  /\ UNCHANGED faults

(* A dispatcher that is merely slow (the management command has no time    *)
(* limit) can also outlive its claim.                                      *)
StalledClaimAges(c) ==
  /\ ClaimAges(c)
  /\ InHand(claimedBy[c], c)
  /\ Fault

(* Mutant of RecoverStaleClaims: rows without automatic attempts left are  *)
(* not recovered.                                                          *)
RecoverStaleClaimsWithAttempts(batch) ==
  /\ batch # {}
  /\ \A c \in batch : status[c] = "publishing" /\ c \in stale /\ attempts[c] < MaxAttempts
  /\ status' = [c \in Commands |-> IF c \in batch THEN "pending" ELSE status[c]]
  /\ due' = due \cup batch
  /\ claimedBy' = [c \in Commands |-> IF c \in batch THEN None ELSE claimedBy[c]]
  /\ stale' = stale \ batch
  /\ recovered' =
       [c \in Commands |-> IF c \in batch THEN recovered[c] + 1 ELSE recovered[c]]
  /\ UNCHANGED <<attempts, dispatcherVars, queue, workerVars, effects, retried,
                 sent, lost, faults>>

RecoverStaleClaims(batch) ==
  /\ batch # {}
  /\ Cardinality(batch) <= BatchLimit
  /\ \A c \in batch : status[c] = "publishing" /\ c \in stale
  /\ status' = [c \in Commands |-> IF c \in batch THEN "pending" ELSE status[c]]
  /\ due' = due \cup batch
  /\ claimedBy' = [c \in Commands |-> IF c \in batch THEN None ELSE claimedBy[c]]
  /\ stale' = stale \ batch
  /\ recovered' =
       [c \in Commands |-> IF c \in batch THEN recovered[c] + 1 ELSE recovered[c]]
  /\ UNCHANGED <<attempts, dispatcherVars, queue, workerVars, effects, retried,
                 sent, lost, faults>>

(* Mutant of OperatorRetry: a published row may be retried as well.        *)
OperatorRetryOfAnyRow(c) ==
  /\ status[c] \in {"published", "failed"}
  /\ retried[c] < MaxOperatorRetries
  /\ status' = [status EXCEPT ![c] = "pending"]
  /\ due' = due \cup {c}
  /\ claimedBy' = [claimedBy EXCEPT ![c] = None]
  /\ stale' = stale \ {c}
  /\ retried' = [retried EXCEPT ![c] = @ + 1]
  /\ UNCHANGED <<attempts, dispatcherVars, queue, workerVars, effects, recovered,
                 sent, lost, faults>>

OperatorRetry(c) ==
  /\ status[c] = "failed"
  /\ retried[c] < MaxOperatorRetries
  /\ status' = [status EXCEPT ![c] = "pending"]
  /\ due' = due \cup {c}
  /\ claimedBy' = [claimedBy EXCEPT ![c] = None]
  /\ stale' = stale \ {c}
  /\ retried' = [retried EXCEPT ![c] = @ + 1]
  /\ UNCHANGED <<attempts, dispatcherVars, queue, workerVars, effects, recovered,
                 sent, lost, faults>>

-----------------------------------------------------------------------------
(* The broker and the consuming task (acks_late, reject_on_worker_lost).   *)

(* Mutant of Deliver: a message is taken that the broker does not hold.    *)
DeliverWithoutCopy(w, m) ==
  /\ held[w] = {}
  /\ m[1] \in sent
  /\ queue' = [queue EXCEPT ![m] = @ - 1]
  /\ held' = [held EXCEPT ![w] = {m}]
  /\ finished' = finished \ {w}
  /\ UNCHANGED <<rowVars, dispatcherVars, effects, auditVars, sent, lost, faults>>

Deliver(w, m) ==
  /\ held[w] = {}
  /\ queue[m] > 0
  /\ queue' = [queue EXCEPT ![m] = @ - 1]
  /\ held' = [held EXCEPT ![w] = {m}]
  /\ finished' = finished \ {w}
  /\ UNCHANGED <<rowVars, dispatcherVars, effects, auditVars, sent, lost, faults>>

(* Mutant of Execute: the effect step is not looked up.                    *)
ExecuteUnguarded(w, m) ==
  /\ held[w] = {m}
  /\ w \notin finished
  /\ effects' = [effects EXCEPT ![m[1]] = @ + 1]
  /\ finished' = finished \cup {w}
  /\ UNCHANGED <<rowVars, dispatcherVars, queue, held, auditVars, sent, lost, faults>>

(* One transaction under the run's lock: a second delivery finds the       *)
(* effect step and returns.                                                *)
Execute(w, m) ==
  /\ held[w] = {m}
  /\ w \notin finished
  /\ effects' = IF effects[m[1]] > 0 THEN effects
                ELSE [effects EXCEPT ![m[1]] = @ + 1]
  /\ finished' = finished \cup {w}
  /\ UNCHANGED <<rowVars, dispatcherVars, queue, held, auditVars, sent, lost, faults>>

Drop(w) == held' = [held EXCEPT ![w] = {}]

Acknowledge(w) ==
  /\ held[w] # {}
  /\ w \in finished
  /\ Drop(w)
  /\ UNCHANGED <<rowVars, dispatcherVars, queue, finished, effects, auditVars,
                 sent, lost, faults>>

(* OperationalError: the transaction rolls back and Celery sends the task  *)
(* again with a higher retry count.                                        *)
ExecuteRetries(w, m) ==
  /\ held[w] = {m}
  /\ w \notin finished
  /\ m[2] < MaxTaskRetries
  /\ Fault
  /\ queue' = [queue EXCEPT ![<<m[1], m[2] + 1>>] = @ + 1]
  /\ Drop(w)
  /\ UNCHANGED <<rowVars, dispatcherVars, finished, effects, auditVars, sent, lost>>

(* The last retry fails, or the soft time limit expires: the task ends in  *)
(* failure and its message is acknowledged all the same.                   *)
ExecuteGivesUp(w, m) ==
  /\ held[w] = {m}
  /\ w \notin finished
  /\ Fault
  /\ lost' = lost \cup {m[1]}
  /\ Drop(w)
  /\ UNCHANGED <<rowVars, dispatcherVars, queue, finished, effects, auditVars, sent>>

(* Mutant of WorkerLost: without acks_late and reject_on_worker_lost the   *)
(* message was acknowledged on delivery and dies with its worker.          *)
WorkerLostAfterEarlyAck(w, m) ==
  /\ held[w] = {m}
  /\ Fault
  /\ Drop(w)
  /\ UNCHANGED <<rowVars, dispatcherVars, queue, finished, effects, auditVars,
                 sent, lost>>

(* The worker process dies: the unacknowledged message is requeued.        *)
WorkerLost(w, m) ==
  /\ held[w] = {m}
  /\ Fault
  /\ queue' = [queue EXCEPT ![m] = @ + 1]
  /\ Drop(w)
  /\ UNCHANGED <<rowVars, dispatcherVars, finished, effects, auditVars, sent, lost>>

(* The broker's visibility timeout passes while the worker still runs.     *)
VisibilityTimeout(w, m) ==
  /\ held[w] = {m}
  /\ Fault
  /\ queue' = [queue EXCEPT ![m] = @ + 1]
  /\ UNCHANGED <<rowVars, dispatcherVars, workerVars, effects, auditVars, sent, lost>>

-----------------------------------------------------------------------------
Publish(d, c) ==
  \/ RefuseUnsupported(d, c)
  \/ PublishAccepted(d, c)
  \/ PublishRejected(d, c)
  \/ PublishUnconfirmed(d, c)

Mark(d) == MarkPublished(d) \/ MarkFailed(d) \/ MarkTooLate(d)

DispatcherNext ==
  \E d \in Dispatchers :
    \/ \E batch \in SUBSET Commands : Claim(d, batch)
    \/ \E c \in Commands : Publish(d, c)
    \/ Mark(d)
    \/ DispatcherCrash(d)

RowNext ==
  \/ \E c \in Commands :
       \/ Submit(c)
       \/ BackoffElapses(c)
       \/ OrphanedClaimAges(c)
       \/ StalledClaimAges(c)
       \/ OperatorRetry(c)
  \/ \E batch \in SUBSET Commands : RecoverStaleClaims(batch)

WorkerNext ==
  \E w \in Workers :
    \/ Acknowledge(w)
    \/ \E m \in Message :
         \/ Deliver(w, m)
         \/ Execute(w, m)
         \/ ExecuteRetries(w, m)
         \/ ExecuteGivesUp(w, m)
         \/ WorkerLost(w, m)
         \/ VisibilityTimeout(w, m)

Next == DispatcherNext \/ RowNext \/ WorkerNext

Spec == Init /\ [][Next]_vars

(* Beat starts dispatch and recovery again and again, a running dispatcher *)
(* or task goes on, time passes, and the broker delivers what it holds.    *)
(* Nobody has to submit or retry a command, and no failure has to happen.  *)
Fairness ==
  /\ WF_vars(\E d \in Dispatchers, batch \in SUBSET Commands : Claim(d, batch))
  /\ WF_vars(\E batch \in SUBSET Commands : RecoverStaleClaims(batch))
  /\ \A d \in Dispatchers :
       WF_vars((\E c \in Commands : Publish(d, c)) \/ Mark(d))
  /\ \A c \in Commands :
       WF_vars(BackoffElapses(c)) /\ WF_vars(OrphanedClaimAges(c))
  /\ \A m \in Message : WF_vars(\E w \in Workers : Deliver(w, m))
  /\ \A w \in Workers :
       WF_vars((\E m \in Message : Execute(w, m)) \/ Acknowledge(w))

FairSpec == Spec /\ Fairness

-----------------------------------------------------------------------------
(* Properties.                                                             *)

(* Duplicate delivery creates no second effect: whatever mixture of        *)
(* duplicate publication, redelivery and task retry a command goes         *)
(* through, its effect is written at most once.                            *)
AtMostOneEffect == \A c \in Commands : effects[c] <= 1

(* A copy of the command is still on its way to its effect.                *)
Underway(c) ==
  \/ \E r \in 0..MaxTaskRetries : queue[<<c, r>>] > 0
  \/ \E w \in Workers : \E m \in held[w] : m[1] = c /\ w \notin finished

(* A row is marked PUBLISHED only when the broker really took the command, *)
(* and then the command is not forgotten: its effect is written, or a      *)
(* copy is still underway, or the consuming task itself gave up on it.     *)
PublishedIsCovered ==
  \A c \in Commands :
    status[c] = "published" => effects[c] > 0 \/ Underway(c) \/ c \in lost

(* Publication attempts stay within the automatic budget, except for one   *)
(* more per audited recovery or operator retry: no interleaving of claims, *)
(* crashes and late marks spends an attempt that nothing accounts for.     *)
AttemptsAccountedFor ==
  \A c \in Commands : attempts[c] <= MaxAttempts + recovered[c] + retried[c]

(* A row leaves PUBLISHING only when the dispatcher that owns the claim     *)
(* puts it down, or by the audited recovery of a stale claim: a dispatcher *)
(* that lost its claim meanwhile never marks the row for the new owner.    *)
LeavesPublishing(c) ==
  status[c] = "publishing" /\ status'[c] # "publishing"

OwnerOrRecoverySettles ==
  [][\A c \in Commands : LeavesPublishing(c) =>
       \/ /\ current[claimedBy[c]] = c
          /\ current'[claimedBy[c]] = None
       \/ /\ c \in stale
          /\ recovered'[c] = recovered[c] + 1]_vars

(* A row that is PUBLISHED stays so, and one that is FAILED with its       *)
(* attempts used up is only ever moved by an audited operator retry.       *)
SettledRowsMoveOnlyByOperator ==
  [][\A c \in Commands :
       /\ status[c] = "published" => status'[c] = "published"
       /\ status[c] = "failed" /\ attempts[c] >= MaxAttempts
            /\ status'[c] # "failed" => retried'[c] = retried[c] + 1]_vars

(* A command that was committed is eventually settled: its effect is       *)
(* written, or the operator sees it FAILED with no attempts left, or its   *)
(* consuming task gave up.  In particular a crash of the dispatcher        *)
(* between commit, publish and mark strands no row.                        *)
EveryCommandSettles ==
  \A c \in Commands :
    status[c] # "absent" ~>
      \/ effects[c] > 0
      \/ status[c] = "failed" /\ attempts[c] >= MaxAttempts
      \/ c \in lost

(* Every claim ends, even if its dispatcher died or never came back.       *)
EveryClaimEnds ==
  \A c \in Commands : status[c] = "publishing" ~> status[c] # "publishing"

-----------------------------------------------------------------------------
(* Strengthenings of the invariants above that are inductive.              *)

(* Nothing gets ahead of its cause: only committed rows are in a           *)
(* dispatcher's hands or sent, and only what was sent is delivered,        *)
(* applied or marked PUBLISHED.                                            *)
Causality ==
  /\ \A c \in sent : status[c] # "absent"
  /\ \A d \in Dispatchers : \A c \in todo[d] : status[c] # "absent"
  /\ \A d \in Dispatchers : current[d] # None => status[current[d]] # "absent"
  /\ \A d \in Dispatchers : outcome[d] # "none" => current[d] # None
  /\ \A d \in Dispatchers : outcome[d] = "accepted" => current[d] \in sent
  /\ \A m \in Message : queue[m] > 0 => m[1] \in sent
  /\ \A w \in Workers : \A m \in held[w] : m[1] \in sent
  /\ \A c \in Commands : effects[c] > 0 => c \in sent
  /\ \A c \in Commands : status[c] = "published" => c \in sent

(* From the moment the broker takes a command, not only once it is marked. *)
SentIsCovered ==
  \A c \in sent : effects[c] > 0 \/ Underway(c) \/ c \in lost

(* A pending row has one attempt of its allowance left.                    *)
AttemptAllowance ==
  /\ AttemptsAccountedFor
  /\ \A c \in Commands :
       status[c] = "pending" => attempts[c] < MaxAttempts + recovered[c] + retried[c]
  /\ \A c \in Commands : status[c] = "absent" => attempts[c] = 0

IInv == TypeOK /\ Causality /\ SentIsCovered /\ AttemptAllowance /\ AtMostOneEffect

-----------------------------------------------------------------------------
(* The outbox implements the ledger.                                       *)
Ledger == INSTANCE CommandLedger WITH
  recorded  <- {c \in Commands : status[c] # "absent"},
  sent      <- sent,
  confirmed <- {c \in Commands : status[c] = "published"},
  parked    <- {c \in Commands : status[c] = "failed" /\ attempts[c] >= MaxAttempts},
  applied   <- effects

(* Every step of the outbox is a step of the ledger or none: the promises  *)
(* of CommandLedger hold through crashes, stalls and duplicates.           *)
ImplementsLedger == Ledger!LedgerSpec
=============================================================================
