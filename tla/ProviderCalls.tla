---------------------------- MODULE ProviderCalls ----------------------------
(***************************************************************************)
(* Paid calls to the OpenAI Responses API (apps/providers): the row of     *)
(* each call, its authorisation against the concurrency limit of its       *)
(* operation and the daily and monthly budgets, and what becomes of the    *)
(* row when the API answers, fails, or the caller is lost.                 *)
(*                                                                         *)
(* Authorisation is two steps, the reads under the row locks and the       *)
(* commit, because other callers read and write between them; the request  *)
(* itself is made with no lock held.  web_discovery, web_research and      *)
(* research_extraction share this protocol and differ in their policy.     *)
(***************************************************************************)
EXTENDS Naturals, FiniteSets, Functions

CONSTANTS
  Calls,         \* rows of ProviderCall
  Policies,      \* rows of ModelPolicy
  Operations,    \* operation (and policy_key) of a policy
  PolicyOf,      \* the policy a call was created under
  OperationOf,   \* a policy's operation
  CapabilityOf,  \* a policy's ModelCapability row
  Cost,          \* the maximum cost a call reserves
  MaxCost,       \* policy: max_cost_usd
  CallLimit,     \* policy: concurrent calls, after the runtime setting
  DailyLimit,    \* policy: daily budget, after the runtime setting
  MonthlyLimit,  \* policy: monthly budget, after the runtime setting
  DaysPerMonth,
  MaxDay         \* bound of the model: days observed

ASSUME ProviderAssumption ==
  /\ IsFiniteSet(Calls)
  /\ PolicyOf \in [Calls -> Policies]
  /\ OperationOf \in [Policies -> Operations]
  /\ DOMAIN CapabilityOf = Policies
  /\ Cost \in [Calls -> Nat]
  /\ MaxCost \in [Policies -> Nat]
  /\ CallLimit \in [Policies -> Nat]
  /\ DailyLimit \in [Policies -> Nat]
  /\ MonthlyLimit \in [Policies -> Nat]
  /\ DaysPerMonth \in Nat \ {0}
  /\ MaxDay \in Nat

VARIABLES
  call,           \* ProviderCall.status
  caller,         \* where the code that makes the call is
  startedDay,     \* day of ProviderCall.started_at
  activePolicies, \* rows of ModelPolicy with active set
  today

providerVars == <<call, caller, startedDay, activePolicies, today>>

CallStatus == {"absent", "queued", "running", "complete", "incomplete",
               "refused", "failed"}
CallerPhase == {"none", "created", "admitted", "calling", "answered",
                "returned", "raised", "lost"}

ProviderTypeOK ==
  /\ call \in [Calls -> CallStatus]
  /\ caller \in [Calls -> CallerPhase]
  /\ startedDay \in [Calls -> Nat]
  /\ activePolicies \in SUBSET Policies
  /\ today \in Nat

(* One policy per operation is active.                                     *)
OneActivePerOperation(ps) ==
  \A p, q \in ps : OperationOf[p] = OperationOf[q] => p = q

ProviderInit ==
  /\ call = [c \in Calls |-> "absent"]
  /\ caller = [c \in Calls |-> "none"]
  /\ startedDay = [c \in Calls |-> 0]
  /\ activePolicies \in {ps \in SUBSET Policies :
                           /\ OneActivePerOperation(ps)
                           /\ \A p \in Policies : \E q \in ps :
                                OperationOf[q] = OperationOf[p]}
  /\ today = 0

Goes(c, phase) == caller' = [caller EXCEPT ![c] = phase]

Becomes(c, status) == call' = [call EXCEPT ![c] = status]

-----------------------------------------------------------------------------
(* Before the request.                                                     *)

(* active_model_policy reads the policy, then the row is created QUEUED.   *)
CreateCall(c) ==
  /\ call[c] = "absent"
  /\ PolicyOf[c] \in activePolicies
  /\ Becomes(c, "queued")
  /\ Goes(c, "created")
  /\ UNCHANGED <<startedDay, activePolicies, today>>

(* Mutant of SameLock: each policy row is its own lock.                    *)
SameLockPolicyOnly(c, d) == PolicyOf[c] = PolicyOf[d]

(* _authorize_call locks the policy's row, then its capability's row.      *)
SameLock(c, d) ==
  \/ PolicyOf[c] = PolicyOf[d]
  \/ CapabilityOf[PolicyOf[c]] = CapabilityOf[PolicyOf[d]]

LocksFree(c) == \A d \in Calls \ {c} : caller[d] = "admitted" => ~SameLock(c, d)

(* Mutant of RunningBeside: calls of the same policy row only.             *)
RunningOfPolicy(c) ==
  {d \in Calls \ {c} : call[d] = "running" /\ PolicyOf[d] = PolicyOf[c]}

RunningBeside(c) ==
  {d \in Calls \ {c} : /\ call[d] = "running"
                       /\ OperationOf[PolicyOf[d]] = OperationOf[PolicyOf[c]]}

(* The calls whose maximum cost counts as spent; a refused or failed call  *)
(* gives its reservation back.                                             *)
Reserving == {c \in Calls : call[c] \in {"running", "complete", "incomplete"}}

MonthOf(day) == day \div DaysPerMonth

Spend(cs) == SumFunctionOnSet(Cost, cs)

SpentSince(day, c) == Spend({d \in Reserving \ {c} : startedDay[d] >= day})

(* _validate_policy: the capability side of the checks does not change     *)
(* while a policy is active and is left out.                               *)
PolicyAllows(c) ==
  /\ PolicyOf[c] \in activePolicies
  /\ Cost[c] <= MaxCost[PolicyOf[c]]

WithinLimits(c) ==
  LET p == PolicyOf[c] IN
  /\ Cardinality(RunningBeside(c)) < CallLimit[p]
  /\ SpentSince(today, c) + Cost[c] <= DailyLimit[p]
  /\ SpentSince(MonthOf(today) * DaysPerMonth, c) + Cost[c] <= MonthlyLimit[p]

(* The locked reads: the call is admitted, with started_at from the clock, *)
(* or fails with a ProviderError.                                          *)
Authorize(c) ==
  /\ caller[c] = "created"
  /\ LocksFree(c)
  /\ IF PolicyAllows(c) /\ WithinLimits(c)
     THEN /\ Goes(c, "admitted")
          /\ startedDay' = [startedDay EXCEPT ![c] = today]
          /\ UNCHANGED call
     ELSE /\ Goes(c, "raised")
          /\ Becomes(c, "failed")
          /\ UNCHANGED startedDay
  /\ UNCHANGED <<activePolicies, today>>

(* The authorisation commits and releases the locks.                       *)
StartCall(c) ==
  /\ caller[c] = "admitted"
  /\ Becomes(c, "running")
  /\ Goes(c, "calling")
  /\ UNCHANGED <<startedDay, activePolicies, today>>

-----------------------------------------------------------------------------
(* After the request.                                                      *)

CallCompletes(c) ==
  /\ caller[c] = "calling"
  /\ Becomes(c, "complete")
  /\ Goes(c, "answered")
  /\ UNCHANGED <<startedDay, activePolicies, today>>

(* _fail_call: a refusal, an incomplete answer, or any other ProviderError *)
(* (a schema failure, a rate limit, an API error).                         *)
FailCall(c, status) ==
  /\ Becomes(c, status)
  /\ Goes(c, "raised")
  /\ UNCHANGED <<startedDay, activePolicies, today>>

CallFails(c) ==
  /\ caller[c] = "calling"
  /\ \E status \in {"refused", "incomplete", "failed"} : FailCall(c, status)

(* The result built from a completed call may still fail its validation.   *)
CallReturns(c) ==
  /\ caller[c] = "answered"
  /\ \/ /\ Goes(c, "returned")
        /\ UNCHANGED <<call, startedDay, activePolicies, today>>
     \/ FailCall(c, "failed")

(* A soft time limit or the death of the worker: no handler touches the    *)
(* row, and an open authorisation rolls back.                              *)
CallerLost(c) ==
  /\ caller[c] \in {"created", "admitted", "calling", "answered"}
  /\ Goes(c, "lost")
  /\ UNCHANGED <<call, startedDay, activePolicies, today>>

NextDay ==
  /\ today < MaxDay
  /\ today' = today + 1
  /\ UNCHANGED <<call, caller, startedDay, activePolicies>>

(* The bootstrap command activates another reviewed version of a policy;   *)
(* its update waits for an authorisation that has the row locked.          *)
ReplacePolicy(p, q) ==
  /\ p \in activePolicies
  /\ \A c \in Calls : caller[c] = "admitted" => PolicyOf[c] # p
  /\ q \notin activePolicies
  /\ OperationOf[p] = OperationOf[q]
  /\ activePolicies' = (activePolicies \ {p}) \cup {q}
  /\ UNCHANGED <<call, caller, startedDay, today>>

ProviderStep(c) ==
  \/ Authorize(c)
  \/ StartCall(c)
  \/ CallCompletes(c)
  \/ CallFails(c)
  \/ CallReturns(c)

ProviderNext ==
  \/ \E c \in Calls : CreateCall(c) \/ ProviderStep(c) \/ CallerLost(c)
  \/ NextDay
  \/ \E p, q \in Policies : ReplacePolicy(p, q)

ProviderSpec == ProviderInit /\ [][ProviderNext]_providerVars

-----------------------------------------------------------------------------
(* Properties.                                                             *)

Running(op) ==
  {c \in Calls : call[c] = "running" /\ OperationOf[PolicyOf[c]] = op}

(* An operation never has more calls under way than the loosest limit of   *)
(* its policies, however authorisations interleave: each counts the others *)
(* under locks it keeps until its own row is RUNNING (_authorize_call).    *)
CallsWithinLimit ==
  \A op \in Operations : Running(op) # {} =>
    \E p \in Policies :
      /\ OperationOf[p] = op
      /\ Cardinality(Running(op)) <= CallLimit[p]

(* The maximum cost reserved by the calls of one day, and of one month,    *)
(* stays within the largest budget a policy has, although policies of      *)
(* different operations draw on it together (_reserved_spend).             *)
SpendWithinBudget ==
  \A day \in 0..today :
    LET OfDay == {c \in Reserving : startedDay[c] = day}
        OfMonth == {c \in Reserving : MonthOf(startedDay[c]) = MonthOf(day)}
    IN /\ OfDay # {} => \E p \in Policies : Spend(OfDay) <= DailyLimit[p]
       /\ OfMonth # {} => \E p \in Policies : Spend(OfMonth) <= MonthlyLimit[p]

=============================================================================
