----------------------------- MODULE FallbackChain -----------------------------
(***************************************************************************)
(* One request and the routes it is given in turn: a first decision, work   *)
(* charged to its ledger, and fallback after fallback by fallback.py.  The   *)
(* controller is a single one and hands on the last value of each kind that  *)
(* it was given; the current request, snapshot and policies of a replan come  *)
(* from their owners and may be any it knows of.  A call that raises changes  *)
(* nothing.                                                                 *)
(***************************************************************************)
EXTENDS FallbackControl

CONSTANTS Request,       \* the BrainRequests that are admitted
          Snapshot,      \* capability snapshots
          Policy,        \* candidate selection policies
          Fallback,      \* fallback replan policies
          Trigger,       \* the reasons for a replan that occur
          Delta,         \* costs of one piece of work
          Lifetime,      \* how long a decision may be given to live
          MaxTime,       \* bound: the clock stops here
          MaxReplans     \* bound: routes that replace another

ASSUME RequestAssumption ==
  \A r \in Request :
    /\ r.reasoning_budget \in ReasoningBudgets
    /\ r.admitted_at \in Time
    /\ r.deadline \in Time \cup {NoTime}
    /\ r.deadline # NoTime => r.admitted_at < r.deadline
    /\ r.max_latency_ms \in Nat /\ r.max_compute_units \in Nat /\ r.max_memory_bytes \in Nat
    /\ r.required_accuracy \in Nat \cup {Absent}

ASSUME SnapshotAssumption ==
  \A snapshot \in Snapshot : \A id \in DOMAIN snapshot.substrates :
    /\ id \in SubstrateId
    /\ snapshot.substrates[id].min_compute_units \in Nat
    /\ snapshot.substrates[id].min_memory_bytes \in Nat
    /\ snapshot.substrates[id].max_latency_ms \in Nat \cup {Absent}

ASSUME ChainAssumption ==
  /\ Trigger \subseteq FallbackTrigger
  /\ Delta \subseteq Counters
  /\ Lifetime \subseteq Nat \ {0}
  /\ MaxTime \in Time /\ MaxReplans \in Nat

VARIABLES
  now,           \* the clock
  cancelled_at,  \* when the controller was told to cancel, or NoTime
  ended_at,      \* when the lifecycle of the present decision ended, or NoTime
  evaluation,    \* the last TerminationRequirement and its decision
  root,          \* the request as it was first admitted
  request,       \* the request as it is now
  decision,      \* the present RoutingDecision
  ledger,        \* its budget ledger
  spent,         \* external: the work that has really been done, all routes together
  replans,       \* how many routes replaced another
  outcome        \* status of the last FallbackReplanResult

vars == <<now, cancelled_at, ended_at, evaluation, root, request, decision, ledger,
          spent, replans, outcome>>
clock == <<now, cancelled_at, ended_at>>
route == <<request, decision, ledger, replans>>

Evaluated(d, ended, cancelled, deadline, at) ==
  [decision_id |-> d.decision_id,
   requirement |-> RequirementAt(ended, cancelled, deadline, at)]

(* The first decision.  Its caller makes it from a candidate selection, and *)
(* nothing keeps it from outliving the request's deadline.                   *)
FirstDecision(r, snapshot, policy, id, lifetime) ==
  [decision_id |-> id,
   security_binding |-> r.security_binding,
   policy |-> policy,
   selected_substrates |-> Selected(r, snapshot, policy, 0),
   reasoning_budget |-> r.reasoning_budget,
   created_at |-> 0,
   expires_at |-> lifetime]

Init ==
  /\ now = 0 /\ cancelled_at = NoTime /\ ended_at = NoTime
  /\ request \in Request
  /\ root = request
  /\ request.admitted_at = 0
  /\ \E snapshot \in Snapshot, policy \in Policy, id \in DecisionId, lifetime \in Lifetime :
       /\ CanSelect(request, snapshot, policy, request.security_binding, 0)
       /\ Selected(request, snapshot, policy, 0) # {}
       /\ decision = FirstDecision(request, snapshot, policy, id, lifetime)
  /\ ledger = ZeroLedger(decision)
  /\ evaluation = Evaluated(decision, FALSE, NoTime, request.deadline, 0)
  /\ spent = NoCost
  /\ replans = 0
  /\ outcome = "NONE"

-----------------------------------------------------------------------------
Tick ==
  /\ now < MaxTime
  /\ now' = now + 1
  /\ UNCHANGED <<cancelled_at, ended_at, evaluation, root, route, spent, outcome>>

Cancel ==
  /\ cancelled_at = NoTime
  /\ cancelled_at' = now
  /\ UNCHANGED <<now, ended_at, evaluation, root, route, spent, outcome>>

EndLifecycle ==
  /\ ended_at = NoTime
  /\ ended_at' = now
  /\ UNCHANGED <<now, cancelled_at, evaluation, root, route, spent, outcome>>

(* consume_routing_reasoning_budget: work is charged when it is done. *)
Consume(delta) ==
  /\ CanConsumeLedger(decision, ledger, delta)
  /\ ledger' = ConsumedLedger(ledger, delta)
  /\ spent' = Charged(spent, delta)
  /\ UNCHANGED <<clock, evaluation, root, request, decision, replans, outcome>>

EvaluateTerminationRequirement ==
  /\ evaluation' = Evaluated(decision, ended_at # NoTime, cancelled_at, request.deadline, now)
  /\ UNCHANGED <<clock, root, route, spent, outcome>>

(* replan_fallback_route.  The replacement begins a lifecycle of its own.   *)
ReplanFallbackRoute(in) ==
  /\ CanReplan(request, decision, ledger, evaluation, in, now)
  /\ LET replacement == Replacement(decision, in, now)
     IN \/ /\ replacement.selected_substrates # {}
           /\ outcome' = "ROUTE_SELECTED"
           /\ request' = in.request
           /\ decision' = replacement
           /\ ledger' = CarriedLedger(in.new_decision_id, in.request, ledger)
           /\ replans' = replans + 1
           /\ ended_at' = NoTime
        \/ /\ replacement.selected_substrates = {}
           /\ outcome' = "NO_VALID_ROUTE"
           /\ UNCHANGED <<route, ended_at>>
  /\ UNCHANGED <<now, cancelled_at, evaluation, root, spent>>

(* What a replan may be given at this instant. *)
ReplanInputs ==
  [request : Request, snapshot : Snapshot, policy : Policy, fallback : Fallback,
   trigger : Trigger, unavailable : SUBSET SubstrateId,
   new_decision_id : DecisionId, expires_at : {now + l : l \in Lifetime}]

Next ==
  \/ Tick \/ Cancel \/ EndLifecycle
  \/ \E delta \in Delta : Consume(delta)
  \/ EvaluateTerminationRequirement
  \/ replans < MaxReplans /\ \E in \in ReplanInputs : ReplanFallbackRoute(in)

Spec == Init /\ [][Next]_vars

-----------------------------------------------------------------------------
(* The values held satisfy the checks of their constructors and fit each    *)
(* other: the ledger is the present decision's, within its ceilings.        *)
TypeOK ==
  /\ now \in Time
  /\ cancelled_at \in Time \cup {NoTime}
  /\ ended_at \in Time \cup {NoTime}
  /\ evaluation.decision_id \in DecisionId /\ evaluation.requirement \in Requirements
  /\ root \in Request /\ request \in Request
  /\ decision.decision_id \in DecisionId
  /\ decision.reasoning_budget = request.reasoning_budget
  /\ decision.security_binding = request.security_binding
  /\ decision.policy \in Policy
  /\ decision.selected_substrates \subseteq SubstrateId
  /\ decision.selected_substrates # {}
  /\ decision.created_at \in Time /\ decision.expires_at \in Time
  /\ decision.created_at < decision.expires_at /\ decision.created_at <= now
  /\ ledger \in Ledgers /\ LedgerMatches(decision, ledger)
  /\ spent \in Counters
  /\ replans \in Nat
  /\ outcome \in {"NONE", "ROUTE_SELECTED", "NO_VALID_ROUTE"}

(* All routes of a request together stay within the ceilings it was         *)
(* admitted with (_carry_budget_usage: used counters cannot be reset, nor   *)
(* ceilings raised, by replanning, however often).                          *)
WithinRootBudget == \A k \in Dimension : spent[k] <= root.reasoning_budget.max[k]

(* Falling back is never a way around what the request demanded: whatever   *)
(* any route of the chain selected was selected for a request at least as   *)
(* strict, so the first request, with the policy and snapshot of that       *)
(* route, would have found it eligible as well.                             *)
ServesTheRoot ==
  \E snapshot \in Snapshot :
    /\ snapshot.snapshot_id = decision.security_binding.capability_snapshot_id
    /\ decision.selected_substrates
         \subseteq EligibleIds(root, decision.policy, snapshot, decision.created_at)

(* However the deadline is restated on the way, a replacement is made before *)
(* the deadline of the first request and does not outlive it.               *)
WithinRootDeadline ==
  replans > 0 /\ root.deadline # NoTime =>
    decision.created_at < root.deadline /\ decision.expires_at <= root.deadline

(* No route replaces another after the execution had to stop: the evaluation *)
(* that allowed it was made at that very instant, so what it has missed      *)
(* happened at that instant too (_validate_termination_state).               *)
StopForbidsFallback ==
  [][decision' # decision =>
       /\ cancelled_at \in {NoTime, now}
       /\ ended_at \in {NoTime, now}
       /\ request.deadline # NoTime => now < request.deadline]_vars

(* The chain keeps the promise of BoundedSpending. *)
Promise == INSTANCE BoundedSpending
  WITH Counter <- Dimension, allowance <- request.reasoning_budget.max
SpendingPromise == Promise!Spec

=============================================================================
