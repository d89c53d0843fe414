---------------------------- MODULE ReasoningSession ----------------------------
(***************************************************************************)
(* One request, the routes it is given in turn, and the lifecycle of each:    *)
(* routing, fallback, termination and lifecycle together.  Every function is  *)
(* pure, so it is the callers that keep the ledger of a route (inside its     *)
(* lifecycle snapshot), hand it to a fallback and begin the next lifecycle    *)
(* with what comes back.  Three things can slip: a route works on after it    *)
(* was replaced, a fallback is given a ledger that is not the last one, and    *)
(* the next lifecycle is begun by begin_reasoning_lifecycle, which starts     *)
(* from an empty ledger.  slips records which of them ever happened.          *)
(***************************************************************************)
EXTENDS FallbackControl, LifecycleGraph, Sequences

CONSTANTS Request, Snapshot, Policy, Fallback, Trigger, Lifetime,   \* as in FallbackChain
          NextState, Delta,       \* states and costs of transitions that occur
          MaxTime, MaxReplans, MaxSequence    \* bounds: the clock, routes, transitions of one route

ASSUME SessionAssumption ==
  /\ \A r \in Request : r.reasoning_budget \in ReasoningBudgets
  /\ Delta \subseteq Counters
  /\ Lifetime \subseteq Nat \ {0} /\ MaxTime \in Nat /\ MaxReplans \in Nat /\ MaxSequence \in Nat

VARIABLES
  now, cancelled_at,
  root, request,  \* the request as first admitted, and as it is now
  routes,         \* every route so far, the present one last: [decision, lifecycle]
  ledgers,        \* history: every ledger that was ever handed out
  spent,          \* external: the work really done, by all routes together
  slips           \* history: what callers let slip

vars == <<now, cancelled_at, root, request, routes, ledgers, spent, slips>>

Slip == {"LATE_WORK", "STALE_LEDGER", "FRESH_LIFECYCLE"}
Present == routes[Len(routes)]

FirstDecision(r, snapshot, policy, id, lifetime) ==
  [decision_id |-> id,
   security_binding |-> r.security_binding,
   policy |-> policy,
   selected_substrates |-> Selected(r, snapshot, policy, 0),
   reasoning_budget |-> r.reasoning_budget,
   created_at |-> 0,
   expires_at |-> lifetime]

Init ==
  /\ now = 0 /\ cancelled_at = NoTime
  /\ request \in Request /\ root = request
  /\ \E snapshot \in Snapshot, policy \in Policy, id \in DecisionId,
        c \in CorrelationId, lifetime \in Lifetime :
       LET decision == FirstDecision(request, snapshot, policy, id, lifetime)
       IN /\ CanSelect(request, snapshot, policy, request.security_binding, 0)
          /\ decision.selected_substrates # {}
          /\ routes = <<[decision |-> decision, lifecycle |-> InitialSnapshot(decision, c)]>>
          /\ ledgers = {ZeroLedger(decision)}
  /\ spent = NoCost
  /\ slips = {}

-----------------------------------------------------------------------------
Tick ==
  /\ now < MaxTime
  /\ now' = now + 1
  /\ UNCHANGED <<cancelled_at, root, request, routes, ledgers, spent, slips>>

Cancel ==
  /\ cancelled_at = NoTime
  /\ cancelled_at' = now
  /\ UNCHANGED <<now, root, request, routes, ledgers, spent, slips>>

(* transition_reasoning_state on the newest snapshot of a route, the present *)
(* one or one that was replaced: it asks neither for the time nor whether    *)
(* the decision is still the one in force.                                  *)
Work(i, to, delta) ==
  /\ routes[i].lifecycle.sequence < MaxSequence
  /\ CanTransition(routes[i].decision, routes[i].lifecycle, to, delta)
  /\ routes' = [routes EXCEPT ![i].lifecycle = NextSnapshot(routes[i].lifecycle, to, delta)]
  /\ ledgers' = ledgers \cup {ConsumedLedger(routes[i].lifecycle.budget_state, delta)}
  /\ spent' = Charged(spent, delta)
  /\ slips' = slips \cup {s \in {"LATE_WORK"} : i # Len(routes) /\ delta # NoCost}
  /\ UNCHANGED <<now, cancelled_at, root, request>>

(* evaluate_termination_requirement for the present route, at this instant. *)
Evaluation ==
  [decision_id |-> Present.decision.decision_id,
   requirement |-> RequirementAt(IsTerminal(Present.lifecycle), cancelled_at, request.deadline, now)]

(* The first snapshot of the lifecycle of a replacement: made by             *)
(* begin_reasoning_lifecycle, or constructed with the ledger of the replan.  *)
BegunLifecycle(decision, correlation, carried, fresh) ==
  IF fresh THEN InitialSnapshot(decision, correlation)
  ELSE [InitialSnapshot(decision, correlation) EXCEPT !.budget_state = carried]

(* replan_fallback_route that finds a route, and the start of its lifecycle. *)
ReplanFallbackRoute(in, ledger, fresh) ==
  LET replacement == Replacement(Present.decision, in, now)
      carried == CarriedLedger(in.new_decision_id, in.request, ledger)
      begun == BegunLifecycle(replacement, Present.lifecycle.correlation_id, carried, fresh)
  IN /\ Len(routes) <= MaxReplans
     /\ CanReplan(request, Present.decision, ledger, Evaluation, in, now)
     /\ replacement.selected_substrates # {}
     /\ request' = in.request
     /\ routes' = Append(routes, [decision |-> replacement, lifecycle |-> begun])
     /\ ledgers' = ledgers \cup {carried, begun.budget_state}
     /\ slips' = slips \cup {s \in {"STALE_LEDGER"} : ledger # Present.lifecycle.budget_state}
                       \cup {s \in {"FRESH_LIFECYCLE"} : fresh}
     /\ UNCHANGED <<now, cancelled_at, root, spent>>

ReplanInputs ==
  [request : Request, snapshot : Snapshot, policy : Policy, fallback : Fallback,
   trigger : Trigger, unavailable : SUBSET SubstrateId,
   new_decision_id : DecisionId, expires_at : {now + l : l \in Lifetime}]

Next ==
  \/ Tick \/ Cancel
  \/ \E i \in DOMAIN routes, to \in NextState, delta \in Delta \cup {NoCost} : Work(i, to, delta)
  \/ \E in \in ReplanInputs, ledger \in ledgers, fresh \in BOOLEAN :
       ReplanFallbackRoute(in, ledger, fresh)

Spec == Init /\ [][Next]_vars

-----------------------------------------------------------------------------
(* Each route's lifecycle is a valid snapshot that belongs to its decision,   *)
(* is within its ceilings, and no ceiling is above the one first admitted;    *)
(* the present request is the one the present decision was made for.          *)
TypeOK ==
  /\ now \in Nat /\ cancelled_at \in Nat \cup {NoTime}
  /\ root \in Request /\ request \in Request /\ slips \subseteq Slip
  /\ spent \in Counters
  /\ ledgers \subseteq Ledgers
  /\ routes # <<>>
  /\ \A i \in DOMAIN routes :
       LET decision == routes[i].decision
           lifecycle == routes[i].lifecycle
       IN /\ lifecycle \in LifecycleSnapshots
          /\ lifecycle.routing_decision_id = decision.decision_id
          /\ LedgerMatches(decision, lifecycle.budget_state)
          /\ \A k \in Dimension : decision.reasoning_budget.max[k] <= root.reasoning_budget.max[k]
  /\ Present.decision.reasoning_budget = request.reasoning_budget
  /\ Present.decision.security_binding = request.security_binding

(* While nothing slips, the ledger of the present route knows of all work    *)
(* that was ever done for the request, and that work is within the ceilings  *)
(* it was first admitted with, through any number of fallbacks               *)
(* (_carry_budget_usage).                                                   *)
CarriedWorkIsBounded ==
  slips = {} =>
    /\ Present.lifecycle.budget_state.usage.used = spent
    /\ \A k \in Dimension : spent[k] <= root.reasoning_budget.max[k]

(* Whatever slips, every route only ever spends what was first admitted: n   *)
(* routes do at most n times the work, and none goes deeper than one may.    *)
EveryRouteIsBounded ==
  \A k \in Dimension :
    spent[k] <= (IF k = BranchDepth THEN 1 ELSE Len(routes)) * root.reasoning_budget.max[k]

(* As long as its callers let nothing slip, a session keeps the promise of   *)
(* BoundedSpending: whatever its routes do in turn, their work together      *)
(* stays within the present ceilings, which are only lowered, and never      *)
(* below what was spent (transition_reasoning_state and _carry_budget_usage). *)
Promise == INSTANCE BoundedSpending
  WITH Counter <- Dimension, allowance <- request.reasoning_budget.max
CarefulSpending ==
  Promise!Init /\ [][slips' = {} => [Promise!Next]_Promise!vars]_vars

(* The behaviours in which nothing ever slips. *)
CarefulSpec == Init /\ [][Next /\ slips' = {}]_vars

-----------------------------------------------------------------------------
(* What the documents say, and the two modules together do not do: fallback  *)
(* "cannot reset cumulative consumption" (ARCHITECTURE.md).  The only        *)
(* operation that starts a lifecycle takes the replacement decision, not the *)
(* ledger that was carried into it.                                         *)
FallbackCannotReset ==
  slips \subseteq {"FRESH_LIFECYCLE"} =>
    \A k \in Dimension : spent[k] <= root.reasoning_budget.max[k]

=============================================================================
