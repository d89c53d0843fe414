-------------------------- MODULE ReasoningLifecycle --------------------------
(***************************************************************************)
(* The lifecycle of lifecycle.py as its callers drive it.  The module keeps *)
(* no state of its own: begin and transition return immutable snapshots,    *)
(* "suitable for audit and resumption", and a caller may resume from any    *)
(* snapshot it ever received, however old.  The state is therefore the set  *)
(* of all snapshots returned so far: concurrent callers, a restart from a   *)
(* stored snapshot and a repeated call are all steps from a member of it.   *)
(* A call that raises returns nothing and changes nothing.                  *)
(***************************************************************************)
EXTENDS LifecycleGraph

CONSTANTS Decision,       \* routing decisions callers may pass, substituted ones included
          ProposedDelta,  \* budget deltas callers may propose
          MaxSequence     \* bound: no call is made on a snapshot with this sequence

ASSUME DecisionAssumption ==
  \A d \in Decision : d.decision_id \in DecisionId /\ d.reasoning_budget \in ReasoningBudgets

ASSUME DeltaAssumption == ProposedDelta \subseteq Counters

VARIABLE snapshots
vars == <<snapshots>>

Init == snapshots = {}

BeginReasoningLifecycle(decision, correlation) ==
  snapshots' = snapshots \cup {InitialSnapshot(decision, correlation)}

TransitionReasoningState(decision, s, state, delta) ==
  /\ s.sequence < MaxSequence
  /\ CanTransition(decision, s, state, delta)
  /\ snapshots' = snapshots \cup {NextSnapshot(s, state, delta)}

Next ==
  \/ \E d \in Decision, c \in CorrelationId : BeginReasoningLifecycle(d, c)
  \/ \E d \in Decision, s \in snapshots, st \in ReasoningState,
        delta \in ProposedDelta \cup {NoCost} : TransitionReasoningState(d, s, st, delta)

Spec == Init /\ [][Next]_vars

-----------------------------------------------------------------------------
(* Every value handed out satisfies the checks of its constructor. *)
TypeOK == snapshots \subseteq LifecycleSnapshots

(* A lifecycle stays inside the ceilings it began with: behind every        *)
(* snapshot stands the initial one of its lifecycle, with the same budget,  *)
(* and what has been used is within its ceilings, whichever decision value  *)
(* was passed on the way (consume_reasoning_budget fails closed on excess). *)
WithinAdmittedCeilings ==
  \A s \in snapshots : \E root \in snapshots :
    /\ root.sequence = 0
    /\ root.routing_decision_id = s.routing_decision_id
    /\ root.correlation_id = s.correlation_id
    /\ root.budget_state.usage.budget = s.budget_state.usage.budget
    /\ \A k \in Dimension :
         s.budget_state.usage.used[k] <= root.budget_state.usage.budget.max[k]

(* p is a snapshot that s was made from by one transition. *)
Precedes(p, s) ==
  /\ p.routing_decision_id = s.routing_decision_id
  /\ p.correlation_id = s.correlation_id
  /\ p.sequence + 1 = s.sequence
  /\ p.state = s.previous_state
  /\ p.budget_state.usage.budget = s.budget_state.usage.budget
  /\ \A k \in Dimension : p.budget_state.usage.used[k] <= s.budget_state.usage.used[k]

(* The audit trail has no gap: behind every snapshot that is not initial    *)
(* stands another returned snapshot of the same lifecycle, one sequence     *)
(* earlier, not terminal, with the same ceilings and no greater usage; and  *)
(* a counter reported exhausted there is still reported exhausted.          *)
AuditTrail ==
  \A s \in snapshots : s.sequence > 0 =>
    \E p \in snapshots :
      /\ Precedes(p, s)
      /\ ~IsTerminal(p)
      /\ ExhaustedDimensions(p.budget_state.usage)
           \subseteq ExhaustedDimensions(s.budget_state.usage)

(* Tool execution is entered from a policy wait of the same lifecycle, so   *)
(* also on the second and later rounds (ARCHITECTURE: EXECUTING_AUTHORIZED_ *)
(* TOOL is reachable only from AWAITING_POLICY).                            *)
ToolOnlyAfterPolicyWait ==
  \A s \in snapshots : s.state = "EXECUTING_AUTHORIZED_TOOL" =>
    \E p \in snapshots : Precedes(p, s) /\ p.state = "AWAITING_POLICY"

(* Branch depth is a high-water mark: it never exceeds the deepest branch   *)
(* that was ever proposed, however many transitions reported one.           *)
DepthIsHighWater ==
  \A s \in snapshots :
    LET depth == s.budget_state.usage.used[BranchDepth]
    IN depth = 0 \/ \E delta \in ProposedDelta : delta[BranchDepth] = depth

(* Work that has not ended can always be stopped: with the admitted         *)
(* decision, each common stop state is accepted at no cost, even with every *)
(* counter at its ceiling (reaching a ceiling exactly is valid).            *)
AlwaysStoppable ==
  \A s \in snapshots : ~IsTerminal(s) =>
    \A d \in Decision, stop \in CommonStopState :
      LedgerMatches(d, s.budget_state) => CanTransition(d, s, stop, NoCost)

=============================================================================
