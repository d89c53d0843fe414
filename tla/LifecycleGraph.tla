---------------------------- MODULE LifecycleGraph ----------------------------
(***************************************************************************)
(* The state graph and the two operations of lifecycle.py, as operators on *)
(* immutable snapshots.  A cause is audit text and is left out.            *)
(***************************************************************************)
EXTENDS ReasoningBudget

CONSTANT CorrelationId    \* identities that tie a snapshot to its request

WorkState == {"ADMITTED", "PLANNING", "GATHERING_EVIDENCE", "GENERATING_CANDIDATES",
              "AWAITING_POLICY", "EXECUTING_AUTHORIZED_TOOL", "VERIFYING", "REVISING"}
TerminalState == {"COMPLETED", "DEFERRED", "DENIED", "FAILED", "CANCELLED"}
ReasoningState == WorkState \cup TerminalState
CommonStopState == {"DEFERRED", "FAILED", "CANCELLED"}

(* previous_state of an initial snapshot (None in the code). *)
NoState == "NONE"

(* The edges that are not common stops, as <<from, to>> pairs. *)
WorkTransitions ==
       ({"ADMITTED"} \X {"PLANNING", "DENIED"})
  \cup ({"PLANNING"} \X {"GATHERING_EVIDENCE", "GENERATING_CANDIDATES",
                         "AWAITING_POLICY", "VERIFYING", "COMPLETED"})
  \cup ({"GATHERING_EVIDENCE"} \X {"PLANNING", "GENERATING_CANDIDATES", "AWAITING_POLICY",
                                   "VERIFYING", "REVISING", "COMPLETED"})
  \cup ({"GENERATING_CANDIDATES"} \X {"GATHERING_EVIDENCE", "AWAITING_POLICY",
                                      "VERIFYING", "REVISING", "COMPLETED"})
  \cup ({"AWAITING_POLICY"} \X {"PLANNING", "GATHERING_EVIDENCE",
                                "EXECUTING_AUTHORIZED_TOOL", "VERIFYING", "DENIED"})
  \cup ({"EXECUTING_AUTHORIZED_TOOL"} \X {"GATHERING_EVIDENCE", "GENERATING_CANDIDATES",
                                          "VERIFYING", "REVISING", "COMPLETED"})
  \cup ({"VERIFYING"} \X {"VERIFYING", "REVISING", "COMPLETED"})
  \cup ({"REVISING"} \X {"PLANNING", "GATHERING_EVIDENCE", "GENERATING_CANDIDATES",
                         "AWAITING_POLICY", "VERIFYING"})

(* Mutated form: a revised plan runs its tool again under the old decision. *)
AllowedTransitionsReviseToTool ==
  WorkTransitions \cup (WorkState \X CommonStopState)
                  \cup {<<"REVISING", "EXECUTING_AUTHORIZED_TOOL">>}

AllowedTransitions == WorkTransitions \cup (WorkState \X CommonStopState)

CanTransitionState(from, to) == from \notin TerminalState /\ <<from, to>> \in AllowedTransitions

-----------------------------------------------------------------------------
(* ReasoningLifecycleSnapshot with what its constructor requires.  *)
LifecycleSnapshots ==
  {s \in [routing_decision_id : DecisionId, correlation_id : CorrelationId,
          sequence : Nat, previous_state : ReasoningState \cup {NoState},
          state : ReasoningState, budget_state : Ledgers] :
     /\ s.budget_state.decision_id = s.routing_decision_id
     /\ s.sequence = 0 => s.previous_state = NoState /\ s.state = "ADMITTED"
     /\ s.sequence > 0 => s.state # "ADMITTED" /\ CanTransitionState(s.previous_state, s.state)}

IsTerminal(s) == s.state \in TerminalState

(* begin_reasoning_lifecycle *)
InitialSnapshot(decision, correlation) ==
  [routing_decision_id |-> decision.decision_id,
   correlation_id |-> correlation,
   sequence |-> 0,
   previous_state |-> NoState,
   state |-> "ADMITTED",
   budget_state |-> ZeroLedger(decision)]

(* Mutated form: a transition is made without asking whether the ledger can pay. *)
CanTransitionUncheckedLedger(decision, s, state, delta) ==
  /\ s.routing_decision_id = decision.decision_id
  /\ CanTransitionState(s.state, state)
  /\ LedgerMatches(decision, s.budget_state)

(* transition_reasoning_state returns: the decision is the one the snapshot *)
(* is bound to, the edge exists, and the ledger can pay.                    *)
CanTransition(decision, s, state, delta) ==
  /\ s.routing_decision_id = decision.decision_id
  /\ CanTransitionState(s.state, state)
  /\ CanConsumeLedger(decision, s.budget_state, delta)

NextSnapshot(s, state, delta) ==
  [s EXCEPT !.sequence = s.sequence + 1,
            !.previous_state = s.state,
            !.state = state,
            !.budget_state = ConsumedLedger(s.budget_state, delta)]

=============================================================================
