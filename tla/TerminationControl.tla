--------------------------- MODULE TerminationControl ---------------------------
(***************************************************************************)
(* The propagation of termination.py as operators on immutable values.  One *)
(* execution is modelled, so the request, decision and correlation          *)
(* identities that bind these values to it, and a target's kind and         *)
(* substrate, which no operation looks at, are left out.                    *)
(***************************************************************************)
EXTENDS TerminationRequirement, FiniteSets

CONSTANT Target    \* target_ref values of the execution's components

ASSUME TargetAssumption == IsFiniteSet(Target)

AcknowledgementState == {"STOPPED", "CLEANUP_PENDING", "FAILED_TO_STOP"}
Acknowledgements ==
  [target_ref : Target, state : AcknowledgementState, acknowledged_at : Time]

-----------------------------------------------------------------------------
(* TerminationPropagation with what its constructor requires.  Both tuples  *)
(* of the code are kept sorted and free of duplicates: they are sets here.  *)
Propagations ==
  {p \in [reason : PropagationReason, triggered_at : Time, started_at : Time,
          deadline : Time, targets : SUBSET Target,
          acknowledgements : SUBSET Acknowledgements, sequence : Nat] :
     /\ p.triggered_at <= p.started_at
     /\ p.started_at < p.deadline
     /\ \A a, b \in p.acknowledgements : a.target_ref = b.target_ref => a = b
     /\ \A a \in p.acknowledgements :
          a.target_ref \in p.targets /\ a.acknowledged_at >= p.started_at
     /\ IsFiniteSet(p.acknowledgements)
     /\ p.sequence = Cardinality(p.acknowledgements)}

(* There is no propagation yet. *)
NoPropagation ==
  [reason |-> NoReason, triggered_at |-> NoTime, started_at |-> NoTime, deadline |-> NoTime,
   targets |-> {}, acknowledgements |-> {}, sequence |-> 0]

(* begin_termination_propagation.  It looks at the requirement, not at the  *)
(* lifecycle's present state.                                               *)
CanBegin(requirement, stop_deadline) ==
  /\ requirement.reason \in PropagationReason
  /\ stop_deadline > requirement.evaluated_at

NewPropagation(requirement, targets, stop_deadline) ==
  [reason |-> requirement.reason,
   triggered_at |-> requirement.triggered_at,
   started_at |-> requirement.evaluated_at,
   deadline |-> stop_deadline,
   targets |-> targets,
   acknowledgements |-> {},
   sequence |-> 0]

Acknowledged(p) == {a.target_ref : a \in p.acknowledgements}

(* Mutated form: a target may acknowledge again. *)
CanAcknowledgeAgain(p, ack) ==
  ack.target_ref \in p.targets /\ ack.acknowledged_at >= p.started_at

(* Mutated form: a late acknowledgement is refused instead of reported. *)
CanAcknowledgeInTime(p, ack) ==
  /\ ack.target_ref \in p.targets \ Acknowledged(p)
  /\ ack.acknowledged_at >= p.started_at
  /\ ack.acknowledged_at <= p.deadline

(* acknowledge_termination_target *)
CanAcknowledge(p, ack) ==
  /\ ack.target_ref \in p.targets
  /\ ack.target_ref \notin Acknowledged(p)
  /\ ack.acknowledged_at >= p.started_at

WithAcknowledgement(p, ack) ==
  [p EXCEPT !.acknowledgements = p.acknowledgements \cup {ack},
            !.sequence = p.sequence + 1]

-----------------------------------------------------------------------------
(* evaluate_termination_propagation *)
PendingTargets(p) == p.targets \ Acknowledged(p)
InState(p, state) == {a.target_ref : a \in {b \in p.acknowledgements : b.state = state}}

(* Mutated form: only failures are compared with the deadline. *)
LateTargetsFailedOnly(p) ==
  {a.target_ref : a \in {b \in p.acknowledgements :
                           b.state = "FAILED_TO_STOP" /\ b.acknowledged_at > p.deadline}}

LateTargets(p) ==
  {a.target_ref : a \in {b \in p.acknowledgements : b.acknowledged_at > p.deadline}}

(* Mutated form: an answer from every target completes the stop. *)
StatusWhenAnswered(p) ==
  IF PendingTargets(p) = {} THEN "COMPLETE"
  ELSE IF InState(p, "FAILED_TO_STOP") # {} THEN "FAILED"
  ELSE "PENDING"

(* Mutated form: cleanup that is still pending is forgotten. *)
StatusWithoutCleanup(p) ==
  IF InState(p, "FAILED_TO_STOP") # {} THEN "FAILED"
  ELSE IF PendingTargets(p) = {} THEN "COMPLETE"
  ELSE "PENDING"

Status(p) ==
  IF InState(p, "FAILED_TO_STOP") # {} THEN "FAILED"
  ELSE IF PendingTargets(p) = {} /\ InState(p, "CLEANUP_PENDING") = {} THEN "COMPLETE"
  ELSE "PENDING"

DeadlineExceeded(p, now) ==
  LateTargets(p) # {} \/ (now >= p.deadline /\ Status(p) # "COMPLETE")

=============================================================================
