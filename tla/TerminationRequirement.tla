------------------------- MODULE TerminationRequirement -------------------------
(***************************************************************************)
(* evaluate_termination_requirement of termination.py: must one execution   *)
(* stop, and since when?  The request, decision and correlation identities  *)
(* that bind the answer to the execution are left to its users.             *)
(***************************************************************************)
EXTENDS Integers

Time == Nat
NoTime == -1       \* None, for a time that is absent

PropagationReason == {"CANCELLATION", "DEADLINE"}
TerminationReason == PropagationReason \cup {"TERMINAL_STATE"}
NoReason == "NONE"

-----------------------------------------------------------------------------
(* TerminationRequirement with what its constructor requires. *)
Requirements ==
  {r \in [evaluated_at : Time, required : BOOLEAN,
          reason : TerminationReason \cup {NoReason}, triggered_at : Time \cup {NoTime}] :
     /\ r.required <=> r.reason # NoReason
     /\ r.required <=> r.triggered_at # NoTime
     /\ r.triggered_at <= r.evaluated_at}

Reached(time, now) == time # NoTime /\ time <= now

(* Mutated form: the deadline is reported whenever it has been reached. *)
StopReasonDeadlineFirst(terminal, cancellation_at, deadline, now) ==
  IF terminal THEN "TERMINAL_STATE"
  ELSE IF Reached(deadline, now) THEN "DEADLINE"
  ELSE IF Reached(cancellation_at, now) THEN "CANCELLATION"
  ELSE NoReason

(* A terminal lifecycle comes first, then the earlier of the stop conditions *)
(* that have been reached, the deadline when both fall on one instant.       *)
StopReason(terminal, cancellation_at, deadline, now) ==
  IF terminal THEN "TERMINAL_STATE"
  ELSE IF /\ Reached(deadline, now)
          /\ Reached(cancellation_at, now) => deadline <= cancellation_at
       THEN "DEADLINE"
  ELSE IF Reached(cancellation_at, now) THEN "CANCELLATION"
  ELSE NoReason

(* evaluate_termination_requirement *)
RequirementAt(terminal, cancellation_at, deadline, now) ==
  LET reason == StopReason(terminal, cancellation_at, deadline, now)
  IN [evaluated_at |-> now,
      required |-> reason # NoReason,
      reason |-> reason,
      triggered_at |-> CASE reason = "TERMINAL_STATE" -> now
                         [] reason = "DEADLINE"       -> deadline
                         [] reason = "CANCELLATION"   -> cancellation_at
                         [] OTHER                     -> NoTime]

=============================================================================
