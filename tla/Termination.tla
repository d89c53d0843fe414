------------------------------ MODULE Termination ------------------------------
(***************************************************************************)
(* One execution, its controller and its active components, stopped through *)
(* termination.py.  Time, the lifecycle and the components belong to other  *)
(* owners: the code receives every instant and every acknowledgement as a   *)
(* parameter, so they may reach it late, twice, out of order or not at all. *)
(* The controller keeps the last TerminationRequirement and the last        *)
(* TerminationPropagation it was given; a call that raises leaves both.     *)
(***************************************************************************)
EXTENDS TerminationControl

CONSTANTS RequestDeadline,  \* possible request.deadline values, NoTime among them or not
          CancellationTime, \* instants from which an execution may be cancelled
          StopWindow,       \* time granted for stopping, counted from the evaluation
          MaxTime,          \* bound: the clock stops here
          MaxBegun          \* bound: propagations begun for the execution

ASSUME TimeAssumption ==
  /\ RequestDeadline \subseteq (Time \ {0}) \cup {NoTime}
  /\ CancellationTime \subseteq Time
  /\ StopWindow \subseteq Nat \ {0}
  /\ MaxTime \in Time /\ MaxBegun \in Nat

VARIABLES
  now,            \* the clock, counted from the request's admission
  deadline,       \* request.deadline
  cancelled_at,   \* the instant from which the execution is cancelled, or NoTime
  heard,          \* has the controller been told?
  terminal,       \* has the lifecycle ended?
  requirement,    \* the controller's last TerminationRequirement
  component,      \* external: what each component is really doing
  stopped_at,     \* external: when it really stopped, or NoTime
  messages,       \* external: every acknowledgement ever sent
  propagation,    \* the controller's TerminationPropagation
  begun           \* how many propagations were begun; 0: there is none

vars == <<now, deadline, cancelled_at, heard, terminal, requirement, component,
          stopped_at, messages, propagation, begun>>
stop == <<propagation, begun>>
world == <<component, stopped_at, messages>>

Active == {t \in Target : component[t] \in {"active", "cleaning"}}
Declared == IF begun > 0 THEN propagation.targets ELSE {}

Init ==
  /\ now = 0
  /\ deadline \in RequestDeadline
  /\ cancelled_at = NoTime
  /\ heard = FALSE
  /\ terminal = FALSE
  /\ requirement = RequirementAt(FALSE, NoTime, deadline, 0)
  /\ component = [t \in Target |-> "idle"]
  /\ stopped_at = [t \in Target |-> NoTime]
  /\ messages = {}
  /\ propagation = NoPropagation
  /\ begun = 0

-----------------------------------------------------------------------------
(* The surroundings. *)

Tick ==
  /\ now < MaxTime
  /\ now' = now + 1
  /\ UNCHANGED <<deadline, cancelled_at, heard, terminal, requirement, world, stop>>

(* A cancellation takes effect at once or at an instant announced ahead. *)
RequestCancellation(at) ==
  /\ cancelled_at = NoTime
  /\ now <= at
  /\ cancelled_at' = at
  /\ UNCHANGED <<now, deadline, heard, terminal, requirement, world, stop>>

HearCancellation ==
  /\ cancelled_at # NoTime /\ ~heard
  /\ heard' = TRUE
  /\ UNCHANGED <<now, deadline, cancelled_at, terminal, requirement, world, stop>>

EndLifecycle ==
  /\ ~terminal
  /\ terminal' = TRUE
  /\ UNCHANGED <<now, deadline, cancelled_at, heard, requirement, world, stop>>

(* A component may start until a propagation blocks new side effects. *)
StartComponent(t) ==
  /\ begun = 0
  /\ component[t] = "idle"
  /\ component' = [component EXCEPT ![t] = "active"]
  /\ UNCHANGED <<now, deadline, cancelled_at, heard, terminal, requirement,
                 stopped_at, messages, stop>>

(* A declared component stops its work; some have cleanup left to do. *)
StopComponent(t) ==
  /\ t \in Declared
  /\ \/ component[t] = "active" /\ component' = [component EXCEPT ![t] = "cleaning"]
     \/ component[t] \in {"active", "cleaning"} /\ component' = [component EXCEPT ![t] = "stopped"]
  /\ stopped_at' = IF component'[t] = "stopped" THEN [stopped_at EXCEPT ![t] = now]
                                                ELSE stopped_at
  /\ UNCHANGED <<now, deadline, cancelled_at, heard, terminal, requirement,
                 messages, stop>>

(* What a component can truthfully answer; each answer is sent once. *)
TruthfulState(t) ==
  CASE component[t] = "active"   -> "FAILED_TO_STOP"
    [] component[t] = "cleaning" -> "CLEANUP_PENDING"
    [] OTHER                     -> "STOPPED"

Answer(t) ==
  /\ t \in Declared
  /\ \A m \in messages : ~(m.target_ref = t /\ m.state = TruthfulState(t))
  /\ messages' = messages \cup
       {[target_ref |-> t, state |-> TruthfulState(t), acknowledged_at |-> now]}
  /\ UNCHANGED <<now, deadline, cancelled_at, heard, terminal, requirement,
                 component, stopped_at, stop>>

-----------------------------------------------------------------------------
(* The calls of the controller. *)

EvaluateTerminationRequirement ==
  /\ requirement' =
       RequirementAt(terminal, IF heard THEN cancelled_at ELSE NoTime, deadline, now)
  /\ UNCHANGED <<now, deadline, cancelled_at, heard, terminal, world, stop>>

(* The active components are listed when the propagation begins; the        *)
(* requirement may have been evaluated long before.                         *)
BeginTerminationPropagation(window) ==
  LET stop_deadline == requirement.evaluated_at + window
  IN /\ begun < MaxBegun
     /\ CanBegin(requirement, stop_deadline)
     /\ propagation' = NewPropagation(requirement, Active, stop_deadline)
     /\ begun' = begun + 1
     /\ UNCHANGED <<now, deadline, cancelled_at, heard, terminal, requirement, world>>

AcknowledgeTerminationTarget(ack) ==
  /\ begun > 0
  /\ CanAcknowledge(propagation, ack)
  /\ propagation' = WithAcknowledgement(propagation, ack)
  /\ UNCHANGED <<now, deadline, cancelled_at, heard, terminal, requirement, world, begun>>

Deliver == \E ack \in messages : AcknowledgeTerminationTarget(ack)

Next ==
  \/ Tick \/ HearCancellation \/ EndLifecycle
  \/ \E at \in CancellationTime : RequestCancellation(at)
  \/ \E t \in Target : StartComponent(t) \/ StopComponent(t) \/ Answer(t)
  \/ EvaluateTerminationRequirement
  \/ \E window \in StopWindow : BeginTerminationPropagation(window)
  \/ Deliver

Spec == Init /\ [][Next]_vars

(* Owners of components stop and answer, and their answers arrive.  None of *)
(* it is the code's doing: without it no stop can be concluded.             *)
FairSpec ==
  /\ Spec
  /\ \A t \in Target : WF_vars(StopComponent(t)) /\ WF_vars(Answer(t))
  /\ WF_vars(Deliver)

-----------------------------------------------------------------------------
(* Every value held satisfies the checks of its constructor, and the        *)
(* surroundings are of their types.                                         *)
TypeOK ==
  /\ now \in Time
  /\ deadline \in Time \cup {NoTime}
  /\ cancelled_at \in Time \cup {NoTime}
  /\ heard \in BOOLEAN /\ (heard => cancelled_at # NoTime)
  /\ terminal \in BOOLEAN
  /\ requirement \in Requirements /\ requirement.evaluated_at <= now
  /\ component \in [Target -> {"idle", "active", "cleaning", "stopped"}]
  /\ stopped_at \in [Target -> Time \cup {NoTime}]
  /\ messages \subseteq Acknowledgements
  /\ begun \in Nat
  /\ begun = 0 => propagation = NoPropagation
  /\ begun > 0 => propagation \in Propagations /\ propagation.started_at <= now

(* A stop that is reported COMPLETE has really happened: no component of    *)
(* the execution is active or cleaning up, whatever became of the           *)
(* acknowledgements on their way (evaluate_termination_propagation:         *)
(* COMPLETE only when every target is stopped and no cleanup is pending).   *)
CompleteIsTrue ==
  begun > 0 /\ Status(propagation) = "COMPLETE" => Active = {}

(* A complete stop that is not reported as deadline_exceeded was in time:   *)
(* every target had stopped by the propagation deadline, even if its        *)
(* acknowledgement was delivered much later.                                *)
TimelyVerdictIsTrue ==
  (begun > 0 /\ Status(propagation) = "COMPLETE" /\ ~DeadlineExceeded(propagation, now)) =>
    \A t \in propagation.targets : stopped_at[t] <= propagation.deadline

(* No target is stranded: as long as a target is pending, it is still        *)
(* working, or has yet to say that it stopped, or something it said is       *)
(* accepted by this very propagation, however late it was said and whatever  *)
(* was left over from the propagation before.  This is what the conclusion   *)
(* of a stop rests on (acknowledge_termination_target: nothing but a         *)
(* repeated or a too early answer is refused).                               *)
NoTargetIsStranded ==
  begun > 0 =>
    \A t \in PendingTargets(propagation) :
      \/ component[t] \in {"active", "cleaning"}
      \/ ~\E m \in messages : m.target_ref = t /\ m.state = "STOPPED"
      \/ \E m \in messages : m.target_ref = t /\ CanAcknowledge(propagation, m)

(* No acknowledgement, in whatever order it arrives, takes back a verdict   *)
(* on a propagation: FAILED stays FAILED, COMPLETE is the end, and recorded *)
(* cleanup keeps it from ever becoming COMPLETE, because a target           *)
(* acknowledges once.  Only deadline_exceeded can be withdrawn, by          *)
(* acknowledgements that were all given in time and complete the stop.      *)
VerdictsAreFinal ==
  [][begun > 0 /\ begun' = begun =>
       LET p == propagation
           q == propagation'
       IN /\ Status(p) = "FAILED" => Status(q) = "FAILED"
          /\ Status(p) = "COMPLETE" => q = p
          /\ InState(p, "CLEANUP_PENDING") # {} => Status(q) # "COMPLETE"
          /\ DeadlineExceeded(p, now) =>
               \/ DeadlineExceeded(q, now')
               \/ Status(q) = "COMPLETE" /\ LateTargets(q) = {}]_vars

(* Once the controller has found that it must stop it never finds the       *)
(* contrary, and news of a cancellation that comes late can only move the   *)
(* instant from which the execution had to stop to an earlier one, until    *)
(* the lifecycle ends (evaluate_termination_requirement).                   *)
StopConditionLatched ==
  [][requirement.required =>
       /\ requirement'.required
       /\ \/ requirement'.reason = "TERMINAL_STATE"
          \/ requirement'.triggered_at <= requirement.triggered_at]_vars

(* If components stop and answer and answers arrive, the stop is concluded, *)
(* COMPLETE or FAILED, unless a component's cleanup was recorded as         *)
(* pending: no late or repeated acknowledgement leaves it undecided.        *)
StopConcludes ==
  <>[](begun > 0 => \/ Status(propagation) # "PENDING"
                    \/ InState(propagation, "CLEANUP_PENDING") # {})

(* Termination keeps the promise of SafeStop. *)
Promise == INSTANCE SafeStop
  WITH Component <- Target, working <- Active, stopping <- begun > 0,
       concluded <- begun > 0 /\ Status(propagation) = "COMPLETE"
SafeStopPromise == Promise!Spec

=============================================================================
