--------------------------- MODULE TerminationProofs ---------------------------
(***************************************************************************)
(* Proofs about Termination for every finite set of components, every       *)
(* request deadline, stop window and bound.                                 *)
(***************************************************************************)
EXTENDS Termination, SharedLemmas, FiniteSetTheorems, TLAPS

-----------------------------------------------------------------------------
(* The operations return well-formed values. *)

(* begin_termination_propagation passes the checks of its constructor. *)
LEMMA NewPropagationType ==
  ASSUME NEW r \in Requirements, NEW targets \in SUBSET Target, NEW limit \in Time,
         CanBegin(r, limit)
  PROVE  NewPropagation(r, targets, limit) \in Propagations
  <1>1. r.triggered_at \in Time /\ r.triggered_at <= r.evaluated_at /\ r.evaluated_at \in Time
    BY DEF CanBegin, Requirements, PropagationReason, NoReason, NoTime, Time
  <1>2. IsFiniteSet({}) /\ Cardinality({}) = 0
    BY FS_EmptySet
  <1>3. QED
    BY <1>1, <1>2 DEF CanBegin, NewPropagation, Propagations, Time

(* acknowledge_termination_target passes the checks of its constructor:     *)
(* one acknowledgement per target, counted exactly by the sequence.         *)
LEMMA WithAcknowledgementType ==
  ASSUME NEW p \in Propagations, NEW ack \in Acknowledgements, CanAcknowledge(p, ack)
  PROVE  /\ WithAcknowledgement(p, ack) \in Propagations
         /\ WithAcknowledgement(p, ack) =
              [p EXCEPT !.acknowledgements = p.acknowledgements \cup {ack},
                        !.sequence = p.sequence + 1]
  <1> DEFINE q == WithAcknowledgement(p, ack)
             new == p.acknowledgements \cup {ack}
  <1>1. p \in [reason : PropagationReason, triggered_at : Time, started_at : Time,
               deadline : Time, targets : SUBSET Target,
               acknowledgements : SUBSET Acknowledgements, sequence : Nat]
    BY DEF Propagations
  <1>2. ack \notin p.acknowledgements
    BY DEF CanAcknowledge, Acknowledged
  <1>3. IsFiniteSet(new) /\ Cardinality(new) = p.sequence + 1
    BY <1>2, FS_AddElement DEF Propagations
  <1>4. q \in [reason : PropagationReason, triggered_at : Time, started_at : Time,
               deadline : Time, targets : SUBSET Target,
               acknowledgements : SUBSET Acknowledgements, sequence : Nat]
    <2>1. new \in SUBSET Acknowledgements /\ p.sequence + 1 \in Nat
      BY <1>1
    <2> HIDE DEF new
    <2>2. q = [p EXCEPT !.acknowledgements = new, !.sequence = p.sequence + 1]
      BY DEF WithAcknowledgement, new
    <2>3. QED
      BY <1>1, <2>1, <2>2
  <1>5. /\ q.acknowledgements = new /\ q.sequence = p.sequence + 1
        /\ q.targets = p.targets /\ q.started_at = p.started_at
        /\ q.triggered_at = p.triggered_at /\ q.deadline = p.deadline
    BY <1>1 DEF WithAcknowledgement
  <1>6. \A a, b \in new : a.target_ref = b.target_ref => a = b
    BY DEF CanAcknowledge, Acknowledged, Propagations
  <1>7. \A a \in new : a.target_ref \in p.targets /\ a.acknowledged_at >= p.started_at
    BY DEF CanAcknowledge, Propagations
  <1>8. QED
    BY <1>3, <1>4, <1>5, <1>6, <1>7 DEF Propagations, WithAcknowledgement

-----------------------------------------------------------------------------
(* Whatever arrives late, twice or out of order, the values held are well   *)
(* formed: no constructor check makes an accepted call raise.               *)
THEOREM TypeCorrect == Spec => []TypeOK
  <1>1. Init => TypeOK
    <2> SUFFICES ASSUME Init PROVE TypeOK
      OBVIOUS
    <2>1. deadline \in Time \cup {NoTime} /\ now \in Time
      BY TimeAssumption DEF Init, Time
    <2>2. requirement \in Requirements /\ requirement.evaluated_at = 0
      BY <2>1, RequirementType DEF Init
    <2>3. NoTime \in Time \cup {NoTime} /\ 0 \in Nat
      OBVIOUS
    <2>4. /\ component \in [Target -> {"idle", "active", "cleaning", "stopped"}]
          /\ stopped_at \in [Target -> Time \cup {NoTime}]
      BY <2>3 DEF Init
    <2>5. messages \subseteq Acknowledgements
      BY DEF Init
    <2>6. now = 0 /\ begun = 0
      BY DEF Init
    <2>7. requirement.evaluated_at <= now
      BY <2>2, <2>6
    <2>8. cancelled_at \in Time \cup {NoTime} /\ heard \in BOOLEAN /\ ~heard
      BY <2>3 DEF Init
    <2>9. terminal \in BOOLEAN /\ propagation = NoPropagation
      BY DEF Init
    <2>10. QED
      BY <2>1, <2>2, <2>4, <2>5, <2>6, <2>7, <2>8, <2>9 DEF TypeOK
  <1>2. TypeOK /\ [Next]_vars => TypeOK'
    <2> SUFFICES ASSUME TypeOK, [Next]_vars PROVE TypeOK'
      OBVIOUS
    <2> USE DEF TypeOK, world, stop
    <2>1. CASE Tick
      BY <2>1 DEF Tick, Time, Requirements, Propagations
    <2>2. ASSUME NEW at \in CancellationTime, RequestCancellation(at) PROVE TypeOK'
      BY <2>2, TimeAssumption DEF RequestCancellation
    <2>3. CASE HearCancellation
      BY <2>3 DEF HearCancellation
    <2>4. CASE EndLifecycle
      BY <2>4 DEF EndLifecycle
    <2>5. ASSUME NEW t \in Target, StartComponent(t) PROVE TypeOK'
      BY <2>5 DEF StartComponent
    <2>6. ASSUME NEW t \in Target, StopComponent(t) PROVE TypeOK'
      BY <2>6 DEF StopComponent
    <2>7. ASSUME NEW t \in Target, Answer(t) PROVE TypeOK'
      BY <2>7 DEF Answer, Acknowledgements, AcknowledgementState, TruthfulState
    <2>8. CASE EvaluateTerminationRequirement
      <3> DEFINE at == IF heard THEN cancelled_at ELSE NoTime
      <3>1. at \in Time \cup {NoTime}
        OBVIOUS
      <3>2. requirement' = RequirementAt(terminal, at, deadline, now)
        BY <2>8 DEF EvaluateTerminationRequirement
      <3> HIDE DEF at
      <3>3. requirement' \in Requirements /\ requirement'.evaluated_at = now
        BY <3>1, <3>2, RequirementType
      <3>4. QED
        BY <2>8, <3>3 DEF EvaluateTerminationRequirement, Time
    <2>9. ASSUME NEW window \in StopWindow, BeginTerminationPropagation(window)
          PROVE  TypeOK'
      <3> DEFINE limit == requirement.evaluated_at + window
      <3>1. limit \in Time /\ Active \in SUBSET Target
        BY TimeAssumption DEF Requirements, Time, Active
      <3>2. NewPropagation(requirement, Active, limit) \in Propagations
        BY <2>9, <3>1, NewPropagationType DEF BeginTerminationPropagation
      <3>3. NewPropagation(requirement, Active, limit).started_at = requirement.evaluated_at
        BY DEF NewPropagation
      <3>4. QED
        BY <2>9, <3>2, <3>3 DEF BeginTerminationPropagation
    <2>10. CASE Deliver
      <3>1. PICK ack \in messages : AcknowledgeTerminationTarget(ack)
        BY <2>10 DEF Deliver
      <3>2. /\ propagation \in Propagations /\ ack \in Acknowledgements
            /\ CanAcknowledge(propagation, ack)
            /\ propagation' = WithAcknowledgement(propagation, ack)
        BY <3>1 DEF AcknowledgeTerminationTarget
      <3>3. propagation' \in Propagations
        BY <3>2, WithAcknowledgementType
      <3>4. propagation'.started_at = propagation.started_at
        BY <3>2 DEF WithAcknowledgement, Propagations
      <3>5. QED
        BY <3>1, <3>2, <3>3, <3>4 DEF AcknowledgeTerminationTarget
    <2>11. CASE UNCHANGED vars
      BY <2>11 DEF vars
    <2>12. QED
      BY <2>1, <2>2, <2>3, <2>4, <2>5, <2>6, <2>7, <2>8, <2>9, <2>10, <2>11 DEF Next
  <1>3. QED
    BY <1>1, <1>2, PTL DEF Spec

-----------------------------------------------------------------------------
(* What lies behind the acknowledgements: nobody answers from the future,   *)
(* STOPPED is only said by a component that has stopped and stays so, the    *)
(* propagation records only what was said and names every component that    *)
(* is still working.                                                        *)
MessagesAreTrue ==
  \A m \in messages :
    /\ m.acknowledged_at <= now
    /\ m.state = "STOPPED" => /\ component[m.target_ref] = "stopped"
                              /\ stopped_at[m.target_ref] <= m.acknowledged_at

PropagationIsGrounded ==
  begun > 0 => /\ propagation.acknowledgements \subseteq messages
               /\ Active \subseteq propagation.targets
               /\ \A t \in propagation.targets : component[t] # "idle"

StopsArePast == \A t \in Target : stopped_at[t] <= now

StopEvidence == MessagesAreTrue /\ PropagationIsGrounded /\ StopsArePast

LEMMA StopEvidenceInductive == TypeOK /\ StopEvidence /\ [Next]_vars => StopEvidence'
  <1> SUFFICES ASSUME TypeOK, StopEvidence, [Next]_vars PROVE StopEvidence'
    OBVIOUS
  <1> USE DEF world, stop
  <1>1. CASE Tick
    <2>1. MessagesAreTrue'
      BY <1>1 DEF Tick, StopEvidence, MessagesAreTrue, TypeOK, Acknowledgements, Time
    <2>2. PropagationIsGrounded'
      BY <1>1 DEF Tick, StopEvidence, PropagationIsGrounded, Active
    <2>3. StopsArePast'
      BY <1>1 DEF Tick, StopEvidence, StopsArePast, TypeOK, Time, NoTime
    <2>4. QED
      BY <2>1, <2>2, <2>3 DEF StopEvidence
  <1>2. CASE \/ \E at \in CancellationTime : RequestCancellation(at)
             \/ HearCancellation \/ EndLifecycle
             \/ EvaluateTerminationRequirement \/ UNCHANGED vars
    BY <1>2 DEF RequestCancellation, HearCancellation, EndLifecycle, vars,
       EvaluateTerminationRequirement, StopEvidence, MessagesAreTrue, PropagationIsGrounded,
       StopsArePast, Active
  <1>3. ASSUME NEW t \in Target, StartComponent(t) PROVE StopEvidence'
    <2>1. MessagesAreTrue'
      BY <1>3 DEF StartComponent, StopEvidence, MessagesAreTrue, TypeOK, Acknowledgements
    <2>2. PropagationIsGrounded'
      BY <1>3 DEF StartComponent, PropagationIsGrounded
    <2>3. StopsArePast'
      BY <1>3 DEF StartComponent, StopEvidence, StopsArePast
    <2>4. QED
      BY <2>1, <2>2, <2>3 DEF StopEvidence
  <1>4. ASSUME NEW t \in Target, StopComponent(t) PROVE StopEvidence'
    <2>1. component[t] \in {"active", "cleaning"} /\ component'[t] \in {"cleaning", "stopped"}
      BY <1>4 DEF StopComponent, TypeOK
    <2>2. \A u \in Target \ {t} : component'[u] = component[u] /\ stopped_at'[u] = stopped_at[u]
      BY <1>4 DEF StopComponent, TypeOK
    <2>3. MessagesAreTrue'
      BY <1>4, <2>1, <2>2
      DEF StopComponent, StopEvidence, MessagesAreTrue, TypeOK, Acknowledgements
    <2>4. PropagationIsGrounded'
      <3>1. /\ begun > 0 /\ t \in propagation.targets /\ UNCHANGED <<messages, stop>>
            /\ Active \subseteq propagation.targets
        BY <1>4 DEF StopComponent, Declared, StopEvidence, PropagationIsGrounded
      <3>2. Active' \subseteq Active \cup {t}
        BY <2>2 DEF Active
      <3>3. \A u \in propagation.targets : component'[u] # "idle"
        <4>1. propagation.targets \subseteq Target
          BY <3>1 DEF TypeOK, Propagations
        <4>2. QED
          BY <2>1, <2>2, <3>1, <4>1 DEF StopEvidence, PropagationIsGrounded
      <3>4. QED
        BY <3>1, <3>2, <3>3 DEF StopEvidence, PropagationIsGrounded
    <2>5. StopsArePast'
      <3>1. now' = now /\ stopped_at'[t] \in {stopped_at[t], now}
        BY <1>4 DEF StopComponent, TypeOK
      <3>2. QED
        BY <2>2, <3>1 DEF StopEvidence, StopsArePast, TypeOK, Time
    <2>6. QED
      BY <2>3, <2>4, <2>5 DEF StopEvidence
  <1>5. ASSUME NEW t \in Target, Answer(t) PROVE StopEvidence'
    <2> DEFINE new == [target_ref |-> t, state |-> TruthfulState(t), acknowledged_at |-> now]
    <2>1. messages' = messages \cup {new} /\ UNCHANGED <<now, component, stopped_at, stop>>
      BY <1>5 DEF Answer
    <2>2. component[t] # "idle"
      BY <1>5 DEF Answer, Declared, StopEvidence, PropagationIsGrounded
    <2>3. new.state = "STOPPED" => component[t] = "stopped"
      BY <2>2 DEF TruthfulState, TypeOK
    <2>4. MessagesAreTrue'
      BY <2>1, <2>3 DEF StopEvidence, StopsArePast, MessagesAreTrue, TypeOK, Time
    <2>5. PropagationIsGrounded' /\ StopsArePast'
      BY <2>1 DEF StopEvidence, PropagationIsGrounded, StopsArePast, Active
    <2>6. QED
      BY <2>4, <2>5 DEF StopEvidence
  <1>6. ASSUME NEW window \in StopWindow, BeginTerminationPropagation(window)
        PROVE  StopEvidence'
    <2>1. propagation'.acknowledgements = {} /\ propagation'.targets = Active
      BY <1>6 DEF BeginTerminationPropagation, NewPropagation
    <2>2. PropagationIsGrounded'
      BY <1>6, <2>1 DEF BeginTerminationPropagation, PropagationIsGrounded, Active
    <2>3. MessagesAreTrue' /\ StopsArePast'
      BY <1>6 DEF BeginTerminationPropagation, StopEvidence, MessagesAreTrue, StopsArePast
    <2>4. QED
      BY <2>2, <2>3 DEF StopEvidence
  <1>7. CASE Deliver
    <2>1. PICK ack \in messages : AcknowledgeTerminationTarget(ack)
      BY <1>7 DEF Deliver
    <2>2. propagation \in Propagations /\ begun > 0
      BY <2>1 DEF AcknowledgeTerminationTarget, TypeOK
    <2>3. /\ propagation'.acknowledgements = propagation.acknowledgements \cup {ack}
          /\ propagation'.targets = propagation.targets
      BY <2>1, <2>2 DEF AcknowledgeTerminationTarget, WithAcknowledgement, Propagations
    <2>4. PropagationIsGrounded'
      BY <2>1, <2>3 DEF AcknowledgeTerminationTarget, StopEvidence, PropagationIsGrounded, Active
    <2>5. MessagesAreTrue' /\ StopsArePast'
      BY <2>1 DEF AcknowledgeTerminationTarget, StopEvidence, MessagesAreTrue, StopsArePast
    <2>6. QED
      BY <2>4, <2>5 DEF StopEvidence
  <1>8. QED
    BY <1>1, <1>2, <1>3, <1>4, <1>5, <1>6, <1>7 DEF Next

(* A COMPLETE propagation has a STOPPED acknowledgement of every target.    *)
LEMMA CompleteMeansAnswered ==
  ASSUME NEW p \in Propagations, Status(p) = "COMPLETE", NEW t \in p.targets
  PROVE  \E a \in p.acknowledgements : a.target_ref = t /\ a.state = "STOPPED"
  <1>1. /\ PendingTargets(p) = {}
        /\ InState(p, "FAILED_TO_STOP") = {}
        /\ InState(p, "CLEANUP_PENDING") = {}
    BY DEF Status
  <1>2. PICK a \in p.acknowledgements : a.target_ref = t
    BY <1>1 DEF PendingTargets, Acknowledged
  <1>3. a.state \in AcknowledgementState
    BY DEF Propagations, Acknowledgements
  <1>4. a.state # "FAILED_TO_STOP" /\ a.state # "CLEANUP_PENDING"
    BY <1>1 DEF InState
  <1>5. QED
    BY <1>2, <1>3, <1>4 DEF AcknowledgementState

THEOREM StopEvidenceHolds == Spec => [](TypeOK /\ StopEvidence)
  <1>1. Init => StopEvidence
    BY DEF Init, StopEvidence, MessagesAreTrue, PropagationIsGrounded, StopsArePast, NoTime
  <1>2. QED
    BY <1>1, TypeCorrect, StopEvidenceInductive, PTL DEF Spec

(* COMPLETE is true of the world, for every set of components and however    *)
(* the acknowledgements arrive.                                              *)
THEOREM CompleteIsTrueHolds == Spec => []CompleteIsTrue
  <1>1. TypeOK /\ StopEvidence => CompleteIsTrue
    <2> SUFFICES ASSUME TypeOK, StopEvidence, begun > 0, Status(propagation) = "COMPLETE",
                        NEW t \in Active
                 PROVE  FALSE
      BY DEF CompleteIsTrue
    <2>1. propagation \in Propagations /\ t \in propagation.targets
      BY DEF TypeOK, StopEvidence, PropagationIsGrounded
    <2>2. PICK a \in propagation.acknowledgements : a.target_ref = t /\ a.state = "STOPPED"
      BY <2>1, CompleteMeansAnswered
    <2>3. component[t] = "stopped"
      BY <2>2 DEF StopEvidence, MessagesAreTrue, PropagationIsGrounded
    <2>4. QED
      BY <2>3 DEF Active
  <1>2. QED
    BY <1>1, StopEvidenceHolds, PTL

(* A COMPLETE stop that is not late was in time for every target.           *)
THEOREM TimelyVerdictHolds == Spec => []TimelyVerdictIsTrue
  <1>1. TypeOK /\ StopEvidence => TimelyVerdictIsTrue
    <2> SUFFICES ASSUME TypeOK, StopEvidence, begun > 0, Status(propagation) = "COMPLETE",
                        ~DeadlineExceeded(propagation, now),
                        NEW t \in propagation.targets
                 PROVE  stopped_at[t] <= propagation.deadline
      BY DEF TimelyVerdictIsTrue
    <2>1. propagation \in Propagations
      BY DEF TypeOK
    <2>2. PICK a \in propagation.acknowledgements : a.target_ref = t /\ a.state = "STOPPED"
      BY <2>1, CompleteMeansAnswered
    <2>3. ~(a.acknowledged_at > propagation.deadline)
      BY <2>2 DEF DeadlineExceeded, LateTargets
    <2>4. stopped_at[t] <= a.acknowledged_at
      BY <2>2 DEF StopEvidence, MessagesAreTrue, PropagationIsGrounded
    <2>5. /\ a.acknowledged_at \in Int /\ propagation.deadline \in Int
          /\ stopped_at[t] \in Int
      BY <2>1, <2>2 DEF Propagations, Acknowledgements, Time, NoTime, TypeOK
    <2>6. QED
      BY <2>3, <2>4, <2>5
  <1>2. QED
    BY <1>1, StopEvidenceHolds, PTL

-----------------------------------------------------------------------------
(* Recording an acknowledgement only adds to what was recorded. *)
LEMMA AcknowledgementAdds ==
  ASSUME NEW p \in Propagations, NEW ack \in Acknowledgements, CanAcknowledge(p, ack),
         NEW q, q = WithAcknowledgement(p, ack)
  PROVE  /\ q.acknowledgements = p.acknowledgements \cup {ack}
         /\ q.targets = p.targets /\ q.deadline = p.deadline
         /\ \A s : InState(p, s) \subseteq InState(q, s)
         /\ LateTargets(p) \subseteq LateTargets(q)
         /\ ack.target_ref \in PendingTargets(p)
  <1>1. /\ q.acknowledgements = p.acknowledgements \cup {ack}
        /\ q.targets = p.targets /\ q.deadline = p.deadline
    BY DEF WithAcknowledgement, Propagations
  <1>2. \A s : InState(p, s) \subseteq InState(q, s)
    BY <1>1 DEF InState
  <1>3. LateTargets(p) \subseteq LateTargets(q)
    BY <1>1 DEF LateTargets
  <1>4. ack.target_ref \in PendingTargets(p)
    BY DEF CanAcknowledge, PendingTargets
  <1>5. QED
    BY <1>1, <1>2, <1>3, <1>4

(* The order in which two acknowledgements arrive decides nothing: when one  *)
(* is accepted and then the other, so they are in the other order, and the   *)
(* propagation that results is the same value, with every verdict on it.     *)
THEOREM AcknowledgementsCommute ==
  ASSUME NEW p \in Propagations, NEW a \in Acknowledgements, NEW b \in Acknowledgements,
         CanAcknowledge(p, a), CanAcknowledge(WithAcknowledgement(p, a), b)
  PROVE  /\ CanAcknowledge(p, b)
         /\ CanAcknowledge(WithAcknowledgement(p, b), a)
         /\ WithAcknowledgement(WithAcknowledgement(p, a), b)
              = WithAcknowledgement(WithAcknowledgement(p, b), a)
  <1> DEFINE pa == WithAcknowledgement(p, a)
             pb == WithAcknowledgement(p, b)
  <1>1. /\ pa.targets = p.targets /\ pa.started_at = p.started_at
        /\ pa.acknowledgements = p.acknowledgements \cup {a}
    BY DEF WithAcknowledgement, Propagations
  <1>2. /\ b.target_ref \in p.targets /\ b.acknowledged_at >= p.started_at
        /\ b.target_ref \notin Acknowledged(p) /\ b.target_ref # a.target_ref
    BY <1>1 DEF CanAcknowledge, Acknowledged
  <1>3. CanAcknowledge(p, b)
    BY <1>2 DEF CanAcknowledge
  <1>4. /\ pb.targets = p.targets /\ pb.started_at = p.started_at
        /\ pb.acknowledgements = p.acknowledgements \cup {b}
    BY DEF WithAcknowledgement, Propagations
  <1>5. CanAcknowledge(pb, a)
    BY <1>2, <1>4 DEF CanAcknowledge, Acknowledged
  <1>6. WithAcknowledgement(pa, b) = WithAcknowledgement(pb, a)
    <2>1. p \in [reason : PropagationReason, triggered_at : Time, started_at : Time,
                 deadline : Time, targets : SUBSET Target,
                 acknowledgements : SUBSET Acknowledgements, sequence : Nat]
      BY DEF Propagations
    <2>2. (p.acknowledgements \cup {a}) \cup {b} = (p.acknowledgements \cup {b}) \cup {a}
      OBVIOUS
    <2>3. QED
      BY <2>1, <2>2 DEF WithAcknowledgement
  <1>7. QED
    BY <1>3, <1>5, <1>6

(* No acknowledgement takes a verdict back, for every set of components.    *)
THEOREM VerdictsAreFinalHolds == Spec => VerdictsAreFinal
  <1> DEFINE p == propagation
             q == propagation'
             Final ==
               begun > 0 /\ begun' = begun =>
                 /\ Status(p) = "FAILED" => Status(q) = "FAILED"
                 /\ Status(p) = "COMPLETE" => q = p
                 /\ InState(p, "CLEANUP_PENDING") # {} => Status(q) # "COMPLETE"
                 /\ DeadlineExceeded(p, now) =>
                      \/ DeadlineExceeded(q, now')
                      \/ Status(q) = "COMPLETE" /\ LateTargets(q) = {}
  <1>1. TypeOK /\ [Next]_vars => Final
    <2> SUFFICES ASSUME TypeOK, [Next]_vars, begun > 0, begun' = begun PROVE Final
      OBVIOUS
    <2>1. p \in Propagations
      BY DEF TypeOK
    <2>2. CASE q = p /\ now' \in {now, now + 1}
      <3>1. p.deadline \in Int /\ now \in Int
        BY <2>1 DEF Propagations, Time, TypeOK
      <3>2. DeadlineExceeded(p, now) => DeadlineExceeded(p, now')
        BY <2>2, <3>1 DEF DeadlineExceeded
      <3>3. InState(p, "CLEANUP_PENDING") # {} => Status(p) # "COMPLETE"
        BY DEF Status
      <3>4. QED
        BY <2>2, <3>2, <3>3
    <2>3. CASE Deliver
      <3>1. PICK ack \in messages : AcknowledgeTerminationTarget(ack)
        BY <2>3 DEF Deliver
      <3>2. /\ ack \in Acknowledgements /\ CanAcknowledge(p, ack)
            /\ q = WithAcknowledgement(p, ack) /\ now' = now
        BY <3>1 DEF AcknowledgeTerminationTarget, TypeOK
      <3>3. /\ q.deadline = p.deadline
            /\ \A s : InState(p, s) \subseteq InState(q, s)
            /\ LateTargets(p) \subseteq LateTargets(q)
            /\ ack.target_ref \in PendingTargets(p)
        BY <2>1, <3>2, AcknowledgementAdds
      <3>4. Status(p) = "FAILED" => Status(q) = "FAILED"
        BY <3>3 DEF Status
      <3>5. Status(p) # "COMPLETE"
        BY <3>3 DEF Status
      <3>6. InState(p, "CLEANUP_PENDING") # {} => Status(q) # "COMPLETE"
        BY <3>3 DEF Status
      <3>7. DeadlineExceeded(p, now) =>
              DeadlineExceeded(q, now') \/ (Status(q) = "COMPLETE" /\ LateTargets(q) = {})
        BY <3>2, <3>3 DEF DeadlineExceeded
      <3>8. QED
        BY <3>4, <3>5, <3>6, <3>7
    <2>4. CASE \E window \in StopWindow : BeginTerminationPropagation(window)
      BY <2>4 DEF BeginTerminationPropagation, TypeOK
    <2>5. QED
      BY <2>2, <2>3, <2>4 DEF Next, vars, stop, world, Tick, RequestCancellation, HearCancellation,
         EndLifecycle, StartComponent, StopComponent, Answer, EvaluateTerminationRequirement
  <1>2. QED
    BY <1>1, TypeCorrect, PTL DEF Spec, VerdictsAreFinal

-----------------------------------------------------------------------------
(* A target was working when the propagation that names it began, so it     *)
(* stopped, if it did, no earlier than the propagation starts.              *)
StopsFollowTheBegin ==
  begun > 0 =>
    \A t \in propagation.targets :
      component[t] = "stopped" => stopped_at[t] >= propagation.started_at

LEMMA StopsFollowInductive ==
  ASSUME TypeOK, StopsFollowTheBegin, [Next]_vars
  PROVE  StopsFollowTheBegin'
  <1> USE DEF world, stop
  <1>1. CASE UNCHANGED <<component, stopped_at, propagation, begun>>
    BY <1>1 DEF StopsFollowTheBegin
  <1>2. ASSUME NEW t \in Target, StartComponent(t) PROVE StopsFollowTheBegin'
    BY <1>2 DEF StartComponent, StopsFollowTheBegin
  <1>3. ASSUME NEW t \in Target, StopComponent(t) PROVE StopsFollowTheBegin'
    <2>1. /\ begun > 0 /\ UNCHANGED <<propagation, begun>>
          /\ propagation.targets \subseteq Target /\ propagation.started_at <= now
      BY <1>3 DEF StopComponent, Declared, TypeOK, Propagations
    <2>2. \A u \in Target \ {t} : component'[u] = component[u] /\ stopped_at'[u] = stopped_at[u]
      BY <1>3 DEF StopComponent, TypeOK
    <2>3. component'[t] = "stopped" => stopped_at'[t] = now
      BY <1>3 DEF StopComponent, TypeOK
    <2>4. QED
      BY <2>1, <2>2, <2>3 DEF StopsFollowTheBegin, TypeOK, Time, Propagations
  <1>4. ASSUME NEW window \in StopWindow, BeginTerminationPropagation(window)
        PROVE  StopsFollowTheBegin'
    <2>1. propagation'.targets = Active /\ component' = component
      BY <1>4 DEF BeginTerminationPropagation, NewPropagation
    <2>2. QED
      BY <2>1 DEF StopsFollowTheBegin, Active
  <1>5. ASSUME NEW ack \in messages, AcknowledgeTerminationTarget(ack)
        PROVE  StopsFollowTheBegin'
    <2>1. /\ propagation'.targets = propagation.targets
          /\ propagation'.started_at = propagation.started_at
          /\ UNCHANGED <<component, stopped_at, begun>> /\ begun > 0
      BY <1>5 DEF AcknowledgeTerminationTarget, WithAcknowledgement, TypeOK, Propagations
    <2>2. QED
      BY <2>1 DEF StopsFollowTheBegin
  <1>6. QED
    BY <1>1, <1>2, <1>3, <1>4, <1>5 DEF Next, vars, Tick, RequestCancellation, HearCancellation,
       EndLifecycle, Answer, EvaluateTerminationRequirement, Deliver

(* No target is stranded, for every set of components and every window: what *)
(* liveness under the fairness of FairSpec rests on.                         *)
THEOREM NoTargetIsStrandedHolds == Spec => []NoTargetIsStranded
  <1>1. Init => StopsFollowTheBegin
    BY DEF Init, StopsFollowTheBegin
  <1>2. TypeOK /\ StopEvidence /\ StopsFollowTheBegin => NoTargetIsStranded
    <2> SUFFICES ASSUME TypeOK, StopEvidence, StopsFollowTheBegin, begun > 0,
                        NEW t \in PendingTargets(propagation),
                        NEW m \in messages, m.target_ref = t, m.state = "STOPPED"
                 PROVE  CanAcknowledge(propagation, m)
      BY DEF NoTargetIsStranded
    <2>1. t \in propagation.targets /\ t \notin Acknowledged(propagation)
      BY DEF PendingTargets
    <2>2. component[t] = "stopped" /\ stopped_at[t] <= m.acknowledged_at
      BY DEF StopEvidence, MessagesAreTrue
    <2>3. stopped_at[t] >= propagation.started_at
      BY <2>1, <2>2 DEF StopsFollowTheBegin
    <2>4. /\ m.acknowledged_at \in Int /\ propagation.started_at \in Int
          /\ stopped_at[t] \in Int
      BY <2>1 DEF TypeOK, Propagations, Acknowledgements, Time, NoTime
    <2>5. QED
      BY <2>1, <2>2, <2>3, <2>4 DEF CanAcknowledge
  <1>3. QED
    BY <1>1, <1>2, StopsFollowInductive, StopEvidenceHolds, PTL DEF Spec

(* When every declared component has stopped and said so, and nothing said   *)
(* is left to accept, the stop is concluded, unless a cleanup was recorded:  *)
(* StopConcludes without its fairness, which only leads there.               *)
THEOREM QuietMeansConcluded ==
  Spec => [](/\ begun > 0
             /\ \A t \in Declared : \E m \in messages : m.target_ref = t /\ m.state = "STOPPED"
             /\ \A m \in messages : ~CanAcknowledge(propagation, m)
             => \/ Status(propagation) # "PENDING"
                \/ InState(propagation, "CLEANUP_PENDING") # {})
  <1> DEFINE Quiet ==
               /\ begun > 0
               /\ \A t \in Declared : \E m \in messages : m.target_ref = t /\ m.state = "STOPPED"
               /\ \A m \in messages : ~CanAcknowledge(propagation, m)
             Concluded ==
               \/ Status(propagation) # "PENDING"
               \/ InState(propagation, "CLEANUP_PENDING") # {}
  <1>1. StopEvidence /\ NoTargetIsStranded => (Quiet => Concluded)
    <2> SUFFICES ASSUME StopEvidence, NoTargetIsStranded, Quiet PROVE Concluded
      OBVIOUS
    <2>1. ASSUME NEW t \in PendingTargets(propagation) PROVE FALSE
      <3>1. PICK m \in messages : m.target_ref = t /\ m.state = "STOPPED"
        BY <2>1 DEF PendingTargets, Declared
      <3>2. component[t] = "stopped"
        BY <3>1 DEF StopEvidence, MessagesAreTrue
      <3>3. QED
        BY <2>1, <3>1, <3>2 DEF NoTargetIsStranded
    <2>2. QED
      BY <2>1 DEF Status
  <1>2. QED
    BY <1>1, StopEvidenceHolds, NoTargetIsStrandedHolds, PTL

(* Every acknowledgement that is accepted settles one more target, and       *)
(* nothing unsettles one: a propagation of n targets is over after n.        *)
THEOREM AcknowledgementsSettle ==
  Spec => [][begun > 0 /\ begun' = begun /\ propagation' # propagation =>
               \E t \in PendingTargets(propagation) :
                 PendingTargets(propagation') = PendingTargets(propagation) \ {t}]_vars
  <1> DEFINE Settles ==
        begun > 0 /\ begun' = begun /\ propagation' # propagation =>
          \E t \in PendingTargets(propagation) :
            PendingTargets(propagation') = PendingTargets(propagation) \ {t}
  <1>1. TypeOK /\ [Next]_vars => Settles
    <2> SUFFICES ASSUME TypeOK, [Next]_vars, begun > 0, begun' = begun,
                        propagation' # propagation
                 PROVE  Settles
      OBVIOUS
    <2>1. Deliver
      BY DEF Next, vars, stop, world, Tick, RequestCancellation, HearCancellation, EndLifecycle,
         StartComponent, StopComponent, Answer, EvaluateTerminationRequirement,
         BeginTerminationPropagation, TypeOK
    <2>2. PICK ack \in messages : AcknowledgeTerminationTarget(ack)
      BY <2>1 DEF Deliver
    <2>3. /\ propagation \in Propagations /\ ack \in Acknowledgements
          /\ CanAcknowledge(propagation, ack)
          /\ propagation' = WithAcknowledgement(propagation, ack)
      BY <2>2 DEF AcknowledgeTerminationTarget, TypeOK
    <2>4. /\ propagation'.acknowledgements = propagation.acknowledgements \cup {ack}
          /\ propagation'.targets = propagation.targets
          /\ ack.target_ref \in PendingTargets(propagation)
      BY <2>3, AcknowledgementAdds
    <2>5. PendingTargets(propagation') = PendingTargets(propagation) \ {ack.target_ref}
      BY <2>4 DEF PendingTargets, Acknowledged
    <2>6. QED
      BY <2>4, <2>5
  <1>2. QED
    BY <1>1, TypeCorrect, PTL DEF Spec

-----------------------------------------------------------------------------
(* Why the controller holds its requirement: the fact it reports still is   *)
(* one, since the lifecycle does not come back to life, the deadline does    *)
(* not move and a cancellation is requested once.                            *)
RequirementIsGrounded ==
  /\ requirement.reason = "TERMINAL_STATE" => terminal
  /\ requirement.reason = "DEADLINE" => requirement.triggered_at = deadline
  /\ requirement.reason = "CANCELLATION" => heard /\ requirement.triggered_at = cancelled_at

LEMMA LatchStep ==
  ASSUME TypeOK, RequirementIsGrounded, [Next]_vars
  PROVE  /\ RequirementIsGrounded'
         /\ requirement.required =>
              /\ requirement'.required
              /\ \/ requirement'.reason = "TERMINAL_STATE"
                 \/ requirement'.triggered_at <= requirement.triggered_at
  <1>1. requirement \in Requirements /\ requirement.evaluated_at <= now /\ now \in Nat
    BY DEF TypeOK, Time
  <1>2. CASE EvaluateTerminationRequirement
    <2> DEFINE at == IF heard THEN cancelled_at ELSE NoTime
    <2>1. at \in Time \cup {NoTime} /\ (heard => at = cancelled_at) /\ (~heard => at = NoTime)
      BY DEF TypeOK
    <2>2. /\ requirement' = RequirementAt(terminal, at, deadline, now)
          /\ UNCHANGED <<now, deadline, cancelled_at, heard, terminal>>
      BY <1>2 DEF EvaluateTerminationRequirement
    <2> HIDE DEF at
    <2>3. /\ requirement'.required <=> terminal \/ Reached(deadline, now) \/ Reached(at, now)
          /\ requirement'.reason = "TERMINAL_STATE" <=> terminal
          /\ requirement'.reason = "DEADLINE" =>
               /\ requirement'.triggered_at = deadline
               /\ Reached(at, now) => deadline <= at
          /\ requirement'.reason = "CANCELLATION" =>
               /\ requirement'.triggered_at = at /\ at # NoTime
               /\ Reached(deadline, now) => at <= deadline
      <3>1. terminal \in BOOLEAN /\ deadline \in Time \cup {NoTime} /\ now \in Time
        BY DEF TypeOK
      <3>2. QED
        BY <2>1, <2>2, <3>1, StopReasonFacts
    <2>4. requirement' \in Requirements
      <3>1. terminal \in BOOLEAN /\ deadline \in Time \cup {NoTime} /\ now \in Time
        BY DEF TypeOK
      <3>2. QED
        BY <2>1, <2>2, <3>1, RequirementType
    <2>5. RequirementIsGrounded'
      BY <2>1, <2>2, <2>3 DEF RequirementIsGrounded
    <2>6. ASSUME requirement.required
          PROVE  /\ requirement'.required
                 /\ \/ requirement'.reason = "TERMINAL_STATE"
                    \/ requirement'.triggered_at <= requirement.triggered_at
      <3>1. /\ requirement.reason \in TerminationReason
            /\ requirement.triggered_at \in Nat
            /\ requirement.triggered_at <= now
        BY <1>1, <2>6 DEF Requirements, Time, NoTime
      <3>2. /\ requirement'.required <=> requirement'.reason # NoReason
            /\ requirement'.reason \in TerminationReason \cup {NoReason}
        BY <2>4 DEF Requirements
      <3>3. CASE requirement.reason = "TERMINAL_STATE"
        BY <2>3, <3>3 DEF RequirementIsGrounded
      <3>4. CASE requirement.reason = "DEADLINE"
        <4>1. requirement.triggered_at = deadline /\ Reached(deadline, now)
          BY <3>1, <3>4 DEF RequirementIsGrounded, Reached, NoTime
        <4>2. QED
          BY <2>3, <3>1, <3>2, <4>1 DEF TerminationReason, PropagationReason
      <3>5. CASE requirement.reason = "CANCELLATION"
        <4>1. requirement.triggered_at = at /\ Reached(at, now)
          BY <2>1, <3>1, <3>5 DEF RequirementIsGrounded, Reached, NoTime
        <4>2. QED
          BY <2>3, <3>1, <3>2, <4>1 DEF TerminationReason, PropagationReason
      <3>6. QED
        BY <3>1, <3>3, <3>4, <3>5 DEF TerminationReason, PropagationReason
    <2>7. QED
      BY <2>5, <2>6
  <1>3. CASE requirement' = requirement
    <2>1. RequirementIsGrounded'
      BY <1>1, <1>3 DEF RequirementIsGrounded, Next, vars, stop, world, Tick, RequestCancellation,
         HearCancellation, EndLifecycle, StartComponent, StopComponent, Answer, Deliver,
         EvaluateTerminationRequirement, BeginTerminationPropagation,
         AcknowledgeTerminationTarget, TypeOK
    <2>2. requirement.required => requirement.triggered_at <= requirement.triggered_at
      BY <1>1 DEF Requirements, Time, NoTime
    <2>3. QED
      BY <1>3, <2>1, <2>2
  <1>4. QED
    BY <1>2, <1>3 DEF Next, vars, Tick, RequestCancellation, HearCancellation, EndLifecycle,
       StartComponent, StopComponent, Answer, Deliver, BeginTerminationPropagation,
       AcknowledgeTerminationTarget

(* A stop condition that was found stays found, for every request deadline. *)
THEOREM StopConditionLatchedHolds == Spec => StopConditionLatched
  <1>1. Init => RequirementIsGrounded
    <2> SUFFICES ASSUME Init PROVE RequirementIsGrounded
      OBVIOUS
    <2>1. requirement = RequirementAt(FALSE, NoTime, deadline, 0)
      BY DEF Init
    <2>2. /\ requirement.reason # "TERMINAL_STATE"
          /\ requirement.reason = "DEADLINE" => requirement.triggered_at = deadline
          /\ requirement.reason # "CANCELLATION"
      BY <2>1 DEF RequirementAt, StopReason, Reached, NoReason, NoTime
    <2>3. QED
      BY <2>2 DEF RequirementIsGrounded
  <1>2. QED
    BY <1>1, LatchStep, TypeCorrect, PTL DEF Spec, StopConditionLatched

-----------------------------------------------------------------------------
(* Termination implements SafeStop: each step starts or stops a component,  *)
(* requires the stop or concludes it, or leaves the promise's view alone.   *)
THEOREM SafeStopRefined == Spec => SafeStopPromise
  <1>1. Init => Promise!Init
    BY DEF Init, Promise!Init, Active
  <1>2. TypeOK /\ StopEvidence /\ CompleteIsTrue /\ CompleteIsTrue' /\ [Next]_vars
          => [Promise!Next]_Promise!vars
    <2> SUFFICES ASSUME TypeOK, StopEvidence, CompleteIsTrue, CompleteIsTrue', [Next]_vars
                 PROVE  [Promise!Next]_Promise!vars
      OBVIOUS
    <2> USE DEF stop, world
    <2>1. CASE \/ Tick \/ HearCancellation \/ EndLifecycle
               \/ \E at \in CancellationTime : RequestCancellation(at)
               \/ EvaluateTerminationRequirement \/ UNCHANGED vars
               \/ \E t \in Target : Answer(t)
      <3>1. UNCHANGED <<component, propagation, begun>>
        BY <2>1 DEF Tick, RequestCancellation, HearCancellation, EndLifecycle,
           EvaluateTerminationRequirement, vars, Answer
      <3>2. QED
        BY <3>1 DEF Promise!vars, Active
    <2>2. ASSUME NEW t \in Target, StartComponent(t) PROVE Promise!Start
      <3>1. Active' = Active \cup {t}
        BY <2>2 DEF StartComponent, Active, TypeOK
      <3>2. QED
        BY <2>2, <3>1 DEF StartComponent, Promise!Start, TypeOK
    <2>3. ASSUME NEW t \in Target, StopComponent(t) PROVE [Promise!Next]_Promise!vars
      <3>1. UNCHANGED <<propagation, begun>> /\ begun > 0 /\ t \in Active
        BY <2>3 DEF StopComponent, Declared, Active
      <3>2. \/ Active' = Active
            \/ Active' = Active \ {t}
        BY <2>3 DEF StopComponent, Active, TypeOK
      <3>3. QED
        BY <3>1, <3>2 DEF Promise!Next, Promise!Stop, Promise!vars
    <2>4. ASSUME NEW window \in StopWindow, BeginTerminationPropagation(window)
          PROVE  Promise!RequireStop
      <3>1. /\ begun' > 0 /\ Active' = Active
            /\ propagation'.acknowledgements = {} /\ propagation'.targets = Active
        BY <2>4 DEF BeginTerminationPropagation, NewPropagation, TypeOK, Active
      <3>2. Status(propagation') = "COMPLETE" <=> Active = {}
        BY <3>1 DEF Status, InState, PendingTargets, Acknowledged
      <3>3. QED
        BY <3>1, <3>2 DEF Promise!RequireStop, CompleteIsTrue
    <2>5. CASE Deliver
      <3>1. PICK ack \in messages : AcknowledgeTerminationTarget(ack)
        BY <2>5 DEF Deliver
      <3>2. /\ propagation \in Propagations /\ ack \in Acknowledgements
            /\ CanAcknowledge(propagation, ack) /\ begun > 0
            /\ propagation' = WithAcknowledgement(propagation, ack)
            /\ Active' = Active /\ begun' = begun
        BY <3>1 DEF AcknowledgeTerminationTarget, TypeOK, Active
      <3>3. Status(propagation) # "COMPLETE"
        <4>1. PendingTargets(propagation) # {}
          BY <3>2, AcknowledgementAdds
        <4>2. QED
          BY <4>1 DEF Status
      <3>4. CASE Status(propagation') = "COMPLETE"
        <4>1. Active' = {}
          BY <3>2, <3>4 DEF CompleteIsTrue
        <4>2. QED
          BY <3>2, <3>4, <4>1 DEF Promise!Next, Promise!Conclude
      <3>5. CASE Status(propagation') # "COMPLETE"
        BY <3>2, <3>3, <3>5 DEF Promise!vars
      <3>6. QED
        BY <3>4, <3>5
    <2>6. QED
      BY <2>1, <2>2, <2>3, <2>4, <2>5 DEF Next, Promise!Next
  <1>3. QED
    BY <1>1, <1>2, StopEvidenceHolds, CompleteIsTrueHolds, PTL
    DEF Spec, SafeStopPromise, Promise!Spec

=============================================================================
