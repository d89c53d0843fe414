# A formal model of cybersecgpt-reasoning

This directory holds TLA+ specifications of the control layer in
`src/cybersecgpt/reasoning/`, instances of them for the model checker TLC, and
theorems about them whose proofs the proof system TLAPS checks.
Paths below are relative to the root of the repository.

The library is a set of pure functions over immutable records. It does no I/O,
starts no thread and keeps no state: its callers hold every decision, ledger,
snapshot and stop request, pass them in again, and pass the time as a parameter.
The state of a specification is therefore what the callers hold, an action is one
call together with what its caller does with the result, and a call that raises
is an action that is not enabled. What makes the code hard is not written in any
one function: values that are old when they come back, stop conditions that are
found in one call and used in the next, acknowledgements that arrive in any
order, and long chains of calls each of which only looks at the one before.

## 1. Inventory

| Component | State it defines | Operations | Correct when |
|---|---|---|---|
| Request admission, `request.py` | `BrainRequest` | `admit_brain_request` | a request is complete, its deadline lies after admission, its input is canonical |
| Substrate discovery, `substrates.py` | `ValidatedSubstrate`, `CapabilitySnapshot` | `validate_substrate_descriptor`, `build_capability_snapshot` | a snapshot only lists substrates whose evidence was fresh at its instant |
| Candidate selection, `candidates.py` | none (a function) | `select_candidate_substrates` | exactly the acceptable substrates are ranked, the best are taken |
| Routing decision, `routing.py` | `RoutingDecision` | `validate_routing_decision` | a decision is not reused after expiry or a change of the security binding |
| Budget, `budget.py` | `ReasoningBudgetUsage` | `consume_reasoning_budget`, `exhausted_reasoning_budget_dimensions` | no counter passes its ceiling, none goes down |
| Routing ledger, `routing.py` | `RoutingReasoningBudgetUsage` | `begin_`, `consume_routing_reasoning_budget` | usage is charged to the decision that owns it |
| Lifecycle, `lifecycle.py` | `ReasoningLifecycleSnapshot` | `begin_reasoning_lifecycle`, `transition_reasoning_state` | legal paths only, no gap in the trail, ended is ended, ceilings are kept |
| Termination, `termination.py` | `TerminationRequirement`, `TerminationPropagation` | `evaluate_` and `begin_`, `acknowledge_`, `evaluate_termination_propagation` | a stop once required stays required; a stop reported complete has happened |
| Fallback, `fallback.py` | `FallbackReplanResult` | `replan_fallback_route` | no replan, and no sequence of replans, gives more than the first request allowed |
| Verifier orchestration, `verification.py` | `VerificationOrchestrationState`, `VerificationResult` | `begin_`, `record_`, `finalize_` | independent verifiers, one pass charged for each observation, no verdict after a stop |
| Errors, `errors.py`; exports, `__init__.py` | none | none | |
| Foundation package (a dependency) | identifiers, `RoutingSecurityBinding` | none | compared for equality only |

How they interact. A request and a snapshot go through candidate selection into a
routing decision, which carries the request's budget. A lifecycle begins with
the decision's empty ledger, and every transition charges it. Termination looks at
request, decision and lifecycle, and its requirement, bound to one instant, is
what fallback and verification ask for. Fallback selects again, makes a new
decision and carries the ledger over. Verification selects verifiers with the
same candidate selection and drives the lifecycle through `VERIFYING`. There are
no callbacks and no shared variables; all interaction is by values handed on.

Hard behaviours: callers may resume an old snapshot; a cancellation may become
known late; components stop in their own time and their acknowledgements are
delayed, repeated or lost; a stop may come between an evaluation and its use; a
chain of fallbacks may drift. Every one is listed with its line under `hazards` in
`PROJECT.json`, with the properties that cover it or the reason why none does.

## 2. Modules

| Module | Models |
|---|---|
| `ReasoningBudget` | `budget.py` and the ledger of `routing.py`: operators, no state |
| `LifecycleGraph` | the states, edges and snapshot of `lifecycle.py`: operators |
| `ReasoningLifecycle` | the machine: any number of callers and the set of snapshots ever returned |
| `TerminationRequirement` | `evaluate_termination_requirement`: operators |
| `TerminationControl` | propagation, acknowledgement and verdict of `termination.py`: operators |
| `Termination` | the machine: clock, cancellation, lifecycle end, components, messages and the controller |
| `SafeStop` | abstract specification: what somebody waiting for a safe stop is promised |
| `CandidateSelection` | `candidates.py` and `validate_routing_decision`: operators |
| `FallbackControl` | `fallback.py`: operators, one for each thing that must not be widened |
| `FallbackChain` | the machine: one request, its routes in turn, work, time and stops |
| `BoundedSpending` | abstract specification: an allowance that only shrinks and spending within it |
| `FallbackSelection` | one selection of a fallback, for every input |
| `ReasoningSession` | the machine: one request, its routes in turn and the lifecycle of each |
| `VerificationControl` | `verification.py`: operators |
| `Verification` | the machine: verifications in turn, late observations, stops, snapshots built anew |
| `VerifiedClaim` | abstract specification: what somebody who reads a verdict is promised |
| `SubstrateDiscovery` | `substrates.py`: operators |
| `RequestAdmission` | `request.py`: operators |
| `Discovery` | the machine: evidence, snapshots, admission, selection and a route in force |
| `MC...` | the instances for TLC |
| `SharedLemmas`, `...Proofs` | lemmas and theorems (section 5) |

`FallbackChain` composes routing validity, candidate selection, the ledger, the
stop conditions and fallback; `ReasoningSession` adds the lifecycle. `Termination`
composes evaluation and propagation. `Verification` composes candidate selection,
lifecycle, ledger and stop conditions; `Discovery` composes discovery, admission,
candidate selection and routing validity.
`map` in `PROJECT.json` gives the lines each definition stands for.

**Budget.** The seven counters are a set `Dimension` that contains
`branch_depth`, the only counter that is a high-water mark and not a sum.

**Lifecycle.** `snapshots` only grows: the library returns values and forgets
them, so whoever has one may use it again, together with any decision value. Each
caller step is `begin_reasoning_lifecycle` or `transition_reasoning_state`, with
any decision, any snapshot, any next state and any cost.

**Termination.** The time of cancellation and the news of it are separate steps
(`cancelled_at`, `heard`); a cancellation may also be announced for a later instant. A component goes from active through cleanup or not to
stopped; it truthfully answers what it is at that moment, once for each state, and
nothing is ever taken from `messages`, so an acknowledgement can arrive at any later
time, again, in any order, or never, also when it was written for an earlier
propagation. Components start nothing once a propagation has begun: the documents
ask that of their owners, and the code, which never sees a component, relies on it. In
the same way the controller's list of targets is exactly the active components: a list
that omits one is nothing the code could notice, so no property speaks of it.

**Fallback.** `Request`, `Snapshot` and policies are sets of records with the
fields that decide something; content that is only compared whole (identities,
task, input) is one value. A replan takes any current request, snapshot, policies,
trigger, unavailable substrates, identity and lifetime. `spent` is what has really
been done, kept beside the ledger so that losing consumption would show. The first
decision may outlive the request's deadline: nothing in the code forbids that.
The controller passes the last ledger and the last evaluation it has; the
evaluation may be old, which is what the guard of `MayContinue` is about.

**Session.** `ReasoningSession` gives every route its lifecycle snapshot, which
holds its ledger, and lets callers slip in the three ways the library cannot
notice: work on a route that was replaced, a fallback that is given a ledger which
is not the last one, and a replacement whose lifecycle is begun by
`begin_reasoning_lifecycle`. `slips` records which of them happened, so that a
property can say what holds while none does and what holds whatever does. Callers
slip with values of this session; they do not forge snapshots or ledgers.

**Verification.** A report comes with the instant at which the verifier observed
and is recorded at that or any later time, in any order, with a requirement that was
evaluated for that instant. A requirement evaluated before an event of the same
or a later instant does not know of the event; one evaluated afterwards does
(`MayKnow`). Two snapshots may carry one identity. The caller holds the newest
lifecycle snapshot and gives a verification up when it moves the lifecycle on
without it; the lifecycle may be ended from elsewhere while the verification still
holds its own branch. `begun` keeps what the verification began with, for the
properties. There is one decision for one request, and no revision of it.

**Discovery.** Five owners act independently: the authority that issues evidence, the
builder of snapshots, the owners of the security binding, the caller who admits a
request, the router. Nothing that was once made is taken back: evidence, snapshots
and decisions may be used at any later time. `distrusted_at` is what the authority
thinks, which no code sees; it issues no complete evidence afterwards. Evidence
stays with the descriptor it was issued for, although the code has nothing to tell
a wrong pair by. A snapshot may be built of any pairs under any identity, a used one
included, and the binding may return to an old value.

## 3. Runs

| Run | Instance | Shows |
|---|---|---|
| `lifecycle` | two counters, ceilings of 2 or 3, an admitted decision, a substitute with the same identity and more budget and another decision, four snapshots | a lifecycle keeps its ceilings whatever decision is passed later; the trail has no gap; tool execution is entered from a policy wait only; branch depth is a high-water mark; a stop at no cost is always accepted |
| `termination` | two components, time 0 to 2, deadline 1 or none, a cancellation at any time, two propagations | COMPLETE is true of the components; complete and not exceeded means in time; no target is stranded with an answer that nobody accepts; verdicts are final; a stop condition stays and moves only earlier; `SafeStop` is implemented |
| `termination_live` | two components, deadline 1, time 0 to 3, two propagations, fairness | the stop is concluded, unless cleanup was recorded as pending |
| `fallback` | two substrates, two snapshots, sixteen requests, two replans, two identities that come back, two lifetimes, time 0 to 2 | a chain stays within the first request's budget, demands and deadline, does not go on after a stop, and implements `BoundedSpending` |
| `verification` | three substrates (the producer and two verifiers, two owners), two snapshots of one identity, three policies, four reports, a deadline or none, time 0 to 1, two transitions outside verification | every observation costs one pass; SUPPORTED is earned, and by verifiers chosen as independent of the producer; nothing observed or concluded after a stop counts; a stop that is reported was one; until the decision expires a verdict can be given; `VerifiedClaim` is implemented |
| `verification_owners` | four substrates (the producer, three verifiers, two owners), four snapshots of one identity that list them all or leave some out, support of one or two asked for, three passes, time 0 to 1 | what is counted by owners in the snapshot at the end holds by the snapshot from which verifiers were chosen: a verifier that is no longer listed never makes support look more independent |
| `session` | two substrates, budgets of one or two steps, two replans, identities that come back, three transitions of each route | while nothing slips the present ledger knows of all work and keeps the first ceilings, and `BoundedSpending` is implemented; whatever slips, n routes spend at most n times as much |
| `discovery` | two substrates, one of them revoked, two bindings, two pairs and two snapshots of them, windows of 1 or 2, lifetime 1, time 0 to 2 | distrust takes effect within one window and one lifetime; a route in force was chosen under the present identity, revision and authorization |
| `fallback_selection` | every snapshot of three substrates (degraded or not, cheap or not, local, remote or another owner's), every pair of policies | a fallback is one candidate selection under the narrowed policy; the best are taken |

Why the bounds are enough. Lifecycle edges relate two snapshots, and the properties
relate a snapshot to its predecessor and to the first one, so four snapshots hold
every pair of branches that fork from a common root. Two components are needed for
one to fail or to clean up while the other has stopped, two propagations for an
acknowledgement of the first to meet the second, three instants for before, at and
after a deadline. A fallback compares with its predecessor, so drift needs two
replans, and identities that come back need two. `MaxSequence`, `MaxSnapshots`,
`MaxTime`, `MaxBegun`, `MaxReplans`, `MaxEvidence` and `MaxPairs` (the pairs a snapshot is
built of) are bounds of the instances;
none is in the code, and the theorems hold for all of their values. `MaxWindow` and
`MaxLifetime` bound what the issuers of evidence and decisions choose; `DistrustTakesEffect`
is stated in them. In `verification` a pass ceiling of two, reached with two
verifiers and two assertions, is enough for a third observation to be refused, and
two instants for an observation before a stop that is delivered after it. In
`verification_owners` one pair of verifiers shares an owner and one verifier shares the
producer's, so a count of two can be right or wrong, and each of them can go missing.
`SupportFromDistinctOwners` presumes that snapshots agree on who owns a substrate, which
is true of this instance; where one identity stands for snapshots that
disagree, the code believes the one it is given last. In
`session` two replans give three routes: one that works on, one that comes in
between and one whose identity may be the first one's. In `discovery` a window of two
and a clock of two let evidence expire between build and selection.

Component identities and decision identities are symmetric and used so in the
safety runs that have more than one. `termination_live` uses no symmetry. Deadlock
is checked in every run but `fallback_selection`, which makes one selection and
stops, and those of `Verification` and `ReasoningSession`: a request whose lifecycle
has ended, or whose budget, clock and replans are used up, has nothing left to do.

**Fairness** is only assumed in `termination_live`, and none of it is the code's:
every component that was asked to stop does stop, answers, and some answer that can
be accepted is delivered. Without this nothing can be concluded by a library that
only takes what it is given. No fairness is put on the controller or on the clock, so
whether a propagation ever begins is open; the property speaks of those that do.
The exception in the property is real: a target acknowledges once
(`termination.py:572`), so after `CLEANUP_PENDING` its `STOPPED` is refused and this
propagation stays `PENDING`.

Each property of these passing runs also has a mutated definition (`mutants` in
`PROJECT.json`, the operators marked "Mutated form"), a slip one could make in that
piece of code, under which TLC finds the property violated.

### Where documents and code disagree

Three more runs check what a document says; TLC finds each violated.

| Run | The document says | What the run shows |
|---|---|---|
| `verification_validated` | `SECURITY.md:65`: every recorded observation comes "from a currently selected validated verifier" | recording only asks whether the snapshot lists the verifier; its validation may have expired by the time it observes |
| `verification_contradiction` | `docs/ARCHITECTURE.md:335`: contradiction "cannot be promoted to support" | an observation may be SUPPORTED and name contradictions; it counts as support, and the SUPPORTED result lists the contradictions |
| `session_reset` | `docs/ARCHITECTURE.md:321`: "fallback cannot reset cumulative consumption" | the carried ledger has no way into `begin_reasoning_lifecycle`, which starts from zero; the replacement spends the whole budget again |

`session_reset` is what `EveryRouteIsBounded` puts a limit to.

Not a disagreement, but easily taken for one: `docs/ARCHITECTURE.md:335` has finalizing
preserve DEADLINE outcomes, and where the decision expires at or before the deadline
(a replacement by fallback expires by the request's deadline, `fallback.py:719`) no call
returns any more once that deadline is reached. This is failing closed on an
expired decision, as `SECURITY.md:32` asks, so `VerdictIsReachable` claims a verdict only
until the decision expires.

## 4. Abstract specifications

`SafeStop` knows only which components work, whether stopping was required and
whether it was reported concluded. `Termination` implements it with
`working <- Active`, `stopping <- begun > 0` and
`concluded <- ` a propagation whose status is COMPLETE. That a second propagation
may replace a concluded one is the step that makes this worth checking: it must be
concluded at once, which holds because no component is active by then.

`BoundedSpending` knows an allowance and what was spent. `FallbackChain` implements
it with the present request's ceilings as the allowance: consuming is spending, a
replan is narrowing, everything else is stuttering. `ReasoningSession` implements it too, with
the same allowance and the work of all its routes, but only while callers let nothing
slip: `CarefulSpending` asks this of every step up to the first slip, `CarefulSpec` is
the specification of the behaviours without any, and `session_reset` shows what
an ordinary one may do.

`VerifiedClaim` knows the terms of a verification, who said what on which assertion,
and the verdict. `Verification` implements it: recording is hearing somebody new,
once on each assertion and within the passes admitted; finalizing is concluding,
and the verdict SUPPORTED needs enough supporters and no objection among all that
was heard, which the code only looks at assertion by assertion; beginning another
verification, or giving one up, starts over.

## 5. Proofs

The theorems hold for every value of the constants that satisfies the named
assumptions, which say what constructors check (times are instants, costs are
counters, a deadline lies after admission, windows and lifetimes are positive) and,
of the bounds, no more than that they are numbers. TLC evaluates each assumption in
its runs.

* `SharedLemmas`: what charging a budget, a transition of the lifecycle and evaluating
  the stop conditions return; the other modules cite it. `ChargesCommute` shows that of
  two pieces of work it does not matter which is charged first, neither for the ledger
  nor for whether both can be afforded, although one counter is a maximum and the others
  are sums.
* `ReasoningLifecycleProofs`: all six properties of `ReasoningLifecycle`. Type
  correctness is inductive because of what a charge returns; `AuditTrail`,
  `WithinAdmittedCeilings` and `DepthIsHighWater` are inductive together with it, since
  they speak of every snapshot ever returned and that set only grows.
  `ToolOnlyAfterPolicyWait` follows from the audit trail and the edges of the graph,
  `AlwaysStoppable` from type correctness: a snapshot within its ceilings is within
  them after a charge of nothing.
* `TerminationProofs`: all safety properties of `Termination` and `SafeStopRefined`.
  The inductive invariant ties messages to the truth: an acknowledgement that says
  STOPPED was sent by a component that had stopped, not later than it says, and the
  targets of a propagation cover all that was active when it began. `StopEvidence` and its
  companions carry this; `CompleteIsTrue` alone is not inductive, because it says
  nothing of messages not yet delivered. `NoTargetIsStranded` needs one fact more
  (`StopsFollowTheBegin`): a target that a propagation waits for stopped after it began, so
  no answer it has left is too early. Three theorems are about acknowledgements as such:
  each one that is accepted settles exactly one target (`AcknowledgementsSettle`), two of
  them may change places (`AcknowledgementsCommute`), and once nothing acceptable is left
  and everybody has spoken, the stop is concluded or a cleanup is on record
  (`QuietMeansConcluded`).
* `FallbackProofs`: all six properties of `FallbackChain`, for any number of
  replans. `ContinuesTransitive` shows that narrowing request by request is narrowing
  from the first, `EligibilityNarrows` that a stricter request never has more
  eligible substrates. The invariant `ChainInv` keeps `Continues(root, request)`, so
  that comparing with the predecessor is enough, the equality of the ledger with what
  was really spent, and that an evaluation of this very instant can only have missed
  events of this instant.

* `VerificationProofs`: all nine properties of `Verification`. The invariant `IInv` has
  one part for each thing that is held: the world, the state, its observations, the
  passes, the verdict. `VerdictInv` keeps, with a result, the facts of the moment of
  finalizing (each assertion has its support, evidence and no objection), since the
  result itself does not say them. `PassesInv` counts: the branch of the lifecycle
  held by the state is as many steps and passes ahead of `begun` as there are
  observations, which are distinct because a verifier is heard once on an assertion.
  For the refinement `RecordIsHear` shows that a recorded observation was not heard
  before and that there is room for it, `SupportedIsJustified` that a verdict
  SUPPORTED is justified by what was heard. `StopVerdictIsTrue` rests on `EndInv` (the
  lifecycle ends once, and not in the future) and on a deadline never being put off
  (`DeadlineNotPutOff`); `VerdictIsReachable`
  on `BoundInv` (what fitted together at the beginning still does) and on
  the evaluation of the present instant being there to ask for (`RequirementIsAvailable`).
  `SupportFromDistinctOwners` follows from the snapshot that `VerdictInv` keeps as the
  one of the judgement: if snapshots agree on owners, those counted there are among those
  of the start (`OwnersAtTheStart`).
  `RecordingsCommute` shows that observations may be recorded in any order.
* `SelectionProofs`: both properties of `FallbackSelection`, for any number of
  substrates. The keys of the ranking are a strict total order because the last part
  is the id (`RankingIsTotal`, `RankingIsTransitive`); the rank of a candidate, the
  number of those before it, is therefore a bijection from the candidates to the
  numbers below their count, so that a cut keeps exactly as many as it may
  (`CutKeepsTheNumber`) and only what ranks before the rest (`KeptRanksBeforeCut`). A substrate
  meets the overlay of the two policies when it meets both (`OverlayIsBoth`), because
  `_validate_fallback_policy_narrowing` keeps the fallback policy from being wider.
  `LeavingOutAfterTheCut` bounds what is lost where verifier selection removes a producer
  and verifiers that depend on it only after the cut: no more than the places they took.
* `SessionProofs`: all four properties of `ReasoningSession`, for any number of
  routes. What carries `CarriedWorkIsBounded` is that, while nothing slips, the ledger
  of the present route equals `spent`, and that no ceiling is above the first one.
  `EveryRouteIsBounded` rests on `WorkInv`: whatever slips, `spent` is covered by what
  the routes have used together. That sum is stated as the cardinality of a set of
  units, pairs of a route and a number up to what it has used, so that a step adds
  its cost in units (`UnitsGrow`) and no induction over the routes is needed.
  `CarefulSpendingHolds` is the refinement of `BoundedSpending` up to the first slip: until
  then the present ledger is `spent`, so its ceilings are ceilings of all work
  (`CarefulInv`); `CarefulSessionImplements` draws from it that `CarefulSpec` implies the
  abstract specification.
* `DiscoveryProofs`: all three properties of `Discovery`. `DistrustTakesEffect` is a chain:
  complete evidence was issued before the distrust and is valid for at most
  `MaxWindow`; a snapshot lists nothing without it; a selection at an instant only takes what
  is valid at that instant; a decision lives at most `MaxLifetime` from there.

Only model-checked: `StopConcludes`, because liveness under fairness is out of the
prover's reach. What it rests on is proved without fairness: no target is ever stranded,
every acceptance settles a target, and where nothing is left to accept the stop is
concluded; fairness only leads there. No definition is recursive and none is proved by
induction over data.

## 6. Not modelled, and why

* Types, texts, tokens, canonical JSON, reason codes, causes and provenance: checked
  or recorded, never decided upon. Substrate ids are numbers in the order of their
  texts, because ranking compares the texts.
* Identity bindings inside one execution: `Termination` and `FallbackChain` model one
  request; the equality checks of request and correlation identities are therefore
  only present where a second value can differ (decisions, bindings, budgets).
  `Verification` has one request and one decision for the same reason.
* The choice of a subject and of its producer: `begin_verification_orchestration` takes
  both as its caller gives them, and so does the model; the instance names a producer
  that the first snapshot lists and the second does not.
* Limitations, method texts and provenance of a result: copied, never decided upon.
* Two fields of an acknowledgement, `evidence_preserved` and `cleanup_authorization_ref`, which
  its constructor asks for with STOPPED and CLEANUP_PENDING (`termination.py:227`): the model
  takes every acknowledgement to have what its state needs, and nothing later reads it.
* The checks that the constructor of `VerificationOrchestrationState` repeats
  (`verification.py:415`): `record_verifier_observation` has refused a second
  observation of one verifier on one assertion before. The mutated form
  `IsAdmissibleRepeated` stands for both being gone.
* The outcome `RESOURCE_LIMIT`: it is a member of `VerificationStatus`, but no code
  produces it; a ceiling that is reached makes the call raise.
* Forged values. The classes are public, so a caller may construct any snapshot or
  ledger its checks let through; the models only pass on what operations returned.
* Tests, scripts, workflows, the Foundation package: not part of the running system,
  or not in this repository.

## 7. Plan

Done, in this order: budget and lifecycle; termination; selection and fallback;
verification; the session; discovery and admission; the theorems of section 5.
What is left to do:

1. Verification inside a session: a verification that is begun on one route and
   finished after a fallback replaced it. Today the guards on the identity of the
   decision keep the two apart, and the two models each cover one side.
2. Liveness of a session is not in the plan: nothing in the code bounds the number of
   replans or of `VERIFYING` steps at no cost, and no document says that anything must
   end.
