---------------------------- MODULE RequestAdmission ----------------------------
(***************************************************************************)
(* request.py: a request as it is admitted, with the security binding that   *)
(* its owners had given it at that instant.  Task type, domain, input and    *)
(* the like are content; the canonical encoding of the input is Foundation's. *)
(***************************************************************************)
EXTENDS Integers

NoDeadline == -1     \* None, for a deadline

(* What the constructor of BrainRequest requires. *)
ValidRequest(r) ==
  /\ r.security_binding.request_id = r.request_id
  /\ {r.max_latency_ms, r.max_compute_units, r.max_memory_bytes} \subseteq Nat
  /\ r.required_determinism \in BOOLEAN /\ r.required_explainability \in BOOLEAN
  /\ r.deadline # NoDeadline => r.admitted_at < r.deadline

(* admit_brain_request: terms are what the caller asks for. *)
Admitted(terms, binding, admitted_at, deadline) ==
  [f \in DOMAIN terms \cup {"security_binding", "admitted_at", "deadline"} |->
     CASE f = "security_binding" -> binding
       [] f = "admitted_at"      -> admitted_at
       [] f = "deadline"         -> deadline
       [] OTHER                  -> terms[f]]

CanAdmit(terms, binding, admitted_at, deadline) ==
  ValidRequest(Admitted(terms, binding, admitted_at, deadline))

=============================================================================
