---------------------------- MODULE VerifiedClaim ----------------------------
(***************************************************************************)
(* What somebody who reads a verdict is promised: the record of what        *)
(* verifiers said only grows, each is heard once on each assertion and no    *)
(* more often than was admitted, and the verdict SUPPORTED is only given     *)
(* when enough verifiers other than the producer stand behind every          *)
(* assertion and none of them objects.  A new verification starts over.      *)
(***************************************************************************)
EXTENDS Integers, FiniteSets

CONSTANTS Verdict,      \* everything that can be said at the end
          Objecting     \* the answers of a verifier that rule out support

VARIABLES terms,        \* [producer, assertions, support, passes] of this verification
          heard,        \* set of [verifier, assertion, status]
          verdict       \* the verdict on what has been heard, or NoVerdict

vars == <<terms, heard, verdict>>
NoVerdict == "NONE"

Supporters(a) == {h.verifier : h \in {g \in heard : g.assertion = a /\ g.status = "SUPPORTED"}}

Justified ==
  /\ \A a \in terms.assertions : Cardinality(Supporters(a)) >= terms.support
  /\ \A h \in heard : h.status \notin Objecting

Start == heard' = {} /\ verdict' = NoVerdict

Hear(v, a, s) ==
  /\ v # terms.producer /\ a \in terms.assertions
  /\ \A h \in heard : h.verifier # v \/ h.assertion # a
  /\ Cardinality(heard) < terms.passes
  /\ heard' = heard \cup {[verifier |-> v, assertion |-> a, status |-> s]}
  /\ verdict' = NoVerdict
  /\ UNCHANGED terms

Conclude(w) ==
  /\ w = "SUPPORTED" => Justified
  /\ verdict' = w
  /\ UNCHANGED <<terms, heard>>

Init == heard = {} /\ verdict = NoVerdict

Next ==
  \/ Start
  \/ \E h \in heard' \ heard : Hear(h.verifier, h.assertion, h.status)
  \/ \E w \in Verdict : Conclude(w)

Spec == Init /\ [][Next]_vars
=============================================================================
