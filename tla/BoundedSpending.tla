---------------------------- MODULE BoundedSpending ----------------------------
(***************************************************************************)
(* What budget control promises to whoever admitted a request: work is only *)
(* done within an allowance, the allowance is never raised, and nothing     *)
(* that was spent is forgotten.                                             *)
(***************************************************************************)
EXTENDS Integers

CONSTANT Counter
VARIABLES allowance, spent
vars == <<allowance, spent>>

Below(a, b) == \A k \in Counter : a[k] <= b[k]

Init ==
  /\ allowance \in [Counter -> Nat]
  /\ spent = [k \in Counter |-> 0]

Spend ==
  /\ spent' \in [Counter -> Nat]
  /\ Below(spent, spent') /\ Below(spent', allowance)
  /\ UNCHANGED allowance

Narrow ==
  /\ allowance' \in [Counter -> Nat]
  /\ Below(allowance', allowance) /\ Below(spent, allowance')
  /\ UNCHANGED spent

Next == Spend \/ Narrow
Spec == Init /\ [][Next]_vars
=============================================================================
