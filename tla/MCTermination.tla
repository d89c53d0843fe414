----------------------------- MODULE MCTermination -----------------------------
(* A small instance of Termination for TLC. *)
EXTENDS Termination, TLC

(* No deadline, or one in the middle of the time that is explored. *)
RequestDeadlines == {NoTime, 1}

Components == Permutations(Target)
=============================================================================
