------------------------------- MODULE SafeStop -------------------------------
(***************************************************************************)
(* What the termination layer promises to whoever waits for a safe stop:    *)
(* after the stop is required no component starts, and the stop is only     *)
(* reported concluded when none is working any more; that report is final.  *)
(***************************************************************************)
CONSTANT Component
VARIABLES working,     \* the components that are working
          stopping,    \* has the stop been required?
          concluded    \* has it been reported concluded?
vars == <<working, stopping, concluded>>

Init == working = {} /\ stopping = FALSE /\ concluded = FALSE

Start ==
  /\ ~stopping
  /\ \E c \in Component : working' = working \cup {c}
  /\ UNCHANGED <<stopping, concluded>>

(* The report may come together with the requirement if nothing is working. *)
RequireStop ==
  /\ stopping' = TRUE
  /\ concluded' \in {concluded, working = {}}
  /\ concluded => concluded'
  /\ UNCHANGED working

Stop ==
  /\ stopping
  /\ \E c \in working : working' = working \ {c}
  /\ UNCHANGED <<stopping, concluded>>

Conclude ==
  /\ stopping /\ working = {}
  /\ concluded' = TRUE
  /\ UNCHANGED <<working, stopping>>

Next == Start \/ RequireStop \/ Stop \/ Conclude
Spec == Init /\ [][Next]_vars
=============================================================================
