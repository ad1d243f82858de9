------------------------------- MODULE BenchRow -------------------------------
(***************************************************************************)
(* What the lambdas of src/multi_engine and src/single_engine promise the  *)
(* reader of results.csv about a row, whatever they measure: calls may     *)
(* fail and leave a message, at once or before the row is reported; the    *)
(* first message stays and names a call that failed; no row that met an    *)
(* error is reported without one; and "Data missmatch." is the message     *)
(* only of a row in which every call returned 0.                           *)
(***************************************************************************)

CONSTANT Function     \* what a row calls, and SkipWithMessage can name

VARIABLES
  phase,              \* "running" or "reported"
  failed,             \* what has failed in the row
  msg                 \* "none", a member of Function, or "mismatch"

rowVars == <<phase, failed, msg>>

Init ==
  /\ phase \in {"running", "reported"}
  /\ failed = {}
  /\ msg = "none"

Begin ==
  /\ phase = "reported"
  /\ phase' = "running"
  /\ failed' = {}
  /\ msg' = "none"

\* Something may fail, and the row may be marked with what has failed.
Step ==
  /\ phase = "running"
  /\ failed \subseteq failed' /\ failed' \subseteq Function
  /\ \/ UNCHANGED msg
     \/ msg = "none" /\ msg' \in failed'
  /\ UNCHANGED phase

Report ==
  /\ phase = "running"
  /\ \/ failed = {} /\ msg = "none" /\ msg' \in {"none", "mismatch"}
     \/ failed # {} /\ msg # "none" /\ UNCHANGED msg
  /\ phase' = "reported"
  /\ UNCHANGED failed

Next == Begin \/ Step \/ Report

Spec == Init /\ [][Next]_rowVars
===============================================================================
