------------------------------ MODULE MCMediaFlow ------------------------------
(***************************************************************************)
(* Instances of MediaFlow for TLC.                                         *)
(***************************************************************************)
EXTENDS MediaFlow

\* The reconciler meets one mishap; further ones happen between two of its passes, which
\* are five minutes apart, and without the mark that only it would read.
CalmReconciler ==
    mishaps' <= 1 \/ (pass' = {} /\ \A r \in Round : row'[r].state # "completed")

===============================================================================
