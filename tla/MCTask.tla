------------------------------- MODULE MCTask -------------------------------
(* Finite instances of Task: three calls of run() and two signals.         *)
EXTENDS Task, TLC

\* Calls and signals are only compared with each other.
Symmetry == Permutations(Calls) \cup Permutations(Signals)
=============================================================================
