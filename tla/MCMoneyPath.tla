---------------------------- MODULE MCMoneyPath ----------------------------
(* Small instances of MoneyPath for TLC. *)
EXTENDS MoneyPath, TLC

\* Invocations are interchangeable in the safety runs.
Symmetry == Permutations(Procs)
=============================================================================
