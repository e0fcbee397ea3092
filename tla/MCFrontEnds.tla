---------------------------- MODULE MCFrontEnds ----------------------------
(* Small instances of FrontEnds for TLC. *)
EXTENDS FrontEnds, TLC

\* Invocations that may be of either kind are interchangeable.
Symmetry == Permutations(Terminals \cap Servers)
=============================================================================
