-------------------------- MODULE MCGibworkAdapter --------------------------
(* Small instances of GibworkAdapter for TLC. *)
EXTENDS GibworkAdapter
=============================================================================
