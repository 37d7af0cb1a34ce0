----------------------------- MODULE MCInodeOps -----------------------------
(***************************************************************************)
(* Instances of VtfsInodeOps for TLC.  Names are interchangeable, and so   *)
(* are threads; no property tells them apart.                              *)
(***************************************************************************)
EXTENDS VtfsInodeOps, TLC

Symmetry == Permutations(Procs) \cup Permutations(Names)

=============================================================================
