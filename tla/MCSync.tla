------------------------------- MODULE MCSync -------------------------------
(***************************************************************************)
(* Instances of VtfsSync for TLC.  Threads are interchangeable, and so are *)
(* the bytes they write.                                                   *)
(***************************************************************************)
EXTENDS VtfsSync, TLC

Symmetry == Permutations(Procs) \cup Permutations(Bytes)

=============================================================================
