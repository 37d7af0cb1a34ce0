------------------------------ MODULE MCContent ------------------------------
(***************************************************************************)
(* Instances of VtfsContent for TLC.  Threads are interchangeable, and so  *)
(* are the bytes they write.                                               *)
(***************************************************************************)
EXTENDS VtfsContent, TLC

Symmetry == Permutations(Procs) \cup Permutations(Bytes)

=============================================================================
