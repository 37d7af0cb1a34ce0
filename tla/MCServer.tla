------------------------------- MODULE MCServer -------------------------------
(***************************************************************************)
(* Instances of VtfsServer for TLC.  Clients are interchangeable, and so   *)
(* are names.                                                              *)
(***************************************************************************)
EXTENDS VtfsServer, TLC

Symmetry == Permutations(Clients) \cup Permutations(Names)

=============================================================================
