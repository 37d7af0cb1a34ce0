------------------------------ MODULE MCModule ------------------------------
(***************************************************************************)
(* An instance of VtfsModule for TLC.                                      *)
(***************************************************************************)
EXTENDS VtfsModule, TLC

\* The names of entries are alike.
Symmetry == Permutations(Names)

=============================================================================
