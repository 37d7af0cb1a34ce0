------------------------------ MODULE MCReaddir ------------------------------
(***************************************************************************)
(* An instance of VtfsReaddir for TLC.  No symmetry is declared: a         *)
(* liveness property is checked.                                           *)
(***************************************************************************)
EXTENDS VtfsReaddir

=============================================================================
