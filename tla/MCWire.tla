------------------------------- MODULE MCWire -------------------------------
(***************************************************************************)
(* An instance of VtfsWire for TLC.                                        *)
(***************************************************************************)
EXTENDS VtfsWire

\* 1 is characters that take one byte in a query and 255 ones that take three;
\* each sets low bits that end up in the next character.
ByteSet == {1, 255}

=============================================================================
