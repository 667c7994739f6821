-------------------------- MODULE MCReferenceSweep --------------------------
(***************************************************************************)
(* An instance of ReferenceSweep for TLC.                                  *)
(***************************************************************************)
EXTENDS ReferenceSweep

CONSTANTS r1, r2, s1, s2  \* rows and processes, as model values
=============================================================================
