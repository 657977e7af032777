--------------------------- MODULE MCWritingPilot ---------------------------
(***************************************************************************)
(* Instances of WritingPilot for TLC.                                      *)
(***************************************************************************)
EXTENDS WritingPilot

CONSTANTS p1, p2

=============================================================================
