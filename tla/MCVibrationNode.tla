--------------------------- MODULE MCVibrationNode ---------------------------
(* Instances of VibrationNode for TLC.                                       *)
EXTENDS VibrationNode, TLC
=============================================================================
