------------------------ MODULE MCVibrationCondition ------------------------
(* Instances of VibrationCondition for TLC.                                *)
EXTENDS VibrationCondition, TLC

\* No definition tells one thread from another.
MCSymmetry == Permutations(Threads)
=============================================================================
