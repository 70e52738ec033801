---------------------------- MODULE MCTelemetry ----------------------------
(* Instances of Telemetry for TLC.                                         *)
EXTENDS Telemetry, TLC

\* Only a boot that made at most one pass of loop() is followed by another,
\* which makes one.
MCEarlyReboot == boot' # boot => clock <= 2

\* Packets overtake each other at the database in the first two passes.
MCShort ==
  /\ boot > 1 => clock <= 2
  /\ Len(tasks) > 1 => clock <= 4
=============================================================================
