--------------------------- MODULE MCBleConnection ---------------------------
(* Instances of BleConnection for TLC.                                     *)
EXTENDS BleConnection

\* Two requests are under way together only while no connect_device is and no
\* overwritten connection is left; connect_device overwrites only once.
MCFewActors ==
  LET calling == \E t \in Threads : call[t] # "idle" IN
  /\ ~(calling /\ displaced # {})
  /\ (calling \/ displaced # {}) => Cardinality({r \in Requests : req[r] # NoReq}) <= 1
=============================================================================
