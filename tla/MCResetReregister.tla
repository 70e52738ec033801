------------------------- MODULE MCResetReregister -------------------------
(* Instance of ResetReregister for TLC: the sensor, registered as a and to  *)
(* be registered again as a or as b, one guided workflow and the one-shot   *)
(* API, and two USB reset operations.                                       *)
EXTENDS ResetReregister

\* Two reset operations have been launched.
MCTwoResets == Cardinality({k \in ResetIds : resets[k].state # "unused"}) > 1

\* Constraint on the request that launches a second operation: the first one is
\* still queued, so that one of them finds the lock held by the other.
MCLaunchedTogether ==
  MCTwoResets' => MCTwoResets \/ \E k \in ResetIds : resets[k].state = "queued"

\* Constraint: two operations are followed to their end with the sensor,
\* removals, restores and restarts in between, and the workflow only where they
\* put it; a guided and a one-shot confirmation are held at once only before
\* the registration.
MCFewRequests ==
  /\ MCTwoResets =>
       /\ token = None
       /\ \A o \in Ops :
            /\ confirm[o] = "none" /\ wf[o].target = None /\ ~wf[o].addr
            /\ wf[o].state \in {"none", "reset_in_progress", "waiting_for_usb_reenumeration",
                                "post_reset_verification", "recoverable_error",
                                "unprovisioned_ready_for_registration"}
  /\ \A o \in Ops : wf[o].addr \/ wf[o].target # None => confirm[o] = "none" \/ token = None
=============================================================================
