-------------------------- MODULE MCInstallations --------------------------
(* Instances of Installations for TLC.                                     *)
EXTENDS Installations, FiniteSets

\* The configurations that occur in the state.
MCUsed ==
  UNION {{row[i].cfg, row[i].prev} : i \in Installs}
    \cup {attempt[t].cfg : t \in Transactions} \cup {device, inflight.cfg}

\* A second configuration, another writer of the node, or a late command.
MCNodeBusy ==
  \/ Cardinality(MCUsed \ {None}) > 1
  \/ touched # {}
  \/ device # None /\ origin = NoTx
  \/ inflight # NoCommand /\ job.tx # inflight.tx

\* Anything but PATCH, validate and apply, or a row's part of an attempt lost.
MCRowsBusy ==
  \/ batch # NoBatch \/ waived # {} \/ cut # {} \/ check["api"] # NoCheck
  \/ "state" \in DOMAIN request.columns
  \/ \E i \in Installs : row[i].archived \/ row[i].state \in {"disabled", "removed"}

\* Constraint: races on the rows and races on the node, each with all its
\* interleavings, but not both at once; the configurations come in one order.
MCOneFocus ==
  /\ ~(MCNodeBusy /\ MCRowsBusy)
  /\ MCUsed = {None} \/ (CHOOSE c \in Configs : TRUE) \in MCUsed
  /\ waived # {} => issued <= 1
  /\ batch # NoBatch => check["api"] = NoCheck
=============================================================================
