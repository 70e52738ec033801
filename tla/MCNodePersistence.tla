------------------------- MODULE MCNodePersistence -------------------------
(* Instances of NodePersistence for TLC.                                   *)
EXTENDS NodeRefinement, TLC

\* Every storage fault at once, and the two largest combinations that keep
\* transient read failures and torn records apart.
MCFaultModels ==
  {FaultKinds, {"write", "torn", "remove"}, {"read", "write", "remove"}}

\* Quiescence only takes steps away.  So safety need not look past it, and a
\* reset that is never completed once the storage works is also one where the
\* storage failed until one of the boots that find the marker, and where the
\* marker is never absent after it: no other end of the faults is needed.
MCLateQuiet == ~quiet /\ quiet' => pc = "boot" /\ marker # "absent"
MCUnfinished == quiet => marker # "absent"
=============================================================================
