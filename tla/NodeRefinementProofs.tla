------------------------ MODULE NodeRefinementProofs ------------------------
(***************************************************************************)
(* The stores, the marker and the boot sequence of NodePersistence         *)
(* implement ResettableNode, for any sets of identities and configurations *)
(* and any mix of storage faults: every step of the firmware is a step of  *)
(* the abstract node, or leaves it as it is.                               *)
(***************************************************************************)
EXTENDS NodeRefinement, NodePersistenceProofs

Of(rec) == IF rec.st = "valid" THEN {rec.val} ELSE {}

\* What the abstract node holds, slot by slot.
LEMMA HeldFact ==
  HeldIdentities = Of(nvm["identity_a"]) \cup Of(nvm["identity_b"])
  BY DEF HeldIdentities, IdentityKeys, Of

\* The same, after a step.
LEMMA HeldNextFact ==
  HeldIdentities' = Of(nvm'["identity_a"]) \cup Of(nvm'["identity_b"])
  BY DEF HeldIdentities, IdentityKeys, Of

\* Steps that leave the identity records alone do not change what is held.
LEMMA SameHeld ==
  ASSUME nvm'["identity_a"] = nvm["identity_a"], nvm'["identity_b"] = nvm["identity_b"]
  PROVE  HeldIdentities' = HeldIdentities
  BY HeldFact, HeldNextFact

\* A blank node is the abstract node without an identity.
LEMMA RefinedInit ==
  ASSUME Init
  PROVE  Node!NodeInit
<1>1. nvm["identity_a"].st = "absent" /\ nvm["identity_b"].st = "absent"
  BY DEF Init, AbsentRecord, Record, Keys
<1>2. HeldIdentities = {}
  BY <1>1, HeldFact DEF Of
<1> QED BY <1>2 DEF Init, Node!NodeInit

\* Deleting records empties the abstract node or leaves it, under a marker.
LEMMA RefinedRemove ==
  ASSUME IInv, RecoverRemove \/ ResetRemove
  PROVE  Node!NodeErase \/ UNCHANGED Node!nodeVars
<1>0. TypeOK /\ SlotInv /\ FlowInv
  BY DEF IInv
<1>1. marker # "absent" /\ marker' = marker
  BY <1>0 DEF FlowInv, RecoverRemove, ResetRemove
<1>2. \A k \in IdentityKeys : nvm'[k] = nvm[k] \/ nvm'[k] = AbsentRecord
  BY <1>0, RemoveStep DEF IdentityKeys, Keys
<1>3. Of(AbsentRecord) = {}
  BY DEF AbsentRecord, Record, Of
<1>4. HeldIdentities' = HeldIdentities \/ (HeldIdentities # {} /\ HeldIdentities' = {})
  <2>1. HeldIdentities' \subseteq HeldIdentities
    BY <1>2, <1>3, HeldFact, HeldNextFact DEF IdentityKeys
  <2>2. \A x, y \in HeldIdentities : x = y
    BY <1>0, HeldFact DEF SlotInv, Of
  <2> QED BY <2>1, <2>2
<1> QED BY <1>1, <1>4 DEF Node!NodeErase, Node!nodeVars

\* The first identity record is written into an empty store only.
LEMMA RefinedIdWriteA ==
  ASSUME IInv, IdWriteA
  PROVE  (\E id \in NodeIds : Node!NodeProvision(id)) \/ UNCHANGED Node!nodeVars
<1>0. TypeOK /\ SlotInv /\ FlowInv
  BY DEF IInv
<1>1. marker' = marker /\ op.id \in NodeIds
  BY <1>0 DEF IdWriteA, FlowInv
<1>2. CASE nvm' = nvm
  BY <1>1, <1>2, SameHeld DEF Node!nodeVars
<1>3. CASE nvm' # nvm
  <2>1. /\ nvm["identity_a"].st = "absent" /\ nvm["identity_b"].st = "absent"
        /\ nvm'["identity_b"] = nvm["identity_b"]
        /\ \/ nvm'["identity_a"] = nvm["identity_a"]
           \/ nvm'["identity_a"] = Record("valid", 1, op.id)
           \/ nvm'["identity_a"] = TornRecord
    BY <1>0, <1>3, IdWriteAStep DEF Keys
  <2>2. HeldIdentities = {}
    BY <2>1, HeldFact DEF Of
  <2>3. HeldIdentities' = {} \/ HeldIdentities' = {op.id}
    BY <2>1, HeldNextFact DEF Of, Record, TornRecord
  <2> QED BY <1>1, <2>2, <2>3 DEF Node!NodeProvision, Node!nodeVars
<1> QED BY <1>2, <1>3

\* The second identity record repeats the first.
LEMMA RefinedIdWriteB ==
  ASSUME IInv, IdWriteB
  PROVE  UNCHANGED Node!nodeVars
<1>0. TypeOK /\ SlotInv /\ FlowInv
  BY DEF IInv
<1>1. marker' = marker
  BY DEF IdWriteB
<1>2. /\ nvm["identity_a"] = Record("valid", 1, op.id) /\ nvm["identity_b"].st = "absent"
      /\ nvm'["identity_a"] = nvm["identity_a"]
      /\ \/ nvm'["identity_b"] = nvm["identity_b"]
         \/ nvm'["identity_b"] = Record("valid", 2, op.id)
         \/ nvm'["identity_b"] = TornRecord
  BY <1>0, IdWriteBStep DEF Keys
<1>3. HeldIdentities = {op.id}
  BY <1>2, HeldFact DEF Of, Record
<1>4. HeldIdentities' = {op.id}
  BY <1>2, HeldNextFact DEF Of, Record, TornRecord
<1> QED BY <1>1, <1>3, <1>4 DEF Node!nodeVars

\* A step that writes no record begins a reset, finishes one, or stutters.
LEMMA RefinedMarker ==
  ASSUME [Next]_vars, nvm' = nvm
  PROVE  Node!NodeBeginReset \/ Node!NodeFinishReset \/ UNCHANGED Node!nodeVars
<1>1. HeldIdentities' = HeldIdentities
  BY SameHeld
<1>2. CASE marker # "absent" /\ marker' = "absent"
  <2>1. \A k \in Keys : nvm[k].st = "absent"
    BY <1>2, MarkerClears
  <2>2. HeldIdentities = {}
    BY <2>1, HeldFact DEF Of, Keys
  <2> QED BY <1>1, <1>2, <2>2 DEF Node!NodeFinishReset
<1>3. CASE marker = "absent" /\ marker' # "absent"
  BY <1>1, <1>3 DEF Node!NodeBeginReset
<1>4. CASE (marker = "absent") <=> (marker' = "absent")
  BY <1>1, <1>4 DEF Node!nodeVars
<1> QED BY <1>2, <1>3, <1>4

\* Every step of the firmware, with a fault or a loss of power anywhere, is a
\* step of the abstract node or a stutter.
LEMMA RefinedStep ==
  ASSUME IInv, [Next]_vars
  PROVE  [Node!NodeNext]_Node!nodeVars
<1>1. CASE RecoverRemove \/ ResetRemove
  BY <1>1, RefinedRemove DEF Node!NodeNext
<1>2. CASE IdWriteA
  BY <1>2, RefinedIdWriteA DEF Node!NodeNext
<1>3. CASE IdWriteB
  BY <1>3, RefinedIdWriteB
<1>4. CASE ConfigWrite
  <2>1. TypeOK /\ SlotInv /\ FlowInv
    BY DEF IInv
  <2>2. \A k \in IdentityKeys : nvm'[k] = nvm[k]
    BY <1>4, <2>1, ConfigWriteStep DEF IdentityKeys, ConfigKeys, Keys
  <2>3. marker' = marker /\ HeldIdentities' = HeldIdentities
    BY <1>4, <2>2, SameHeld DEF ConfigWrite, IdentityKeys
  <2> QED BY <2>3 DEF Node!nodeVars
<1>5. CASE ~StoreStep
  BY <1>5, OtherSteps, RefinedMarker DEF Node!NodeNext
<1> QED BY <1>1, <1>2, <1>3, <1>4, <1>5 DEF StoreStep

\* The node implements ResettableNode: the two slots never show two identities,
\* the last copy of one goes only under a reset marker, and the marker goes only
\* when no copy is left.
THEOREM Refinement == Spec => ImplementsResettableNode
<1>1. Init => Node!NodeInit
  BY RefinedInit
<1>2. IInv /\ [Next]_vars => [Node!NodeNext]_Node!nodeVars
  BY RefinedStep
<1> QED BY <1>1, <1>2, Invariance, PTL DEF Spec, ImplementsResettableNode, Node!NodeSpec
=============================================================================
