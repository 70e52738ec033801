--------------------------- MODULE NodeRefinement ---------------------------
(***************************************************************************)
(* The node's stores and boot sequence implement ResettableNode: a reader  *)
(* who only looks for a valid identity record and for a reset marker sees  *)
(* the abstract node, whatever faults and power losses happen underneath.  *)
(***************************************************************************)
EXTENDS NodePersistence

HeldIdentities == {nvm[k].val : k \in {j \in IdentityKeys : nvm[j].st = "valid"}}

Node == INSTANCE ResettableNode
          WITH held <- HeldIdentities, resetting <- marker # "absent"

\* The two identity slots never hold two identities, the last copy of an
\* identity goes only while the marker of a reset is stored, and the marker
\* goes only once no copy is left (node_identity_store.cpp, factory_reset.cpp,
\* setup()), with torn and failed writes and power lost between any two.
ImplementsResettableNode == Node!NodeSpec
=============================================================================
