--------------------------- MODULE ResettableNode ---------------------------
(***************************************************************************)
(* What a sensor node promises the gateway about its identity: it takes    *)
(* one when it has none, it keeps it through anything but a factory reset, *)
(* and a reset that has begun is not over before the identity is gone.     *)
(* NodePersistence implements this with two copies of a record, a reset    *)
(* marker and a boot sequence; ResetReregister builds on it.               *)
(***************************************************************************)
CONSTANT NodeIds  \* the identities a node may be given

VARIABLES
  held,       \* the identities in the node's store: none or one
  resetting   \* the reset marker is in the node's store

nodeVars == <<held, resetting>>

NodeTypeOK == held \in {{}} \cup {{id} : id \in NodeIds} /\ resetting \in BOOLEAN

NodeInit == held = {} /\ resetting = FALSE

\* PROV or provision_identity; the identity a node has is never replaced.
NodeProvision(id) ==
  held = {} /\ held' = {id} /\ UNCHANGED resetting

\* The marker of a confirmed reset reaches the store.
NodeBeginReset ==
  ~resetting /\ resetting' = TRUE /\ UNCHANGED held

\* The last copy of the identity is deleted, before the reboot or by a boot.
NodeErase ==
  resetting /\ held # {} /\ held' = {} /\ UNCHANGED resetting

\* The boot that found everything deleted removes the marker.
NodeFinishReset ==
  resetting /\ held = {} /\ resetting' = FALSE /\ UNCHANGED held

NodeNext ==
  \/ \E id \in NodeIds : NodeProvision(id)
  \/ NodeBeginReset \/ NodeErase \/ NodeFinishReset

NodeSpec == NodeInit /\ [][NodeNext]_nodeVars
=============================================================================
