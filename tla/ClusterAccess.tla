---------------------------- MODULE ClusterAccess ----------------------------
(***************************************************************************)
(* What the operator promises about cluster-wide access: a gateway's       *)
(* service account is bound to the cluster role only while the gateway is  *)
(* registered (its finalizer is stored), it stays bound until the gateway  *)
(* is closing, and a gateway that leaves is unbound first.                 *)
(***************************************************************************)
CONSTANT Gateways

VARIABLES registered, closing, bound

access == <<registered, closing, bound>>

TypeOK == /\ registered \subseteq Gateways
          /\ closing \subseteq registered
          /\ bound \subseteq registered

Init == registered = {} /\ closing = {} /\ bound = {}

Register(g) ==
    /\ g \notin registered
    /\ registered' = registered \cup {g}
    /\ UNCHANGED <<closing, bound>>

Bind(g) ==
    /\ g \in registered
    /\ bound' = bound \cup {g}
    /\ UNCHANGED <<registered, closing>>

Close(g) ==
    /\ g \in registered
    /\ closing' = closing \cup {g}
    /\ UNCHANGED <<registered, bound>>

Unbind(g) ==
    /\ g \in closing
    /\ bound' = bound \ {g}
    /\ UNCHANGED <<registered, closing>>

Unregister(g) ==
    /\ g \in closing \ bound
    /\ registered' = registered \ {g}
    /\ closing' = closing \ {g}
    /\ UNCHANGED bound

Next == \E g \in Gateways :
    Register(g) \/ Bind(g) \/ Close(g) \/ Unbind(g) \/ Unregister(g)

Spec == Init /\ [][Next]_access
=============================================================================
