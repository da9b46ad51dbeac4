------------------------- MODULE GatewayProperties -------------------------
(***************************************************************************)
(* What the HigressGateway controller should guarantee.                    *)
(***************************************************************************)
EXTENDS GatewayReconciler

-----------------------------------------------------------------------------
\* Types.

\* Every variable has its type: what is stored is a gateway or an object with
\* a version, and a busy worker holds a gateway with its defaults filled in.
TypeOK ==
    /\ DOMAIN gateways = Gateways /\ DOMAIN gatewayCache = Gateways
    /\ \A g \in Gateways :
        {gateways[g], gatewayCache[g]} \subseteq Object(GatewayContent(StoredSpecs(g)))
    /\ DOMAIN objects = Keys /\ DOMAIN objectCache = Keys
    /\ \A k \in Keys :
        {objects[k], objectCache[k]} \subseteq Object(ContentOf(k.kind))
    /\ pending \in [Keys -> SUBSET Gateways]
    /\ terminating \subseteq {g.ns : g \in Gateways}
    /\ queue \subseteq Gateways
    /\ pc \in Steps \ (AllKinds \ Kinds)
    /\ IF pc = "idle"
       THEN req = Nil /\ instance = NeverStored
       ELSE /\ req \in Gateways
            /\ instance.version \in Nat
            /\ instance.content \in GatewayContent(DefaultedSpecs(req))
    /\ changes \in 0 .. MaxChanges /\ faults \in 0 .. MaxFaults /\ crashes \in 0 .. MaxCrashes

-----------------------------------------------------------------------------
\* Cluster-wide access.

StoredSpec(g) == setDefaultValues(g, gateways[g].content.spec)
SubjectOf(g) == Subject(g, StoredSpec(g))
BindingOf(g) == objects[KeyOf("ClusterRoleBinding", g, StoredSpec(g))]

Bound(g) ==
    /\ Exists(gateways[g])
    /\ Exists(BindingOf(g))
    /\ SubjectOf(g) \in BindingOf(g).content.subjects

\* No cluster-wide access outlives its gateway: every subject of a
\* ClusterRoleBinding is the service account of a gateway that still holds the
\* finalizer.  finalizeHigressGateway runs before RemoveFinalizer, createRBAC
\* after AddFinalizer.
NoDanglingSubject ==
    \A k \in Keys : k.kind = "ClusterRoleBinding" /\ Exists(objects[k]) =>
        \A s \in objects[k].content.subjects :
            \E g \in Gateways : Registered(g) /\ s = SubjectOf(g)

\* The controller implements the promise of ClusterAccess, while several
\* gateways share one ClusterRoleBinding and update it from stale copies.
Access == INSTANCE ClusterAccess WITH
    registered <- {g \in Gateways : Registered(g)},
    closing <- {g \in Gateways : Registered(g) /\ gateways[g].content.deleting},
    bound <- {g \in Gateways : Bound(g)}
ImplementsClusterAccess == Access!Spec

\* Deployed is reported only when the service account of the gateway is bound
\* (for gateways that ask for RBAC): Status().Update comes after createRBAC.
DeployedOnlyWhenBound ==
    [][\A g \in Gateways :
        (/\ Exists(gateways'[g]) /\ gateways'[g].content.deployed
         /\ ~(Exists(gateways[g]) /\ gateways[g].content.deployed)
         /\ StoredSpec(g).rbac /\ StoredSpec(g).serviceAccount.enable)
        => Bound(g)]_vars

-----------------------------------------------------------------------------
\* Objects and their gateway.

\* An object is created only for a gateway whose finalizer is stored, and its
\* owner is that very incarnation of the gateway: nothing is created on behalf
\* of a resource that is gone already, however stale the worker's copy is.
CreatedUnderFinalizer ==
    [][\A k \in Keys : ~Exists(objects[k]) /\ Exists(objects'[k]) =>
        /\ Registered(req)
        /\ objects'[k].content.owner \in {Nil, Owner(req, gateways[req].content.uid)}]_vars

-----------------------------------------------------------------------------
\* The desired state.

\* Nothing is queued, running, undelivered or waiting to be collected: the
\* operator will not act again on its own.
Settled ==
    /\ pc = "idle" /\ queue = {}
    /\ gatewayCache = gateways
    /\ \A k \in Followed : objectCache[k] = objects[k]
    /\ \A k \in Keys : ~Garbage(k) /\ ~(Exists(objects[k]) /\ k.ns \in terminating)
    /\ \A g \in Gateways : ~(Live(g) /\ g.ns \in terminating)

Asked(kind, g) ==
    kind \in RBACKinds => StoredSpec(g).rbac /\ StoredSpec(g).serviceAccount.enable

\* The mesh configuration of g, which always names an address to discover.
WantedMesh(g, s) ==
    [discoveryAddress |->
        CASE s.discoveryAddress # "" -> s.discoveryAddress
          [] s.discoveryAddress = "" /\ s.enableHigressIstio -> "istiod"
          [] OTHER -> g.name,
     config |-> s.config]

\* The stored object is what the spec of g describes.
Describes(s, kind, g, content) ==
    CASE kind = "ServiceAccount" -> content.owner.uid = gateways[g].content.uid
      [] kind \in {"ClusterRole", "Role"} -> content = initRules
      [] kind \in {"ClusterRoleBinding", "RoleBinding"} -> Subject(g, s) \in content.subjects
      [] kind = "ConfigMap" -> content.mesh = WantedMesh(g, s)
      [] kind = "Deployment" ->
            \E env \in Orderings(s.env) :
                content = updateDeploymentSpec(g, s, Owner(g, gateways[g].content.uid), env)
      [] kind = "Service" ->
            /\ content.owner.uid = gateways[g].content.uid
            /\ [content EXCEPT !.labelled = FALSE]
                  = [initService(g, content.owner.uid, s) EXCEPT !.labelled = FALSE]

UpToDate(kind, g) ==
    LET object == objects[KeyOf(kind, g, StoredSpec(g))]
    IN  Exists(object) /\ Describes(StoredSpec(g), kind, g, object.content)

Converged(g) ==
    /\ gateways[g].content.deployed
    /\ \A kind \in Kinds : Asked(kind, g) => UpToDate(kind, g)

\* When nothing is left to do, every gateway that is neither deleted nor in a
\* terminating namespace has the objects its spec describes and is reported as
\* deployed; a gateway that was deleted is gone, with what it owned.
SettledIsConverged ==
    Settled => \A g \in Gateways :
        /\ Exists(gateways[g]) => Live(g)
        /\ Live(g) /\ g.ns \notin terminating => Converged(g)

\* Once users leave the gateways alone and calls stop failing, the operator
\* comes to rest: no reconcile feeds on the events of its own writes.
Settles == <>[]Settled

\* A gateway that stays is reported as deployed in the end.
LiveGatewaysGetDeployed ==
    \A g \in Gateways :
        <>[]Live(g) => <>(Exists(gateways[g]) /\ gateways[g].content.deployed)

Leaving(g) == Exists(gateways[g]) /\ ~Live(g)

\* A gateway marked for deletion goes away: the finalizer comes off.
DeletionFinishes == \A g \in Gateways : Leaving(g) ~> ~Exists(gateways[g])

\* The same for a gateway whose ClusterRoleBinding exists when it is marked.
DeletionWithBindingFinishes ==
    \A g \in Gateways : (Leaving(g) /\ Exists(BindingOf(g))) ~> ~Exists(gateways[g])

-----------------------------------------------------------------------------
\* Reconcile on a cluster that is as the spec describes it writes nothing: an
\* object that is up to date stays as it is, unless the worker still reconciles
\* an older spec.
CurrentPass(g) == req = g => instance.version = gateways[g].version

UpToDateObjectsStay ==
    [][\A g \in Gateways, kind \in Kinds :
        LET k == KeyOf(kind, g, StoredSpec(g))
        IN  (/\ Live(g) /\ CurrentPass(g) /\ changes' = changes
             /\ Asked(kind, g) /\ UpToDate(kind, g))
            => objects'[k] = objects[k]]_vars
=============================================================================
