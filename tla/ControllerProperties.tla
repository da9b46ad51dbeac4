------------------------ MODULE ControllerProperties ------------------------
(***************************************************************************)
(* What the HigressController controller should guarantee.                 *)
(***************************************************************************)
EXTENDS ControllerReconciler

StoredSpec(c) == setDefaultValues(c, controllers[c].content.spec)
KeyFor(step, c) == KeyOf(step, c, StoredSpec(c))
BindingOf(c) == objects[KeyFor("ClusterRoleBinding", c)]

Bound(c) ==
    /\ Exists(controllers[c])
    /\ Exists(BindingOf(c))
    /\ Subject(c, StoredSpec(c)) \in BindingOf(c).content.subjects

\* Every variable has its type: a busy worker holds a HigressController with
\* its defaults filled in, no copy is ahead of the server, and an owner is an
\* incarnation that was there.
TypeOK ==
    /\ \A c \in Controllers :
        {controllers[c], controllerCache[c]} \subseteq Object(ControllerContent(StoredSpecs(c)))
    /\ DOMAIN objects = Keys /\ DOMAIN objectCache = Keys
    /\ \A k \in Keys :
        /\ objectCache[k].version <= objects[k].version
        /\ Exists(objects[k]) => objects[k].content.owner \in {Nil} \cup
              UNION {{Owner(c, u) : u \in 1 .. controllers[c].version} : c \in Controllers}
    /\ pending \in [Keys -> SUBSET Controllers]
    /\ terminating \subseteq {c.ns : c \in Controllers}
    /\ queue \subseteq Controllers
    /\ pc \in Steps
    /\ IF pc = "idle"
       THEN req = Nil /\ instance = NeverStored
       ELSE /\ req \in Controllers
            /\ instance.content \in ControllerContent(DefaultedSpecs(req))

-----------------------------------------------------------------------------
\* Cluster-wide access.

\* A HigressController that grants access when it goes loses its finalizer only
\* after its account is out of the ClusterRoleBinding, whatever edits switched
\* RBAC on and off before: finalizeHigressController looks at the spec of the
\* very version that RemoveFinalizer then writes.
UnboundWhenReleased ==
    [][\A c \in Controllers :
        Registered(c) /\ ~Registered(c)' /\ AccessOn(StoredSpec(c)) => ~Bound(c)]_vars

\* A subject is added only for a HigressController that holds the finalizer at
\* that moment, and whose deletion therefore waits for finalizeHigressController,
\* however old the copy is that createRBAC works with.
BoundUnderFinalizer ==
    [][\A c \in Controllers :
        ~Bound(c) /\ Bound(c)' /\ objects' # objects => Registered(c)]_vars

\* Whatever is created, for the controller or for its console, is created while
\* the finalizer of the HigressController is stored, and is owned by that very
\* incarnation of it or by nobody.
CreatedUnderFinalizer ==
    [][\A k \in Keys : ~Exists(objects[k]) /\ Exists(objects'[k]) =>
        /\ Registered(req)
        /\ objects'[k].content.owner \in {Nil, Owner(req, controllers[req].content.uid)}]_vars

-----------------------------------------------------------------------------
\* The desired state.

\* The operator will not act again on its own.
Settled ==
    /\ pc = "idle" /\ queue = {}
    /\ controllerCache = controllers
    /\ \A k \in Followed : objectCache[k] = objects[k]
    /\ \A k \in Keys : ~Garbage(k) /\ ~(Exists(objects[k]) /\ k.ns \in terminating)
    /\ \A c \in Controllers : ~(Live(c) /\ c.ns \in terminating)

Asked(step, c) ==
    /\ step \in RBACSteps => AccessOn(StoredSpec(c))
    /\ step = "ServiceAccount" => StoredSpec(c).serviceAccount.enable

\* The stored object is what the spec of c describes; what others merged into
\* the Deployment and the Service may be there as well.  Nobody watches the
\* CRDs: one that is edited waits for the next pass.
Describes(step, c, content) ==
    LET spec == StoredSpec(c)
        owner == Owner(c, controllers[c].content.uid)
    IN  CASE step = "CRD" -> content \in {CRDContent, EditedCRD}
          [] step = "ServiceAccount" -> content.owner = owner
          [] step \in {"ClusterRole", "Role"} -> content.rules = defaultRules
          [] step \in {"ClusterRoleBinding", "RoleBinding"} ->
                Subject(c, spec) \in content.subjects
          [] step = "ConfigMap" ->
                LET filled == updateGatewayConfigMapSpec(c, spec).spec
                IN  content.mesh = <<filled.discoveryAddress, filled.config>>
          [] step = "Deployment" ->
                content = updateDeploymentSpec(c, spec, [content EXCEPT !.owner = owner])
          [] step = "IngressClass" -> content.controller = spec.ingressClass
          [] step = "Service" ->
                content = updateServiceSpec([content EXCEPT !.owner = owner], spec)

Converged(c) ==
    /\ controllers[c].content.deployed
    /\ \A step \in Tracked \cap ControllerSteps : Asked(step, c) =>
          /\ Exists(objects[KeyFor(step, c)])
          /\ Describes(step, c, objects[KeyFor(step, c)].content)

\* When nothing is left to do, every HigressController that stays has the
\* objects its spec describes and is reported as deployed; one that was deleted
\* is gone.
SettledIsConverged ==
    Settled => \A c \in Controllers :
        /\ Exists(controllers[c]) => Live(c)
        /\ Live(c) /\ c.ns \notin terminating => Converged(c)

\* A HigressController that stays is reported as deployed in the end, even if
\* its console can never be reconciled: the status is written before the console.
LiveControllersGetDeployed ==
    \A c \in Controllers :
        <>[]Live(c) => <>(Exists(controllers[c]) /\ controllers[c].content.deployed)

Leaving(c) == Exists(controllers[c]) /\ ~Live(c)

\* No HigressController is stuck in its deletion while there is nothing to
\* unbind, or a binding to take it out of.
NoStuckDeletion ==
    \A c \in Controllers :
        []<>~(Leaving(c) /\ (AccessOn(StoredSpec(c)) => Exists(BindingOf(c))))

-----------------------------------------------------------------------------
\* The console.

ConsoleUpToDate(c) ==
    /\ Exists(controllers[c]) /\ HasConsole(StoredSpec(c))
    /\ LET object == objects[KeyFor("ConsoleConfigMap", c)]
       IN  /\ Exists(object)
           /\ updateConsoleConfigMapSpec(object.content, StoredSpec(c)) = object.content

\* The ConfigMap of the console is created, and updated when its spec changes.
ConsoleFollowsSpec ==
    \A c \in Controllers :
        <>[](Live(c) /\ HasConsole(StoredSpec(c))) => []<>ConsoleUpToDate(c)
=============================================================================
