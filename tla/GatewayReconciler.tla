------------------------- MODULE GatewayReconciler -------------------------
(***************************************************************************)
(* The HigressGateway controller against the API server: one worker that   *)
(* takes gateways off a deduplicating queue and walks through Reconcile,   *)
(* one step per call to the API; informers that lag behind the server; the *)
(* garbage collector and the namespace controller; users who create, edit  *)
(* and delete gateways and objects; calls that fail and processes that     *)
(* die.  Reads go to the informers, writes to the server.                  *)
(***************************************************************************)
EXTENDS KubeAPI, GatewayObjects

CONSTANTS
    Kinds,          \* the kinds of objects that are tracked in this instance
    LaggingKinds,   \* those whose informer may serve an old object
    UserActions,    \* what users do: create, update, delete, drift, terminate
    DriftKinds,     \* the kinds whose objects a user may delete
    MaxChanges,     \* bound on the number of user actions
    FailingSteps,   \* the steps of Reconcile at which a call may fail
    MaxFaults,      \* bound on the number of failing calls
    MaxCrashes      \* bound on the number of crashes

ASSUME BoundsAssumption == {MaxChanges, MaxFaults, MaxCrashes} \subseteq Nat

VARIABLES
    gateways,       \* gateway -> the stored HigressGateway
    gatewayCache,   \* gateway -> the informer's copy
    objects,        \* key -> the stored object
    objectCache,    \* key -> the informer's copy
    pending,        \* key -> the owners its undelivered events will enqueue
    terminating,    \* namespaces in phase Terminating
    queue,          \* gateways in the workqueue
    pc,             \* the step of Reconcile the worker is at
    req,            \* the gateway being reconciled, Nil when idle
    instance,       \* the worker's copy of it
    changes, faults, crashes

serverVars == <<gateways, objects, terminating>>
cacheVars == <<gatewayCache, objectCache, pending>>
workerVars == <<pc, req, instance>>
boundVars == <<changes, faults, crashes>>
vars == <<serverVars, cacheVars, queue, workerVars, boundVars>>

Keys == UNION {KeysOf(g, Kinds) : g \in Gateways}

\* The controller Owns these; ConfigMaps too, but they carry no owner.
WithoutDeployments == {"ServiceAccount", "Service"}     \* variants: an Owns is missing
WithoutAccounts == {"Deployment", "Service"}
WatchedKinds == {"ServiceAccount", "Deployment", "Service"}
RBACKinds == {"ClusterRole", "ClusterRoleBinding", "Role", "RoleBinding"}

\* The steps of Reconcile after the finalizer is on, in order.
StatusFirst ==      \* variant: the status is written before the bindings
    [ServiceAccount |-> 1, ClusterRole |-> 2, ClusterRoleBinding |-> 10,
     Role |-> 4, RoleBinding |-> 5, ConfigMap |-> 6, Skywalking |-> 7,
     Deployment |-> 8, Service |-> 9, Status |-> 3]
Order == [ServiceAccount |-> 1, ClusterRole |-> 2, ClusterRoleBinding |-> 3,
          Role |-> 4, RoleBinding |-> 5, ConfigMap |-> 6, Skywalking |-> 7,
          Deployment |-> 8, Service |-> 9, Status |-> 10]
EnsureSteps == DOMAIN Order
Steps == {"idle", "finalize", "removeFinalizer", "namespace", "addFinalizer"}
         \cup EnsureSteps

ASSUME KindsAssumption ==
    /\ Kinds \subseteq AllKinds
    /\ "ClusterRoleBinding" \in Kinds
    /\ LaggingKinds \subseteq Kinds
    /\ DriftKinds \subseteq Kinds
    /\ FailingSteps \subseteq Steps
    /\ UserActions \subseteq {"create", "update", "delete", "drift", "terminate"}

-----------------------------------------------------------------------------
\* The gateway resource.

GatewayContent(specs) == [uid : Nat, deleting : BOOLEAN, finalizer : BOOLEAN,
                          deployed : BOOLEAN, spec : specs]

ASSUME NothingAssumption ==
    /\ Nil \notin Gateways
    /\ Nil \notin Owners
    /\ \A g \in Gateways : Nothing \notin GatewayContent(StoredSpecs(g))
    /\ \A kind \in Kinds : Nothing \notin ContentOf(kind)

Live(g) == Exists(gateways[g]) /\ ~gateways[g].content.deleting
Registered(g) == Exists(gateways[g]) /\ gateways[g].content.finalizer

OwnerLives(content) ==
    /\ Exists(gateways[content.owner.gateway])
    /\ gateways[content.owner.gateway].content.uid = content.owner.uid

Garbage(k) ==
    /\ Exists(objects[k])
    /\ objects[k].content.owner # Nil
    /\ ~OwnerLives(objects[k].content)

-----------------------------------------------------------------------------
\* The informers.

\* What the worker reads: an informer that lags may serve an older object.
Seen(k) == IF k.kind \in LaggingKinds THEN objectCache[k] ELSE objects[k]

\* The objects whose cached copy matters: it is read, or its events are.
Followed == {k \in Keys : k.kind \in LaggingKinds \cup WatchedKinds}

OwnersOf(k, object) ==
    IF k.kind \in WatchedKinds /\ Exists(object) /\ object.content.owner # Nil
    THEN {object.content.owner.gateway} ELSE {}

\* Every change of a watched object is an event for its owner, before and after.
Store(k, object) ==
    /\ objects' = [objects EXCEPT ![k] = object]
    /\ pending' = [pending EXCEPT ![k] =
          IF object = objects[k] THEN @
          ELSE @ \cup OwnersOf(k, objects[k]) \cup OwnersOf(k, object)]

DeliverGateway(g) ==
    /\ gatewayCache[g] # gateways[g]
    /\ gatewayCache' = [gatewayCache EXCEPT ![g] = gateways[g]]
    /\ queue' = queue \cup {g}
    /\ UNCHANGED <<serverVars, objectCache, pending, workerVars, boundVars>>

DeliverObject(k) ==
    /\ k \in Followed
    /\ objectCache[k] # objects[k]
    /\ objectCache' = [objectCache EXCEPT ![k] = objects[k]]
    /\ queue' = queue \cup pending[k]
    /\ pending' = [pending EXCEPT ![k] = {}]
    /\ UNCHANGED <<serverVars, gatewayCache, workerVars, boundVars>>

-----------------------------------------------------------------------------
\* The worker: how a step ends.

Idle == pc' = "idle" /\ req' = Nil /\ instance' = NeverStored

\* Reconcile returns without an error.
Finish == Idle /\ UNCHANGED queue

\* Reconcile returns an error: the request goes back to the queue.
DropError == Finish     \* variant: the error is only logged
Retry == Idle /\ queue' = queue \cup {req}

wanted == instance.content.spec

\* The steps Reconcile does not skip for this instance.
Applies(step) ==
    CASE step = "Status" -> TRUE
      [] step = "Skywalking" -> "ConfigMap" \in Kinds /\ wanted.skywalking.enable
      [] step \in RBACKinds -> step \in Kinds /\ wanted.rbac /\ wanted.serviceAccount.enable
      [] OTHER -> step \in Kinds

Position(step) == IF step \in EnsureSteps THEN Order[step] ELSE 0
Later(step) == {q \in EnsureSteps : Order[q] > Position(step) /\ Applies(q)}

GoTo(step) == pc' = step /\ UNCHANGED <<queue, req>>
Continue ==
    \E next \in Later(pc) :
        /\ \A other \in Later(pc) : Order[next] <= Order[other]
        /\ GoTo(next)

\* The process dies.  Its successor lists everything, and every object it
\* lists is an event.
Restart ==
    /\ Idle
    /\ gatewayCache' = gateways
    /\ objectCache' = [k \in Keys |-> IF k \in Followed THEN objects[k] ELSE objectCache[k]]
    /\ pending' = [k \in Keys |-> {}]
    /\ queue' = {g \in Gateways : Exists(gateways[g])}
                \cup UNION {OwnersOf(k, objects[k]) : k \in Followed}

\* A read or a write that ends in an error of the network or the server.
Fault == pc \in FailingSteps /\ faults < MaxFaults /\ faults' = faults + 1

\* A write to the API server.  A call that fails may have been carried out.
CallForGateway(answer, next) ==
    /\ \/ /\ gateways' = [gateways EXCEPT ![req] = answer.object]
          /\ IF answer.ok THEN next ELSE Retry
          /\ UNCHANGED faults
       \/ /\ Fault
          /\ gateways' \in {gateways, [gateways EXCEPT ![req] = answer.object]}
          /\ Retry
    /\ UNCHANGED <<objects, terminating, cacheVars, changes, crashes>>

\* Nothing is created in a namespace that terminates, and the selector of a
\* Deployment is immutable.
Admitted(k, answer) ==
    LET before == objects[k]
        creates == ~Exists(before) \/ k.kind = "ServiceAccount"
        reselects == /\ k.kind = "Deployment"
                     /\ Exists(before)
                     /\ before.content.selector # answer.object.content.selector
    IN  IF (creates /\ k.ns \in terminating) \/ reselects
        THEN [ok |-> FALSE, object |-> before]
        ELSE answer

CallForObject(k, answer) ==
    LET result == Admitted(k, answer)
    IN  /\ \/ /\ Store(k, result.object)
              /\ IF result.ok THEN Continue /\ UNCHANGED instance ELSE Retry
              /\ UNCHANGED faults
           \/ /\ Fault
              /\ Store(k, result.object) \/ UNCHANGED <<objects, pending>>
              /\ Retry
        /\ UNCHANGED <<gateways, terminating, gatewayCache, objectCache, changes, crashes>>

\* Deployments and Services come back completed with defaults.
Forced(k) == k.kind \in {"Deployment", "Service"}

CreateOrUpdateObject(k, fresh, Mutate(_)) ==
    CallForObject(k, CreateOrUpdate(objects[k], Seen(k), fresh,
        IF Exists(Seen(k)) THEN Mutate(Seen(k).content) ELSE fresh, Forced(k)))

-----------------------------------------------------------------------------
\* Reconcile: the read of the instance and its branches.

Reconcile(g) ==
    LET read == gatewayCache[g]
        ready == [read EXCEPT !.content.spec = setDefaultValues(g, @)]
    IN  /\ pc = "idle"
        /\ g \in queue
        /\ \/ /\ queue' = queue \ {g}
              /\ IF Exists(read) /\ (read.content.deleting => read.content.finalizer)
                 THEN /\ req' = g
                      /\ instance' = ready
                      /\ pc' = IF read.content.deleting THEN "finalize" ELSE "namespace"
                 ELSE UNCHANGED workerVars
              /\ UNCHANGED faults
           \/ Fault /\ UNCHANGED <<queue, workerVars>>
        /\ UNCHANGED <<serverVars, cacheVars, changes, crashes>>

SkipFinalizer == FALSE      \* variant: no finalizer is added
NeedsFinalizer == ~instance.content.finalizer

\* A namespace that terminates ends the pass; so does a read that fails, and
\* the request is not queued again.
checkNamespace ==
    /\ pc = "namespace"
    /\ \/ req.ns \in terminating /\ Finish /\ UNCHANGED faults
       \/ Fault /\ Finish
       \/ /\ req.ns \notin terminating
          /\ IF NeedsFinalizer THEN GoTo("addFinalizer") ELSE Continue
          /\ UNCHANGED <<instance, faults>>
    /\ UNCHANGED <<serverVars, cacheVars, changes, crashes>>

\* The update stores the whole instance, with its defaults.
addFinalizer ==
    LET answer == Update(gateways[req], instance, [instance.content EXCEPT !.finalizer = TRUE])
    IN  /\ pc = "addFinalizer"
        /\ CallForGateway(answer, Continue /\ instance' = answer.object)

\* Drops the subject of this gateway and keeps the others.
NamesKept(subjects, name, ns) == {s \in subjects : s.name # name}   \* variant
SubjectsKept(subjects, name, ns) == {s \in subjects : s.name # name \/ s.ns # ns}

\* A binding that is not there is an error.
IgnoreNotFound == GoTo("removeFinalizer") /\ UNCHANGED instance     \* variant
BindingNotFound == Retry

finalizeHigressGateway ==
    LET name == getServiceAccount(req, wanted)
        k == KeyOf("ClusterRoleBinding", req, wanted)
        crb == Seen(k)
        update == [crb.content EXCEPT !.subjects = SubjectsKept(@, name, req.ns)]
        result == Update(objects[k], crb, update)
    IN  /\ pc = "finalize"
        /\ \/ /\ ~Exists(crb)
              /\ BindingNotFound
              /\ UNCHANGED <<objects, pending, faults>>
           \/ /\ Exists(crb)
              /\ Store(k, result.object)
              /\ IF result.ok THEN GoTo("removeFinalizer") /\ UNCHANGED instance ELSE Retry
              /\ UNCHANGED faults
           \/ /\ Fault
              /\ \/ Exists(crb) /\ Store(k, result.object)
                 \/ UNCHANGED <<objects, pending>>
              /\ Retry
        /\ UNCHANGED <<gateways, terminating, gatewayCache, objectCache, changes, crashes>>

\* The server deletes a terminating gateway that has lost its last finalizer.
removeFinalizer ==
    /\ pc = "removeFinalizer"
    /\ CallForGateway(Update(gateways[req], instance, Nothing), Finish)

-----------------------------------------------------------------------------
\* Reconcile: one object after the other.

keyOf(kind) == KeyOf(kind, req, wanted)
uid == instance.content.uid

createServiceAccount ==
    /\ pc = "ServiceAccount"
    /\ CallForObject(keyOf(pc),
           CreateIfNotExists(objects[keyOf(pc)], initServiceAccount(req, uid)))

\* createRBAC, in its four calls.
createClusterRole ==
    /\ pc = "ClusterRole"
    /\ CreateOrUpdateObject(keyOf(pc), initRules, muteRules)

createClusterRoleBinding ==
    LET Mute(stored) == updateClusterRoleBinding(stored, req, wanted)
    IN  /\ pc = "ClusterRoleBinding"
        /\ CreateOrUpdateObject(keyOf(pc), initClusterRoleBinding(req, wanted), Mute)

createRole ==
    /\ pc = "Role"
    /\ CreateOrUpdateObject(keyOf(pc), initRules, muteRules)

createRoleBinding ==
    LET Mute(stored) == updateRoleBinding(stored, req, wanted)
    IN  /\ pc = "RoleBinding"
        /\ CreateOrUpdateObject(keyOf(pc), initRoleBinding(req, wanted), Mute)

createConfigMap ==
    LET Mute(stored) == [stored EXCEPT !.mesh = GatewayConfigMap(req, wanted).mesh]
    IN  /\ pc = "ConfigMap"
        /\ CreateOrUpdateObject(keyOf(pc), GatewayConfigMap(req, wanted), Mute)

\* Second half of createConfigMap: it never gets to write its ConfigMap.
createSkywalkingConfigMap ==
    /\ pc = "Skywalking"
    /\ IF SkywalkingPanics(wanted)
       THEN Restart
       ELSE Retry /\ UNCHANGED cacheVars
    /\ UNCHANGED <<serverVars, boundVars>>

createDeployment ==
    /\ pc = "Deployment"
    /\ \E env \in Orderings(wanted.env) :
          LET Mute(stored) == updateDeploymentSpec(req, wanted, stored.owner, env)
          IN  CreateOrUpdateObject(keyOf(pc),
                  updateDeploymentSpec(req, wanted, Owner(req, uid), env), Mute)

createService ==
    LET k == keyOf("Service")
        Mute(stored) == updateServiceSpec(stored, wanted)
        panics == \/ ServicePanics(wanted, wanted.labelled)
                  \/ Exists(Seen(k)) /\ ServicePanics(wanted, Seen(k).content.labelled)
    IN  /\ pc = "Service"
        /\ IF panics
           THEN Restart /\ UNCHANGED <<serverVars, boundVars>>
           ELSE CreateOrUpdateObject(k, initService(req, uid, wanted), Mute)

\* The status is a subresource: the rest of the resource is not written.
updateStatus ==
    /\ pc = "Status"
    /\ IF instance.content.deployed
       THEN Finish /\ UNCHANGED <<serverVars, cacheVars, boundVars>>
       ELSE CallForGateway(
                Update(gateways[req], instance, [gateways[req].content EXCEPT !.deployed = TRUE]),
                Finish)

Worker ==
    \/ checkNamespace \/ addFinalizer
    \/ finalizeHigressGateway \/ removeFinalizer
    \/ createServiceAccount
    \/ createClusterRole \/ createClusterRoleBinding \/ createRole \/ createRoleBinding
    \/ createConfigMap \/ createSkywalkingConfigMap
    \/ createDeployment \/ createService \/ updateStatus

-----------------------------------------------------------------------------
\* The users, the garbage collector, the namespace controller.

Change(action) ==
    /\ action \in UserActions
    /\ changes < MaxChanges
    /\ changes' = changes + 1
    /\ UNCHANGED <<gatewayCache, objectCache, queue, workerVars, faults, crashes>>

SetGateway(g, content) ==
    /\ gateways' = [gateways EXCEPT ![g] = Written(@, content)]
    /\ UNCHANGED <<objects, pending, terminating>>

RemoveObject(k) ==
    /\ Store(k, Removed(objects[k]))
    /\ UNCHANGED <<gateways, terminating>>

CreateGateway(g, manifest) ==
    /\ Change("create")
    /\ ~Exists(gateways[g])
    /\ g.ns \notin terminating
    /\ SetGateway(g, [uid |-> gateways[g].version + 1, deleting |-> FALSE,
                      finalizer |-> FALSE, deployed |-> FALSE, spec |-> manifest])

UpdateGateway(g, manifest) ==
    /\ Change("update")
    /\ Exists(gateways[g])
    /\ gateways[g].content.spec \notin {manifest, setDefaultValues(g, manifest)}
    /\ SetGateway(g, [gateways[g].content EXCEPT !.spec = manifest])

\* A resource with a finalizer is only marked.
Deletion(content) == IF content.finalizer THEN [content EXCEPT !.deleting = TRUE] ELSE Nothing

DeleteGateway(g) ==
    /\ Change("delete")
    /\ Live(g)
    /\ SetGateway(g, Deletion(gateways[g].content))

DeleteObject(k) ==
    /\ Change("drift")
    /\ k.kind \in DriftKinds
    /\ Exists(objects[k])
    /\ RemoveObject(k)

TerminateNamespace(ns) ==
    /\ Change("terminate")
    /\ ns \notin terminating
    /\ terminating' = terminating \cup {ns}
    /\ UNCHANGED <<gateways, objects, pending>>

CollectGarbage(k) ==
    /\ Garbage(k)
    /\ RemoveObject(k)
    /\ UNCHANGED <<gatewayCache, objectCache, queue, workerVars, boundVars>>

\* The namespace controller deletes what a terminating namespace holds.
EvictGateway(g) ==
    /\ g.ns \in terminating
    /\ Live(g)
    /\ SetGateway(g, Deletion(gateways[g].content))
    /\ UNCHANGED <<gatewayCache, objectCache, queue, workerVars, boundVars>>

EvictObject(k) ==
    /\ k.ns \in terminating
    /\ Exists(objects[k])
    /\ RemoveObject(k)
    /\ UNCHANGED <<gatewayCache, objectCache, queue, workerVars, boundVars>>

Crash ==
    /\ crashes < MaxCrashes
    /\ crashes' = crashes + 1
    /\ Restart
    /\ UNCHANGED <<serverVars, changes, faults>>

-----------------------------------------------------------------------------

Init ==
    /\ gateways = [g \in Gateways |-> NeverStored]
    /\ gatewayCache = gateways
    /\ objects = [k \in Keys |-> NeverStored]
    /\ objectCache = objects
    /\ pending = [k \in Keys |-> {}]
    /\ terminating = {}
    /\ queue = {}
    /\ pc = "idle" /\ req = Nil /\ instance = NeverStored
    /\ changes = 0 /\ faults = 0 /\ crashes = 0

User ==
    \/ \E g \in Gateways, manifest \in Specs :
          CreateGateway(g, manifest) \/ UpdateGateway(g, manifest)
    \/ \E g \in Gateways : DeleteGateway(g) \/ TerminateNamespace(g.ns)
    \/ \E k \in Keys : DeleteObject(k)

Cluster ==
    \/ \E g \in Gateways : DeliverGateway(g) \/ EvictGateway(g)
    \/ \E k \in Keys : DeliverObject(k) \/ CollectGarbage(k) \/ EvictObject(k)

Next ==
    \/ \E g \in Gateways : Reconcile(g)
    \/ Worker
    \/ Cluster
    \/ User
    \/ Crash

Spec == Init /\ [][Next]_vars

\* The process and the cluster keep running, and the workqueue is a queue: no
\* gateway waits in it for ever while others are served.  Users, failing calls
\* and crashes are never obliged to happen.
Fairness ==
    /\ WF_vars(Worker)
    /\ \A g \in Gateways :
        /\ SF_vars(Reconcile(g))
        /\ WF_vars(DeliverGateway(g))
        /\ WF_vars(EvictGateway(g))
    /\ \A k \in Keys :
        /\ WF_vars(DeliverObject(k))
        /\ WF_vars(CollectGarbage(k))
        /\ WF_vars(EvictObject(k))

FairSpec == Spec /\ Fairness
====
