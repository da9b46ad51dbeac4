------------------------ MODULE ControllerReconciler ------------------------
(***************************************************************************)
(* The HigressController controller against the API server: one worker     *)
(* that takes HigressControllers off the queue, walks through Reconcile    *)
(* and then through the Reconcile of the console, one step per object.     *)
(* The API server, the informers and the users are those of                *)
(* GatewayReconciler; here users also edit a CustomResourceDefinition.     *)
(***************************************************************************)
EXTENDS KubeAPI, ControllerObjects

CONSTANTS
    Tracked,        \* the steps that are taken in this instance
    LaggingKinds,   \* the kinds whose informer may serve an old object
    UserActions,    \* what users do: create, update, delete, drift, terminate
    DriftKinds,     \* the kinds whose objects a user may delete, or edit (CRD)
    MaxChanges,     \* bound on the number of user actions
    FailingSteps,   \* the steps at which a call may fail
    MaxFaults,      \* bound on the number of failing calls
    MaxCrashes      \* bound on the number of crashes

ASSUME BoundsAssumption == {MaxChanges, MaxFaults, MaxCrashes} \subseteq Nat

VARIABLES
    controllers,        \* name -> the stored HigressController
    controllerCache,    \* name -> the informer's copy
    objects,            \* key -> the stored object
    objectCache,        \* key -> the informer's copy
    pending,            \* key -> the owners its undelivered events will enqueue
    terminating,        \* namespaces in phase Terminating
    queue,              \* HigressControllers in the workqueue
    pc,                 \* the step of Reconcile the worker is at
    req,                \* the HigressController being reconciled, Nil when idle
    instance,           \* the worker's copy of it
    changes, faults, crashes

serverVars == <<controllers, objects, terminating>>
cacheVars == <<controllerCache, objectCache, pending>>
workerVars == <<pc, req, instance>>
boundVars == <<changes, faults, crashes>>
vars == <<serverVars, cacheVars, queue, workerVars, boundVars>>

Keys == UNION {KeysOf(c, Tracked) : c \in Controllers}

\* The controller Owns these.  It Owns IngressClasses as well, but the owner
\* of one is looked for without a namespace, and never found.
WatchedKinds == {"ServiceAccount", "Deployment", "Service"}

\* The steps of Reconcile after the finalizer is on, in order.
ControllerPass == <<"CRD", "ServiceAccount", "ClusterRole", "ClusterRoleBinding", "Role",
                    "RoleBinding", "ConfigMap", "Deployment", "IngressClass", "Service">>
ConsolePass == <<"ConsoleClusterRole", "ConsoleClusterRoleBinding", "ConsoleRole",
                 "ConsoleRoleBinding", "ConsoleServiceAccount", "ConsoleConfigMap",
                 "ConsoleDeployment", "ConsoleService">>

StatusLast == ControllerPass \o ConsolePass \o <<"Status">>     \* variant
Pass == ControllerPass \o <<"Status">> \o ConsolePass

EnsureSteps == {Pass[i] : i \in DOMAIN Pass}
Steps == {"idle", "finalize", "removeFinalizer", "namespace", "addFinalizer"} \cup EnsureSteps

ASSUME StepsAssumption ==
    /\ Tracked \subseteq ControllerSteps \cup ConsoleSteps
    /\ "ClusterRoleBinding" \in Tracked
    /\ LaggingKinds \subseteq ControllerSteps \ {"CRD"}
    /\ DriftKinds \subseteq ControllerSteps
    /\ FailingSteps \subseteq Steps
    /\ UserActions \subseteq {"create", "update", "delete", "drift", "terminate"}

-----------------------------------------------------------------------------
\* The HigressController resource.

ControllerContent(specs) == [uid : Nat, deleting : BOOLEAN, finalizer : BOOLEAN,
                             deployed : BOOLEAN, spec : specs]

ASSUME NothingAssumption ==
    \A c \in Controllers : Nothing \notin ControllerContent(StoredSpecs(c))

Live(c) == Exists(controllers[c]) /\ ~controllers[c].content.deleting
Registered(c) == Exists(controllers[c]) /\ controllers[c].content.finalizer

OwnerLives(content) ==
    /\ Exists(controllers[content.owner.controller])
    /\ controllers[content.owner.controller].content.uid = content.owner.uid

\* The owner of a cluster scoped object cannot be in a namespace: the garbage
\* collector leaves an IngressClass alone.
Garbage(k) ==
    /\ Exists(objects[k])
    /\ k.ns # ""
    /\ objects[k].content.owner # Nil
    /\ ~OwnerLives(objects[k].content)

-----------------------------------------------------------------------------
\* The informers.

\* What the worker reads: an informer that lags may serve an older object.
Seen(k) == IF k.kind \in LaggingKinds THEN objectCache[k] ELSE objects[k]

Followed == {k \in Keys : k.kind \in LaggingKinds \cup WatchedKinds}

OwnersOf(k, object) ==
    IF k.kind \in WatchedKinds /\ Exists(object) /\ object.content.owner # Nil
    THEN {object.content.owner.controller} ELSE {}

\* Every change of a watched object is an event for its owner, before and after.
Store(k, object) ==
    /\ objects' = [objects EXCEPT ![k] = object]
    /\ pending' = [pending EXCEPT ![k] =
          IF object = objects[k] THEN @
          ELSE @ \cup OwnersOf(k, objects[k]) \cup OwnersOf(k, object)]

DeliverController(c) ==
    /\ controllerCache[c] # controllers[c]
    /\ controllerCache' = [controllerCache EXCEPT ![c] = controllers[c]]
    /\ queue' = queue \cup {c}
    /\ UNCHANGED <<serverVars, objectCache, pending, workerVars, boundVars>>

DeliverObject(k) ==
    /\ k \in Followed
    /\ objectCache[k] # objects[k]
    /\ objectCache' = [objectCache EXCEPT ![k] = objects[k]]
    /\ queue' = queue \cup pending[k]
    /\ pending' = [pending EXCEPT ![k] = {}]
    /\ UNCHANGED <<serverVars, controllerCache, workerVars, boundVars>>

-----------------------------------------------------------------------------
\* The worker: how a step ends.

Idle == pc' = "idle" /\ req' = Nil /\ instance' = NeverStored

\* Reconcile returns without an error.
Finish == Idle /\ UNCHANGED queue

\* Reconcile returns an error: the request goes back to the queue.
DropError == Finish     \* variant: the error is only logged
Retry == Idle /\ queue' = queue \cup {req}

wanted == instance.content.spec

\* The steps that are not skipped for this instance.
Applies(step) ==
    CASE step = "Status" -> TRUE
      [] step \in {"ServiceAccount", "ConsoleServiceAccount"} ->
            step \in Tracked /\ wanted.serviceAccount.enable
                             /\ (step \in ConsoleSteps => HasConsole(wanted))
      [] step \in RBACSteps -> step \in Tracked /\ AccessOn(wanted)
      [] step \in ConsoleSteps \ {"ConsoleServiceAccount"} ->
            step \in Tracked /\ HasConsole(wanted)
      [] OTHER -> step \in Tracked

Position(step) ==
    IF step \in EnsureSteps THEN CHOOSE i \in DOMAIN Pass : Pass[i] = step ELSE 0
Later(step) == {i \in DOMAIN Pass : i > Position(step) /\ Applies(Pass[i])}

GoTo(step) == pc' = step /\ UNCHANGED <<queue, req>>

\* On to the next step with this copy of the instance.  The pass ends when no
\* step is left: after the status, or with the console.
Continue(copy) ==
    IF Later(pc) = {} THEN Finish
    ELSE /\ \E i \in Later(pc) : (\A j \in Later(pc) : i <= j) /\ GoTo(Pass[i])
         /\ instance' = copy

\* The process dies.  Its successor lists everything, and every object it
\* lists is an event.
Restart ==
    /\ Idle
    /\ controllerCache' = controllers
    /\ objectCache' = [k \in Keys |-> IF k \in Followed THEN objects[k] ELSE objectCache[k]]
    /\ pending' = [k \in Keys |-> {}]
    /\ queue' = {c \in Controllers : Exists(controllers[c])}
                \cup UNION {OwnersOf(k, objects[k]) : k \in Followed}

\* A read or a write that ends in an error of the network or the server.
Fault == pc \in FailingSteps /\ faults < MaxFaults /\ faults' = faults + 1

\* A write to the API server.  A call that fails may have been carried out.
CallForController(answer, next) ==
    /\ \/ /\ controllers' = [controllers EXCEPT ![req] = answer.object]
          /\ IF answer.ok THEN next ELSE Retry
          /\ UNCHANGED faults
       \/ /\ Fault
          /\ controllers' \in {controllers, [controllers EXCEPT ![req] = answer.object]}
          /\ Retry
    /\ UNCHANGED <<objects, terminating, cacheVars, changes, crashes>>

\* The API server creates nothing in a namespace that terminates, changes no
\* selector of a Deployment and no roleRef, and validates pods and ports.
Admitted(k, answer) ==
    LET before == objects[k]
        after == answer.object
        creates == ~Exists(before) \/ k.kind = "ServiceAccount"
        bindings == {"ClusterRoleBinding", "RoleBinding"}
        allowed ==
            /\ creates => k.ns \notin terminating
            /\ k.kind = "Deployment" /\ Exists(after) => ValidDeployment(after.content)
            /\ k.kind = "Service" /\ Exists(after) => ValidPorts(after.content.ports)
            /\ k.kind = "Deployment" /\ Exists(before) =>
                  before.content.selector = after.content.selector
            /\ k.kind \in bindings /\ Exists(before) =>
                  before.content.roleRef = after.content.roleRef
    IN  IF allowed THEN answer ELSE [ok |-> FALSE, object |-> before]

CallForObject(k, answer) ==
    LET result == Admitted(k, answer)
    IN  /\ \/ /\ Store(k, result.object)
              /\ IF result.ok THEN Continue(instance) ELSE Retry
              /\ UNCHANGED faults
           \/ /\ Fault
              /\ Store(k, result.object) \/ UNCHANGED <<objects, pending>>
              /\ Retry
        /\ UNCHANGED <<controllers, terminating, controllerCache, objectCache, changes, crashes>>

\* The ports of a Service that come from the spec, a volume for extra root
\* certificates and the replicas of the console come back completed with defaults.
Forced(step) ==
    \/ step = "Service" /\ wanted.service # Nil
    \/ step = "Deployment" /\ wanted.jwksResolveExtraRootCA # ""
    \/ step = "ConsoleDeployment"

CreateOrUpdateObject(k, fresh, Mutate(_)) ==
    CallForObject(k, CreateOrUpdate(objects[k], Seen(k), fresh,
        IF Exists(Seen(k)) THEN Mutate(Seen(k).content) ELSE fresh, Forced(pc)))

\* What is left of a step that sends nothing.
SendNothing(end) == end /\ UNCHANGED <<serverVars, cacheVars, boundVars>>

-----------------------------------------------------------------------------
\* Reconcile: the read of the instance and its branches.

Reconcile(c) ==
    LET read == controllerCache[c]
        ready == [read EXCEPT !.content.spec = setDefaultValues(c, @)]
    IN  /\ pc = "idle"
        /\ c \in queue
        /\ \/ /\ queue' = queue \ {c}
              /\ IF Exists(read) /\ (read.content.deleting => read.content.finalizer)
                 THEN /\ req' = c
                      /\ instance' = ready
                      /\ pc' = IF read.content.deleting THEN "finalize" ELSE "namespace"
                 ELSE UNCHANGED workerVars
              /\ UNCHANGED faults
           \/ Fault /\ UNCHANGED <<queue, workerVars>>
        /\ UNCHANGED <<serverVars, cacheVars, changes, crashes>>

SkipFinalizer == FALSE      \* variant: no finalizer is added
NeedsFinalizer == ~instance.content.finalizer

\* A namespace that terminates ends the pass; so does a read that fails, and
\* the request is not queued again.
checkNamespace ==
    /\ pc = "namespace"
    /\ \/ req.ns \in terminating /\ Finish /\ UNCHANGED faults
       \/ Fault /\ Finish
       \/ /\ req.ns \notin terminating
          /\ IF NeedsFinalizer THEN GoTo("addFinalizer") /\ UNCHANGED instance
             ELSE Continue(instance)
          /\ UNCHANGED faults
    /\ UNCHANGED <<serverVars, cacheVars, changes, crashes>>

\* The update stores the whole instance, with its defaults.
addFinalizer ==
    LET answer == Update(controllers[req], instance, [instance.content EXCEPT !.finalizer = TRUE])
    IN  /\ pc = "addFinalizer"
        /\ CallForController(answer, Continue(answer.object))

keyOf(step) == KeyOf(step, req, wanted)
uid == instance.content.uid

\* A binding that is not there is an error.
IgnoreNotFound == GoTo("removeFinalizer") /\ UNCHANGED instance     \* variant
BindingNotFound == Retry

\* Nothing is unbound if RBAC or the account is off by now.
Unbinds == AccessOn(wanted)

finalizeHigressController ==
    LET name == <<getServiceAccount(req, wanted)>>
        k == keyOf("ClusterRoleBinding")
        crb == Seen(k)
        kept == {s \in crb.content.subjects : s.name # name \/ s.ns # req.ns}
        result == Update(objects[k], crb, [crb.content EXCEPT !.subjects = kept])
        next == GoTo("removeFinalizer") /\ UNCHANGED instance
    IN  /\ pc = "finalize"
        /\ \/ /\ ~Unbinds \/ ~Exists(crb)
              /\ IF Unbinds THEN BindingNotFound ELSE next
              /\ UNCHANGED <<objects, pending, faults>>
           \/ /\ Unbinds /\ Exists(crb)
              /\ Store(k, result.object)
              /\ IF result.ok THEN next ELSE Retry
              /\ UNCHANGED faults
           \/ /\ Unbinds /\ Fault
              /\ \/ Exists(crb) /\ Store(k, result.object)
                 \/ UNCHANGED <<objects, pending>>
              /\ Retry
        /\ UNCHANGED <<controllers, terminating, controllerCache, objectCache, changes, crashes>>

\* The server deletes a terminating resource that has lost its last finalizer.
removeFinalizer ==
    /\ pc = "removeFinalizer"
    /\ CallForController(Update(controllers[req], instance, Nothing), Finish)

-----------------------------------------------------------------------------
\* Reconcile: one object after the other.

\* The CRDs are read from the server, not from an informer.
createCRDs ==
    /\ pc = "CRD"
    /\ CallForObject(keyOf(pc), CreateOrUpdate(objects[keyOf(pc)], objects[keyOf(pc)],
                                               CRDContent, CRDContent, FALSE))

createServiceAccount ==
    /\ pc = "ServiceAccount"
    /\ CallForObject(keyOf(pc),
           CreateIfNotExists(objects[keyOf(pc)], initServiceAccount(req, uid)))

\* createRBAC, in its four calls.
createClusterRole ==
    LET Mute(stored) == [stored EXCEPT !.rules = defaultRules]
    IN  /\ pc = "ClusterRole"
        /\ CreateOrUpdateObject(keyOf(pc), initRole(defaultRules), Mute)

createClusterRoleBinding ==
    LET Mute(stored) == updateClusterRoleBinding(stored, req, wanted)
    IN  /\ pc = "ClusterRoleBinding"
        /\ CreateOrUpdateObject(keyOf(pc), Mute(NoBinding), Mute)

createRole ==
    LET Mute(stored) == [stored EXCEPT !.rules = defaultRules]
    IN  /\ pc = "Role"
        /\ CreateOrUpdateObject(keyOf(pc), initRole(defaultRules), Mute)

createRoleBinding ==
    LET Mute(stored) == updateRoleBinding(stored, req, wanted)
    IN  /\ pc = "RoleBinding"
        /\ CreateOrUpdateObject(keyOf(pc), Mute(NoBinding), Mute)

createConfigMap ==
    LET fresh == initGatewayConfigMap(req, wanted)
        Mute(stored) == [stored EXCEPT !.mesh = fresh.mesh]
    IN  /\ pc = "ConfigMap"
        /\ CreateOrUpdateObject(keyOf(pc), fresh, Mute)

\* An existing Deployment is read under the name of the controller's container
\* and compared before anything is sent; the one that is created bears the name
\* of the HigressController.  A read that fails counts as one that finds nothing.
\* A Deployment of another HigressController is not taken over.
createDeployment ==
    LET Mute(content) == updateDeploymentSpec(req, wanted, content)
        fresh == initDeployment(req, wanted, Owner(req, uid))
        old == LookedUp(req, wanted)
        there == old \in Keys /\ Exists(Seen(old))
        canFail == pc \in FailingSteps /\ faults < MaxFaults
    IN  /\ pc = "Deployment"
        /\ \E found \in {there} \cup If(canFail, {FALSE}) :
              LET target == IF found THEN old ELSE keyOf(pc)
                  stored == IF Exists(Seen(target)) THEN Seen(target).content ELSE NoDeployment
                  panics == \/ DeploymentPanics(wanted, stored.containers)
                            \/ ~found /\ DeploymentPanics(wanted, <<>>)
                  current == found /\ Mute(stored) = stored /\ ~Forced(pc)
                  taken == found /\ stored.owner # Nil /\ stored.owner.controller # req
              IN  CASE panics -> Restart /\ UNCHANGED <<serverVars, boundVars>>
                    [] ~panics /\ current -> SendNothing(Continue(instance))
                    [] ~panics /\ ~current /\ taken -> SendNothing(Retry)
                    [] OTHER -> CreateOrUpdateObject(target, fresh, Mute)

\* Any error of the read but NotFound is dropped, and a class that is there is
\* never updated.
createIngressClass ==
    /\ pc = "IngressClass"
    /\ IF Exists(Seen(keyOf(pc)))
       THEN SendNothing(Continue(instance))
       ELSE \/ CallForObject(keyOf(pc),
                   Create(objects[keyOf(pc)], initIngressclass(req, wanted, uid)))
            \/ /\ Fault
               /\ Continue(instance)
               /\ UNCHANGED <<serverVars, cacheVars, changes, crashes>>

createService ==
    LET Mute(stored) == updateServiceSpec(stored, wanted)
    IN  /\ pc = "Service"
        /\ CreateOrUpdateObject(keyOf(pc), initService(wanted, Owner(req, uid)), Mute)

\* The status is a subresource: the rest of the resource is not written.
updateStatus ==
    LET answer == Update(controllers[req], instance,
                         [controllers[req].content EXCEPT !.deployed = TRUE])
    IN  /\ pc = "Status"
        /\ IF instance.content.deployed
           THEN SendNothing(Continue(instance))
           ELSE CallForController(answer,
                    Continue([instance EXCEPT !.version = answer.object.version,
                                              !.content.deployed = TRUE]))

-----------------------------------------------------------------------------
\* Reconcile of the console.

\* CreateOrUpdate of its cluster scoped objects, which are built with a namespace.
\* The server drops it, and controller-runtime's check that the mutate function
\* keeps the key fails for the copy that is read back.
CreateOnly(k, fresh) ==
    IF Exists(Seen(k)) THEN SendNothing(Retry)
    ELSE CallForObject(k, Create(objects[k], fresh))

createConsoleClusterRole ==
    /\ pc = "ConsoleClusterRole"
    /\ CreateOnly(keyOf(pc), initRole(consoleDefaultRules))

createConsoleClusterRoleBinding ==
    /\ pc = "ConsoleClusterRoleBinding"
    /\ CreateOnly(keyOf(pc), updateConsoleClusterRoleBinding(NoBinding, req, wanted))

createConsoleRole ==
    LET Mute(stored) == [stored EXCEPT !.rules = consoleDefaultRules]
    IN  /\ pc = "ConsoleRole"
        /\ CreateOrUpdateObject(keyOf(pc), initRole(consoleDefaultRules), Mute)

createConsoleRoleBinding ==
    LET Mute(stored) == updateConsoleRoleBinding(stored, req, wanted)
    IN  /\ pc = "ConsoleRoleBinding"
        /\ CreateOrUpdateObject(keyOf(pc), Mute(NoBinding), Mute)

createConsoleServiceAccount ==
    /\ pc = "ConsoleServiceAccount"
    /\ CallForObject(keyOf(pc),
           CreateIfNotExists(objects[keyOf(pc)], initConsoleServiceAccount))

createConsoleConfigMap ==
    LET Mute(stored) == updateConsoleConfigMapSpec(stored, wanted)
    IN  /\ pc = "ConsoleConfigMap"
        /\ CreateOrUpdateObject(keyOf(pc), initConsoleConfigMap(wanted), Mute)

createConsoleDeployment ==
    LET Mute(stored) == updateConsoleDeploymentSpec(wanted, stored)
    IN  /\ pc = "ConsoleDeployment"
        /\ CreateOrUpdateObject(keyOf(pc), initConsoleDeployment(wanted, Owner(req, uid)), Mute)

createConsoleService ==
    LET Mute(stored) == updateConsoleServiceSpec(stored, wanted)
    IN  /\ pc = "ConsoleService"
        /\ CreateOrUpdateObject(keyOf(pc), initConsoleService(wanted, Owner(req, uid)), Mute)

Console ==
    \/ createConsoleClusterRole \/ createConsoleClusterRoleBinding
    \/ createConsoleRole \/ createConsoleRoleBinding
    \/ createConsoleServiceAccount \/ createConsoleConfigMap
    \/ createConsoleDeployment \/ createConsoleService

Worker ==
    \/ checkNamespace \/ addFinalizer
    \/ finalizeHigressController \/ removeFinalizer
    \/ createCRDs \/ createServiceAccount
    \/ createClusterRole \/ createClusterRoleBinding \/ createRole \/ createRoleBinding
    \/ createConfigMap \/ createDeployment \/ createIngressClass \/ createService
    \/ updateStatus
    \/ Console

-----------------------------------------------------------------------------
\* The users, the garbage collector, the namespace controller.

Change(action) ==
    /\ action \in UserActions
    /\ changes < MaxChanges
    /\ changes' = changes + 1
    /\ UNCHANGED <<controllerCache, objectCache, queue, workerVars, faults, crashes>>

SetController(c, content) ==
    /\ controllers' = [controllers EXCEPT ![c] = Written(@, content)]
    /\ UNCHANGED <<objects, pending, terminating>>

SetObject(k, object) ==
    /\ Store(k, object)
    /\ UNCHANGED <<controllers, terminating>>

CreateController(c, manifest) ==
    /\ Change("create")
    /\ ~Exists(controllers[c])
    /\ c.ns \notin terminating
    /\ SetController(c, [uid |-> controllers[c].version + 1, deleting |-> FALSE,
                         finalizer |-> FALSE, deployed |-> FALSE, spec |-> manifest])

UpdateController(c, manifest) ==
    /\ Change("update")
    /\ Exists(controllers[c])
    /\ controllers[c].content.spec \notin {manifest, setDefaultValues(c, manifest)}
    /\ SetController(c, [controllers[c].content EXCEPT !.spec = manifest])

\* A resource with a finalizer is only marked.
Deletion(content) == IF content.finalizer THEN [content EXCEPT !.deleting = TRUE] ELSE Nothing

DeleteController(c) ==
    /\ Change("delete")
    /\ Live(c)
    /\ SetController(c, Deletion(controllers[c].content))

\* A CustomResourceDefinition is edited, never deleted: that would delete every
\* resource of its kind.
DriftObject(k) ==
    /\ Change("drift")
    /\ k.kind \in DriftKinds
    /\ Exists(objects[k])
    /\ SetObject(k, IF k.kind = "CRD" THEN Written(objects[k], EditedCRD) ELSE Removed(objects[k]))

TerminateNamespace(ns) ==
    /\ Change("terminate")
    /\ ns \notin terminating
    /\ terminating' = terminating \cup {ns}
    /\ UNCHANGED <<controllers, objects, pending>>

CollectGarbage(k) ==
    /\ Garbage(k)
    /\ SetObject(k, Removed(objects[k]))
    /\ UNCHANGED <<controllerCache, objectCache, queue, workerVars, boundVars>>

\* The namespace controller deletes what a terminating namespace holds.
EvictController(c) ==
    /\ c.ns \in terminating
    /\ Live(c)
    /\ SetController(c, Deletion(controllers[c].content))
    /\ UNCHANGED <<controllerCache, objectCache, queue, workerVars, boundVars>>

EvictObject(k) ==
    /\ k.ns \in terminating
    /\ Exists(objects[k])
    /\ SetObject(k, Removed(objects[k]))
    /\ UNCHANGED <<controllerCache, objectCache, queue, workerVars, boundVars>>

Crash ==
    /\ crashes < MaxCrashes
    /\ crashes' = crashes + 1
    /\ Restart
    /\ UNCHANGED <<serverVars, changes, faults>>

-----------------------------------------------------------------------------

Init ==
    /\ controllers = [c \in Controllers |-> NeverStored]
    /\ controllerCache = controllers
    /\ objects = [k \in Keys |-> NeverStored]
    /\ objectCache = objects
    /\ pending = [k \in Keys |-> {}]
    /\ terminating = {}
    /\ queue = {}
    /\ pc = "idle" /\ req = Nil /\ instance = NeverStored
    /\ changes = 0 /\ faults = 0 /\ crashes = 0

User ==
    \/ \E c \in Controllers, manifest \in Specs :
          CreateController(c, manifest) \/ UpdateController(c, manifest)
    \/ \E c \in Controllers : DeleteController(c) \/ TerminateNamespace(c.ns)
    \/ \E k \in Keys : DriftObject(k)

Cluster ==
    \/ \E c \in Controllers : DeliverController(c) \/ EvictController(c)
    \/ \E k \in Keys : DeliverObject(k) \/ CollectGarbage(k) \/ EvictObject(k)

Next ==
    \/ \E c \in Controllers : Reconcile(c)
    \/ Worker
    \/ Cluster
    \/ User
    \/ Crash

Spec == Init /\ [][Next]_vars

\* As for the gateways: the process, every informer, the garbage collector and
\* the namespace controller keep running, and the workqueue is a queue.  Users,
\* failing calls and crashes are never obliged.
Fairness ==
    /\ WF_vars(Worker)
    /\ \A c \in Controllers :
        /\ SF_vars(Reconcile(c))
        /\ WF_vars(DeliverController(c))
        /\ WF_vars(EvictController(c))
    /\ \A k \in Followed : WF_vars(DeliverObject(k))
    /\ WF_vars(\E k \in Keys : CollectGarbage(k))
    /\ WF_vars(\E k \in Keys : EvictObject(k))

FairSpec == Spec /\ Fairness
=============================================================================
