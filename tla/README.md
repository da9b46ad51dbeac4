# hg-operator in TLA+

A verification development for the operator in this repository (`src/`): two
Kubernetes controllers that turn `HigressGateway` and `HigressController`
resources into the objects of a running gateway. This directory holds the TLA+
modules, the TLC configurations that check them on small instances, and the
TLAPS proofs of what holds for instances of any size.

Paths of the form `gateway:118` abbreviate
`src/internal/controller/higressgateway/higressgateway_controller.go:118`;
other files are named in full below `src/internal/controller/`, and
`controller:91` is a line of `higresscontroller/higresscontroller_controller.go`.

## 1. The system

| component | state | operations | talks to |
|---|---|---|---|
| HigressGateway controller (`higressgateway/`) | none between passes: one worker, its request and its copy of the resource | `Reconcile`, `finalizeHigressGateway`, one `create*` per object | API server (writes), informers (reads), workqueue |
| HigressController controller (`higresscontroller/`) | the same | the same with CRDs, an IngressClass and merged containers | the same, and the console |
| HigressConsole (`higressconsole/`) | none | `Reconcile`, called last by the HigressController | the same |
| `utils.go` | none | `CreateOrUpdate`, `CreateIfNotExits` | the cached client |
| API types (`api/v1alpha1`) | the specs and the `Deployed` status | defaulting in `setDefaultValues` | |
| `cmd/main.go` | the manager | flags, registration of both controllers | |
| API server, informers, workqueue, garbage collector, namespace controller | the stored resources and objects, lagging copies, a set of requests | external | everybody |

A pass of the gateway controller: read the resource from the informer, fill in
defaults, and then either finalize (drop the service account's subject from the
ClusterRoleBinding, take the finalizer off) or check the namespace, put the
finalizer on and create or update, one call after the other, ServiceAccount,
ClusterRole, ClusterRoleBinding, Role, RoleBinding, ConfigMap, Deployment and
Service, and store `Deployed`. The first error ends the pass and queues the
request again.

A pass of the HigressController controller is the same in outline: defaults,
finalize or namespace and finalizer, then the embedded CRDs, the ServiceAccount
(which a spec can switch off), ClusterRole, ClusterRoleBinding, Role and
RoleBinding (which it can switch off too), ConfigMap, Deployment, IngressClass,
Service, and `Deployed`. Its Deployment holds two containers, the controller and
the pilot, that are merged into whatever is stored. If the spec names a console,
`HigressConsole` runs last, with eight objects more.

What makes it hard:

* Reads are old. `r.Get` and `CreateOrUpdate` read informers, writes go to the
  server; only `resourceVersion` protects a write based on an old read.
* A pass is ten calls. Anything may happen between two of them: an edit, a
  deletion, a deletion and a new resource of the same name, a lost answer, the
  end of the process.
* State is shared. All gateways whose accounts have one name edit one
  ClusterRoleBinding; `Role` and `RoleBinding` are one per namespace.
* Passes are triggered by events only. An object that no watch maps to a
  gateway is never repaired.
* Objects are merged, not replaced. What a pass builds depends on what earlier
  specs, and other people, left in the containers, their environment and the
  ports of the Service.

### Hazards

`PROJECT.json` lists every one with its line. In short: stale reads of the shared
binding (`higressgateway/rbac.go:71`, `gateway:253`), passes that outlive
their resource (`gateway:112`), partial passes and crashes (`gateway:118`),
deletions that cannot finish (`gateway:242`), errors answered with `nil`
(`gateway:108`), objects nobody watches (`gateway:265`), re-creation under the
same name (`gateway:165`), panics that return in every pass
(`higressgateway/service.go:34`, `configmap.go:111`, `higresscontroller/deployment.go:104`),
passes that feed on the events of their own writes (`gateway:152`), switches
edited between two passes (`controller:288`), a read error that is dropped
(`controller:239`), a Deployment looked up under one name and created under
another (`controller:259`), containers built in one way when they are appended
and in another when they are rewritten (`higresscontroller/deployment.go:76`), an
environment kept as a whole (`deployment.go:442`), a console that can be created
and not updated (`higressconsole/rbac.go:43`).

## 2. Modules

| module | models |
|---|---|
| `KubeAPI` | one stored object with its version; Create, Update with optimistic concurrency, `CreateOrUpdate` and `CreateIfNotExits` on top of them |
| `GatewayObjects` | gateway specs, defaults, names and keys, and what `init*`, `update*` and `mute*` put into each object |
| `GatewayReconciler` | the state machine: worker, informers, queue, users, garbage collector, namespace controller, faults, crashes |
| `ClusterAccess` | abstract specification of the cluster-wide access a gateway gets |
| `GatewayProperties` | the properties, and the refinement mapping to `ClusterAccess` |
| `MCGateway` | the instances of the runs |
| `GatewayProofs` | type correctness of the gateway controller, proved |
| `GatewayAccessProofs` | who may create what, and for whom, proved |
| `GatewayRefinementProofs` | the gateway controller implements `ClusterAccess`, proved |
| `GatewayConvergenceProofs` | a gateway controller with nothing left to do has converged, proved |
| `GatewayPassProofs` | what a pass has done when it reports, and what it leaves alone, proved |
| `ControllerPods` | specs of a HigressController, their defaults, and the merges that make its Deployments and Services and those of the console |
| `Rollout` | one Deployment and one Service through any history of specs: what the merges promise |
| `MCRollout` | its instance |
| `RolloutProofs` | the types and the properties of `Rollout`, proved |
| `ControllerObjects` | names, keys and contents of all other objects of a HigressController and its console |
| `ControllerReconciler` | the state machine of that controller, the console's pass included |
| `ControllerProperties` | its properties |
| `ControllerAccessProofs` | what the finalizer of a HigressController guards, and the types, proved |
| `ControllerConvergenceProofs` | a HigressController controller with nothing left to do has converged, proved |
| `ControllerManifests`, `MCController` | the manifests and the instances of the runs |

`ControllerReconciler` and `GatewayReconciler` stand on the same `KubeAPI`.
`Rollout` and `ControllerReconciler` use the same operators of `ControllerPods`:
the first puts 64 specs through them without an environment, the second a few
specs through everything that can happen between two calls.

### State and code

`gateways` and `objects` are what the API server stores; an object is a version
and a content, and an object that does not exist keeps the version of its last
change, so that no version comes twice. `gatewayCache` and `objectCache` are the
informers' copies. `pending[k]` holds the owners that the undelivered events of
an object will put into the queue (`Owns` in `SetupWithManager`). `queue` is the
workqueue. `pc`, `req` and `instance` are the worker: the call of `Reconcile` it
is about to make, the gateway it works for and its own copy of it.

Every step of the worker is one call to the API: the read of the informer it is
based on and the write. Nothing is lost by taking both together, because the
informers move on their own and a write on an old copy is possible at any
moment (`Seen`). `Reconcile(g)` is the read of the resource with the branch on
its deletion mark; each of the other actions is named after the function it
models, and `Continue` is the fall-through to the next call that the instance
does not skip. `Retry` is `return ctrl.Result{}, err`, `Finish` is `return
ctrl.Result{}, nil`.

Fields of an object are kept when a condition, a name or the comparison in
`CreateOrUpdate` depends on them; everything else in a spec is one value,
`config`, so that an edit of any of it is an edit. Formatting (`cm-` prefixes,
labels, probes, images) is left out: it is a function of the fields that are
kept.

Details of the code the model keeps:

* `addFinalizer` stores the whole instance, defaults included, and goes on with
  the version the server answered.
* `updateGatewayConfigMapSpec` copies the mesh configuration before it fills in
  the discovery address; `CreateOrUpdate` is given an initialised object and
  mutates it once more, so the second call writes the address.
* `createService` calls `initService` first, so a nil label map panics whether
  the Service exists or not; an update keeps the labels and patches the rest.
* A `Deployment` or a `Service` that is read back carries the server's
  defaults, so it never equals what the code builds and its update is always
  sent (`Forced`); the server tells nobody about a write that changes nothing.
* controller-runtime v0.15.0 does not recover panics by default: a panic is the
  end of the process (`Restart`).

### The HigressController

`ControllerReconciler` has the same variables with `controllers` and
`controllerCache` for the resource. The order of the calls is data here:
`Pass` lists the steps after the finalizer, `Applies(step)` is the condition
under which Reconcile takes a step for this instance, `Continue` goes to the
first later step that applies, and `KeyOf(step, c, spec)` is the object a step
keeps. Each step has an action of its own, named after the function.

* `createServiceAccount` and `createRBAC` are skipped, and the subject is left
  where it is, when the switches are off (`AccessOn`); `finalizeHigressController`
  looks at the switches of the spec of that moment.
* `createDeployment` reads the name of the controller's container
  (`LookedUp`), compares, and sends or creates under the name of the instance. A
  read that fails counts as one that finds nothing; the Deployment of another
  owner is refused by `SetControllerReference`.
* `createIngressClass` takes NotFound only, drops every other error, never
  updates; no watch finds the class again, because its owner is looked for
  without a namespace.
* `updateStatus` comes before the console, and an error of the console leads to
  `Retry` like any other.
* `CreateOnly` is `CreateOrUpdate` of the console's ClusterRole and
  ClusterRoleBinding: built with a namespace, they fail the key check of the
  mutate function as soon as they are read back without one.
* `Admitted` is what the API server refuses: creation in a terminating
  namespace, a new selector, a new roleRef, a mount without a volume, two
  containers of one name, and in a Service two ports of one name or number.

`ControllerPods` has containers, environments, arguments, ports, volumes and
mounts. What is the same for every spec (fixed variables and flags, probes) is
left out. `ControllerContainer` and `PilotContainer` are the rewriting of a
stored container, `NewController` and `NewPilot` the container that is appended,
`MergeEnv` is the rule by which the stored environment is kept as a whole while
every wanted value is in it, `ServicePorts` the merge of the default ports.
`MergeContainers` walks over the stored list like the loop of
`updateDeploymentSpec`.

In `Rollout` a step is a whole pass (`Roll`), an edit, or somebody else's
container (`Inject`); the interleaving of calls is the matter of
`ControllerReconciler`.

### The environment

Users create, edit and delete resources, delete objects (of a CRD: edit it) and
delete namespaces;
`UserActions`, `MaxChanges` and `DriftKinds` bound them. A call may fail
(`FailingSteps`, `MaxFaults`) before or after the server has carried it out. The
process may die between any two calls (`MaxCrashes`); its successor lists
everything. The garbage collector removes objects whose owner is gone, the
namespace controller empties a terminating namespace, the API server refuses to
create in one and refuses to change the selector of a Deployment.

`LaggingKinds` are the kinds whose informer may serve an old copy to the worker.
The informer of the resource itself always lags. For the other kinds lag is a parameter
so that a run can say which delays its property survives.

Not modelled of the environment: the periodic resync of informers (ten hours by
default), backoff delays, edits of owned objects by others (their deletion is),
the informer of namespaces (its lag is no more than an earlier or later
`TerminateNamespace`, apart from calls the server then refuses), more than one
running manager (the shipped Deployment has one replica and elects a leader).

## 3. Properties and runs

Deadlock is not checked, because an operator with nothing to do stops. Bounds are
small on purpose: two gateways are enough for every conflict over a shared
binding, one for everything else; three or four user actions make a create, an
edit or a delete, and a create again; one fault and one crash put an
interruption at every step of every pass.

| run | instance | checks |
|---|---|---|
| `Binding` | two gateways in two namespaces, accounts of one name, one binding, its informer lags, four changes, a fault, a crash, fair | `NoDanglingSubject`, `ImplementsClusterAccess`, `CreatedUnderFinalizer`, `DeletionWithBindingFinishes` |
| `Converge` | one gateway, two specs, edits and deleted objects, lagging Deployment informer, a fault (not at the namespace read), a crash, fair | `SettledIsConverged`, `LiveGatewaysGetDeployed` |
| `Recreate` | one gateway, two specs, created, edited, deleted, created again, fair | `SettledIsConverged`, `Settles`, `DeployedOnlyWhenBound` |
| `AllObjects` | one gateway, all kinds, edits, a fault, a crash | `TypeOK`, `UpToDateObjectsStay` |
| `OddSpecs` | one gateway, five specs that skip RBAC, enable skywalking or panic in `createService`, a terminating namespace, lagging binding, a fault, a crash, fair | `NoDanglingSubject`, `CreatedUnderFinalizer`, `DeletionWithBindingFinishes` |
| `Rollout` | 64 specs (two values of everything the merges look at), any number of edits, passes and injected containers | `TypeOK`, `SpecReachesThePods`, `PodsAreValid`, `SecondPassChangesNothing`, `OthersContainersStay`, `SpecReachesTheService` |
| `ControllerAccess` | one HigressController, RBAC switched on and off, four changes, deletions, a terminating namespace, lagging binding, a fault, fair | `UnboundWhenReleased`, `BoundUnderFinalizer`, `CreatedUnderFinalizer`, `NoStuckDeletion` |
| `ControllerConverge` | all ten objects, three specs of which one panics, edits, deleted or edited objects, lagging Deployment informer, a fault (not at the namespace read), a crash | `TypeOK`, `SettledIsConverged` |
| `ControllerConsole` | a HigressController with a console, all eighteen objects, a fault, a crash, fair | `LiveControllersGetDeployed` |

`Rollout` has no bound at all: its history of edits is as long as one likes, and
the state is the spec, the Deployment and the Service. The other runs bound the
environment, never the operator.

The gateway:

* `NoDanglingSubject`: every subject of a ClusterRoleBinding is the account of
  a gateway that still holds its finalizer. What could break it: a lost update
  of the shared list, a finalizer that goes before the subject, a pass that
  binds a gateway that is gone.
* `ImplementsClusterAccess`: the reconciler refines `ClusterAccess`, with
  registered = holds the finalizer, closing = marked for deletion, bound = its
  subject is in its binding. So nobody but the gateway itself is unbound by its
  deletion, a binding is only handed out to registered gateways, and a gateway
  leaves unbound.
* `CreatedUnderFinalizer`: an object is created only while the gateway holds
  its finalizer, with the present incarnation as owner, however old the worker's
  copy is.
* `SettledIsConverged`: in a state in which the operator will not act again,
  the objects are what the spec describes and the deleted gateways are gone.
  This is the promise of the whole controller, and the one most manifests below
  refute in one respect each. What the mesh configuration in the ConfigMap should
  be (`WantedMesh`) is defined apart from the code that builds it, in which it
  takes two calls to get the discovery address across.
* `Settles`, `LiveGatewaysGetDeployed`, `DeletionWithBindingFinishes`: the
  operator comes to rest, deploys, deletes.
* `DeployedOnlyWhenBound`: the status is never ahead of the binding. It holds
  when the informer of bindings does not lag; with lag, `StaleBinding` shows how
  a gateway becomes deployed and unbound.
* `UpToDateObjectsStay`: a pass writes nothing over an object that is up to
  date.

The HigressController:

* `UnboundWhenReleased`: one that grants access when it goes is released only
  after its subject is out of the binding, whatever edits switched RBAC on and
  off, and however old the copy of the binding was.
* `BoundUnderFinalizer`, `CreatedUnderFinalizer`: nothing is bound or created for
  a resource that is not held by its finalizer at that moment.
* `NoStuckDeletion`: a deletion with nothing to unbind, or with a binding to
  take the account out of, does not hang.
* `SettledIsConverged`: as for the gateway, with the merged Deployment and
  Service, the CRDs and the IngressClass, whose read errors are dropped. A class
  that was skipped because of such an error is made up for by the pass that the
  event of another write of the same pass, at the latest that of the status,
  starts. `ControllerConverge` has one fault, which may be this one; if the next
  pass meets it again there is nothing left to write, and the class stays away.
* `LiveControllersGetDeployed`: the status does not wait for the console.
* `SpecReachesThePods`, `SpecReachesTheService`: after a pass, the containers
  and the ports are those of the present spec, although environment and ports
  are merged into what earlier specs left.
* `SecondPassChangesNothing`: the merges are idempotent; a reconcile does not
  roll the pods.
* `PodsAreValid`: every mount has its volume and every container its name.
* `OthersContainersStay`: an injected container survives every pass, in its
  place.

Every property has a mutant of the code in `PROJECT.json` that breaks it; the
mutated operators stand just before the ones they replace and are marked
"variant".

Some hazards of `PROJECT.json` have no property. Either the code is wrong there
and a property would be false (the list below; the runs and the hypotheses of the
theorems name what they leave out, and the note of the hazard says so), or the
other party of the hazard is outside the modules.

### Where the code does not do what it says

| run | the code |
|---|---|
| `DeletionBeforeBinding` | `finalizeHigressGateway` returns the NotFound of the binding as an error (`gateway:242`). A gateway deleted after its finalizer is stored and before it is bound stays for ever. So does one with RBAC switched off, which never gets a binding: `OddSpecs` has that spec, and with it `DeletionFinishes` fails in the same way. |
| `StaleBinding` | A gateway deleted and created again at once finds its old subject in the informer's copy of the binding, sends no update and stays unbound while it reports `Deployed`. Nothing watches bindings. |
| `ConsoleEdits` | An edit of the console's configuration never reaches its ConfigMap: the pass of an existing console ends at its ClusterRole, which is built with a namespace and read back without one (`higressconsole/rbac.go:43`): controller-runtime's check that the mutate function keeps the key fails. |

Found with the same models and not kept as runs, one manifest each. The gateway:

* Two gateways of one namespace that name one account share a subject; the
  deletion of one unbinds both (`gateway:248`): `SettledIsConverged` fails.
* A failing read of the namespace is logged and answered with `nil`
  (`gateway:108`): no retry, and `SettledIsConverged` fails with a fault there.
* The gateway's ConfigMap has no owner reference, so `Owns(&ConfigMap{})` never
  maps it to its gateway (`gateway:265`): once deleted it stays away.
* With skywalking enabled and its script given, the script is written into the nil
  map of a ConfigMap that was just built (`higressgateway/configmap.go:111`): a
  panic in every pass, before the Deployment is created, and
  `LiveGatewaysGetDeployed` fails, although the process is always started again.
* `netWorkGateway` without labels panics in every pass
  (`higressgateway/service.go:34`), with the same result.
* `loadBalancerIP`, source ranges and traffic policy that are removed from the
  spec stay on the Service (`service.go:38`): `SettledIsConverged` fails after
  one edit.
* An edit of `selectorLabels` is refused by the API server for ever
  (`deployment.go:38`): `Settles` fails.
* Two or more entries in `env` come out of a map in any order
  (`deployment.go:247`): `UpToDateObjectsStay` fails, the pods roll for nothing.
* A `serviceAccount` without a name is bound under the name of the gateway but
  the pods run as the default account (`deployment.go:89`).
* An edit that renames the service account leaves the old subject behind for
  ever: the finalizer only looks for the new one.
* Roles, RoleBindings, ConfigMaps and the ClusterRole have no owner and outlive
  their gateway.

The HigressController and the console:

* A deletion with RBAC switched off leaves the account in the binding
  (`controller:288`); one whose binding does not exist hangs (`controller:299`),
  as in `DeletionBeforeBinding`.
* `resources` left out of a container is dereferenced
  (`higresscontroller/deployment.go:92`, 104): a panic in every pass, and
  `LiveControllersGetDeployed` fails.
* With `enableHigressIstio` the volume of the mesh configuration is left out and
  the pilot mounts it all the same (`deployment.go:522`): `PodsAreValid` fails in
  the first pass.
* An edit of a container's name leaves the old container among the pods. With a
  later edit of `jwtPolicy` the old pilot mounts a volume that is gone:
  `PodsAreValid` fails. A pilot that is appended by an update is rewritten by the
  next pass: `SecondPassChangesNothing` fails.
* A variable that is removed from the spec stays in the pods as long as every
  other value is there (`deployment.go:442`).
* A port 443 under another name than the default one meets it in the Service,
  and the server refuses both (`higresscontroller/service.go:70`).
* The roleRef of a binding cannot be changed, and it holds the name of the
  controller's container: an edit of that name ends every later pass
  (`higresscontroller/rbac.go:185`).
* The rules that `initClusterRole` gives the console's ClusterRole never reach
  the server: `muteClusterRole` runs before the creation too
  (`higressconsole/rbac.go:92`).
* The console's Deployment would not follow its spec either: the loop over its
  containers edits a copy (`higressconsole/deployment.go:40`).

These are the reasons for the limits of the passing runs: no edit that renames
the account or a container, changes the selector or clears a field of the
Service, no variables in `env` of the gateway, no `enableHigressIstio`, no fault
at the namespace read in `Converge`, `ControllerConverge` and `ControllerConsole`,
no lag of the binding in the runs of `SettledIsConverged`.

### Fairness

Liveness is checked under `FairSpec`, which both reconcilers state alike. The
worker's next call is made if it stays possible (`WF(Worker)`): the process runs. A gateway that is in the queue again
and again is served (`SF(Reconcile(g))`): the workqueue is first-in first-out
and hands out every request it holds; weak fairness is not enough because the
action is disabled while another gateway is reconciled. Informers deliver, the
garbage collector and the namespace controller work (`WF` of each). Users,
faults and crashes have no fairness: they may stop at any time, and their bounds
say that they do. Conflicts are not a fault: they arise from the interleaving
and each is caused by a change that is bounded.

## 4. Proofs

TLAPS checks all leaves; the constants are arbitrary, under the assumptions the
modules name (`GatewaysAssumption`, `SpecsAssumption`, `BoundsAssumption`,
`KindsAssumption`, `StepsAssumption`, `NothingAssumption`, `SelfAssumption`), which TLC evaluates in
the runs of those modules. What a theorem needs beyond them is a hypothesis of
the theorem, named and commented in its module. `NothingAssumption` also keeps
`Nil` out of the owners, and `Literals` lists the texts that the code writes
itself: to the provers a literal is a value of which they do not know that it is
a string.

* `GatewayProofs!TypeCorrect`: `Spec => [](TypeOK /\ CachesFollow)`.
  `TypeOK` is inductive only together with `CachesFollow`: an informer's copy is
  never newer than the stored object, and equal to it when the versions are
  equal. Without that, an update on a copy of the current version could be
  computed from a content that was never stored. Every step also satisfies
  `Progress` (the server moves forward, copies stay or catch up), from which
  `CachesFollow'` follows once for all actions.
* `GatewayAccessProofs!CreationIsGuarded`: `Spec => CreatedUnderFinalizer`. The
  invariant `Guarded` adds three facts: a finalizer the informer shows on a
  gateway that is not leaving is still there (`CacheShowsFinalizer`); the
  worker's instance is the stored gateway or an older version of it
  (`InstanceFollows`); past `addFinalizer` the gateway is registered under the
  uid the worker has, and a worker that finalizes has seen the deletion
  (`WorkerIsEntitled`). The first is what makes a pass over an old copy
  harmless: only the worker takes finalizers off, and it is the one that is busy.
* `GatewayAccessProofs!SubjectsNeverDangle`: `AccountsAreStable` implies
  `Spec => []NoDanglingSubject`. `Inductive` adds that a binding only holds
  subjects of its own name (`SubjectsAreNamed`) and that between the two calls
  of a deletion the subject is in no binding (`SubjectIsDropped`). The second is
  where optimistic concurrency is needed: the update of the finalizer is
  accepted only if it was computed from the stored list. The hypothesis is
  necessary: a renamed account does dangle.
* `GatewayRefinementProofs!AccessIsImplemented`: `AccountsAreStable`,
  `SubjectsAreDistinct` and `BindingsAreLeftAlone` imply
  `Spec => ImplementsClusterAccess`. Every step of the reconciler and of its
  environment is mapped to `Register`, `Bind`, `Close`, `Unbind`, `Unregister` or
  a stutter. The mapping reads the binding that the present spec names, so the
  proof first shows that it may look at all bindings and all specs instead
  (`HasSubject`, `BoundIsMapped`), which no edit moves. `Refining` adds to
  `Inductive`: only registered gateways are marked for deletion
  (`DeletionIsGuarded`); a deletion that the informer shows is one the server
  still has, or its subject is gone (`DeletionIsSeen`); while a pass that may bind
  is under way, such a deletion is still there (`BinderIsInTime`); a pass that
  unbinds works for a gateway that leaves or that has nothing to unbind
  (`UnbinderIsRight`). The last one is what a late informer puts at risk: a
  finalization repeated for a gateway that is gone must not unbind its successor.
  The hypotheses are necessary: a renamed account keeps its old subject, a
  shared one is unbound by the other gateway, a binding deleted by a user unbinds
  everybody.

* `GatewayConvergenceProofs!SettledConverges`: `Hypotheses` imply
  `Spec => []SettledIsConverged`. The invariant, `Serving`, says of every gateway
  that exists that one of three things is true (`Served`): its turn is still to
  come, because it is in the queue, the informer lags behind its resource, or an
  event of one of its objects is on its way (`Attended`); the worker is at it with
  its present version, and whatever the pass has come past is as the spec wants it
  (`Passing`, `Progressed`); or nobody works for it and all of it is done (`Done`).
  A settled system excludes the first two. So a step may undo what is done only if
  it leaves an event behind, and the proof goes through every step in this way.
  `Serving` needs beside `Guarded`: that the instance of the current version has
  the current spec (`InstanceMirrors`); that an event is pending only while its
  informer lags (`EventsAreDue`); that a watched object has the owner whose name it
  bears (`OwnersAreRight`), for its events go there; and `AddressesAreRight`, since
  the Service is patched and not replaced. Each of the five hypotheses is
  necessary, TLC has a counterexample without it: `NamespaceReadsSucceed` (that
  error is dropped), `StaleReadsAreWatched` and `DriftIsWatched` (nobody watches a
  binding or a ConfigMap), `SubjectsAreDistinct`, `AddressesAreKept` (a cleared
  field stays). The runs `Converge` and `Recreate` satisfy all of them.
* `GatewayPassProofs!ReportsOnlyBound`: `BindingsAreFresh` and
  `BindingsAreLeftAlone` imply `Spec => DeployedOnlyWhenBound`. `PassBinds` is the
  part to find: a pass over the stored version that is past `createRBAC` has bound
  the gateway, and nobody has unbound it since, because only the worker unbinds and
  it is busy. Both hypotheses are necessary (`StaleBinding` is the run without the
  first).
* `GatewayPassProofs!UpToDateStays`: `Unshared` implies `Spec =>
  UpToDateObjectsStay`. An update on an old copy is refused, and one on the present
  copy is not sent, or writes what is there. It takes owners that are right
  (`OwnersAreRight`), an environment that comes out of its map in one order, no
  second gateway in the same binding, and namespaces that stay, or else a
  namespace controller empties what a pass has written. The run `AllObjects`
  satisfies the hypothesis, and TLC finds a violation without any of its parts.

Of the theorems in `ControllerAccessProofs`, on the HigressController, one has a
hypothesis; the others hold for any specs, any edits and any set of steps.

* `CreationIsGuarded`: `Spec => CreatedUnderFinalizer`, for the objects of the
  controller and of its console. The argument is that of the gateway, with one
  difference: the pass goes on after `updateStatus`, whose answer becomes the
  worker's copy.
* `ReleaseIsUnbound`: `Spec => UnboundWhenReleased`. `InstanceFollows` adds that an
  instance of the current version has, with its defaults, the current spec. So
  the update that takes the finalizer off is refused if RBAC or the account was
  edited since `finalizeHigressController` looked at them, and otherwise the
  subject it dropped (`SubjectIsDropped`) is the one the spec names. It rests on
  defaulting being idempotent (`DefaultsAreIdempotent`): `addFinalizer` stores the
  defaults, and the next read fills them in again.

* `BindingIsGuarded`: `AccountsAreTheirOwn` implies `Spec => BoundUnderFinalizer`.
  What a pass adds to a binding is its own account or that of its console
  (`OwnSubjects`), so who is newly bound is the one the worker is at, unless names
  coincide. They can: in one namespace two HigressControllers may name one account,
  or one names its console like the account of the other. TLC finds the property
  violated with either, and not violated with two controllers that do neither.
* `TypeCorrect`: `Spec => []TypeOK`. `Typed`, the types that the theorems above
  need, leaves the contents of most objects open. `Accounted` adds that a uid is
  never above the version (`UidsArePast`), that the owner of an object is an
  incarnation that was there (`OwnersAreKnown`) and that queue, events and
  namespaces speak of HigressControllers (`Bookkeeping`). It is optimistic
  concurrency again that makes owners inductive: an update on an old copy, with an
  old owner, is refused.

* `ControllerConvergenceProofs!SettledConverges`: `Hypotheses` imply
  `Spec => []SettledIsConverged`, on top of `Guarded` and `Accounted`. `Served`
  says of every HigressController who is going to see to it, in the three ways of
  the gateway: `Attended`, `Passing` and `Progressed`, `Done`. What differs is what
  a step leaves. Deployment, Service and bindings are merged into what is stored,
  so nothing can be said of the result of a write without going into every merge,
  and nothing has to be: a write of a watched object is an event, and a pass that
  writes is followed by another one. What has to be right is the object that a step
  left alone, and that is a fixed point of the merge by the comparison the code
  makes (`Suits`, `Agrees`, `StepEnsures`). The objects nobody watches are written
  to the same content by everyone, or belong to one HigressController, and are right
  when written. The other halves of the argument are `EnsuredIsKept` (what a step
  leaves is what `Describes` asks for, or an event is under way), `EnsuredSpares`
  (it spoils nobody else's object without an event) and `ContinueServes` (what is
  skipped is not asked for). `Serving` adds: an event waits only while the informer
  lags, and while it lags on a watched object one waits (`EventsAreDue`,
  `LagIsDue`); objects have the parts and the owners of their kind
  (`ShapesAreRight`); a deletion waits for its finalizer (`DeletionIsGuarded`); an
  instance of the present version has the stored status (`StatusFollows`), for
  `updateStatus` is skipped by the instance and not by what is stored; and the step
  the worker is at applies (`StepApplies`).

  The hypotheses, and what TLC finds without them: `ReadsSucceed` (a namespace read
  that fails ends the pass for good; so do two IngressClass reads in a row),
  `StaleReadsAreWatched` (a ConfigMap edited there and back), `DriftIsWatched` (a
  Role that was deleted), `AccountsAreTheirOwn` (the deletion of one unbinds the
  other), `ConsoleIsApart` (a console named `higress-controller` takes the Role).
  `DeploymentIsItsOwn`, that no other Deployment of the operator bears the name of
  the controller's container, is there for the proof: where it fails every pass
  seems to end in an error, refused as somebody else's or as invalid, and the
  operator never settles. `AbsenceIsNoRecord` says that the two constants for what
  is absent are not mistaken for an object or an owner. The instance of
  `ControllerConverge` satisfies all but `ReadsSucceed`, and with faults at the
  other steps all of them.

The theorems about the pods and the ports of a HigressController are in
`RolloutProofs`, for any set of specs and any history of edits, passes and
injected containers:

* `TypeCorrect`: `Spec => []TypeOK`. What the merges build out of any spec and any
  stored list is a Deployment with containers of the right shape and a Service
  with ports.
* `OthersAreKept`: `Spec => OthersContainersStay`, from the shape of the stored
  Deployment alone (`IsShaped`).
* `SecondPassIsQuiet`: `NamesAreStable` implies `Spec =>
  []SecondPassChangesNothing`. The invariant is `IsSound`: what is stored has
  each container once and both of those two names (`IsProper`, `IsComplete`), and
  if the last pass saw the present spec then the stored containers, volumes and
  ports are fixed points of the merges for it (`IsApplied`). The work is in the environment
  (merging it a second time finds every wanted value) and in the list (the loop
  neither moves nor duplicates a container it knows).
* `PodsStayValid`: with `NamesAreStable` and `MeshIsMounted`, `Spec =>
  []PodsAreValid`. `IsMounted` adds that no container mounts what the stored
  volumes lack; both hypotheses are necessary (see the findings above).
* `SpecReachesPods`: with `NamesAreStable` and `VariablesAreDistinct`, `Spec =>
  []SpecReachesThePods`. A spec that gives a variable two values cannot have
  both.
* `SpecReachesService`: `PortsAreDistinct` implies `Spec =>
  []SpecReachesTheService`. A spec that names a port twice would have the name
  twice in the Service.

The lemmas follow the code: one per function for what it may write
(`Ensures...`, summed up in `EnsureEffect`), one per action for the types and one
for the finalizer.

Only model-checked: liveness (`LiveGatewaysGetDeployed`, `Settles`,
`DeletionWithBindingFinishes`, `NoStuckDeletion`, `LiveControllersGetDeployed`),
which under fairness is beyond TLAPS. Every other property of a passing run is a
theorem, under the hypotheses above.

## 5. Not modelled

* Both controllers over one API server: a HigressController and a HigressGateway
  of one name write the same ConfigMap, Deployment and Service
  (`higresscontroller/configmap.go:18`). Each is modelled as if it were alone.
* Fixed variables and flags, probes, security contexts, labels and images beyond
  their being a value of the spec.
* Reading and decoding the CRD manifests (`crds.go`): I/O and parsing. One CRD
  stands for all of them, and an error of theirs ends the pass like a fault at the
  step `CRD` does.
* `higressgateway/hpa.go`, the console's `createCRDs`, and `createOrUpdate`,
  `mutate` and `compair` in `utils.go`: never called. `CreateOrUpdate` hands over
  to the function of that name in controller-runtime, and that is what `KubeAPI`
  models.
* `cmd/main.go`, except that the process may end and start again.
* Generated code (`zz_generated.deepcopy.go`): deep copies, which a model of
  values has no use for; manifests in `config/`; tests, which state no behaviour
  of a reconciler.

## 6. Plan

Done: both controllers, the console, their environment, the abstract access
specification and its refinement, the merges of containers and ports, and the
theorems above: every invariant and action property of a passing run is proved.
What would come next:

* `Operator`: both controllers over one API server, for the names they share.

Modules that proofs extend have no RECURSIVE operator; parameters are CONSTANTS
with named assumptions; one action per operation.
