-------------------- MODULE ControllerConvergenceProofs --------------------
(***************************************************************************)
(* What a HigressController that stays comes to: once nothing is left to   *)
(* do, it has the objects its spec describes and is reported as deployed.  *)
(* The invariant says of every stored HigressController who is going to    *)
(* see to it: the queue or an undelivered event, the pass under way, or    *)
(* nobody, and then it is as it should be.  Deployments, Services and      *)
(* bindings are merged into what is stored, so nothing is said of what a   *)
(* write leaves: a write of a watched object is an event, and brings       *)
(* another pass.  What has to be right is the object that a pass has found *)
(* to be right already.                                                    *)
(***************************************************************************)
EXTENDS ControllerAccessProofs

\* Reconcile drops the error of the namespace read, createIngressClass that of its own.
ReadsSucceed == {"namespace", "IngressClass"} \cap FailingSteps = {}

\* A stale copy of an object leads to a conflict and a retry, or its event is
\* watched for.  Nobody watches the roles and the bindings.
StaleReadsAreWatched == LaggingKinds \subseteq WatchedKinds

\* What nobody watches, nobody deletes by hand; an edit of a CRD waits.
DriftIsWatched == DriftKinds \subseteq WatchedKinds \cup {"CRD"}

\* No console keeps an object that a HigressController keeps for itself.
ConsoleIsApart ==
    \A c, d \in Controllers : \A s \in DefaultedSpecs(c), t \in DefaultedSpecs(d) :
        \A step \in Tracked \cap ControllerSteps, other \in Tracked \cap ConsoleSteps :
            HasConsole(t) => KeyOf(step, c, s) # KeyOf(other, d, t)

\* The Deployment that bears the name of the container is no other one.
DeploymentIsItsOwn ==
    \A c \in Controllers : \A s \in DefaultedSpecs(c) :
        LookedUp(c, s) \in Keys => LookedUp(c, s) = KeyOf("Deployment", c, s)

\* What is not there is no object, and nobody is no owner.
AbsenceIsNoRecord ==
    /\ "owner" \notin DOMAIN Nothing
    /\ Nil \notin [controller : Controllers, uid : Nat]

Hypotheses ==
    /\ ReadsSucceed
    /\ StaleReadsAreWatched
    /\ DriftIsWatched
    /\ AccountsAreTheirOwn
    /\ ConsoleIsApart
    /\ DeploymentIsItsOwn
    /\ AbsenceIsNoRecord

-----------------------------------------------------------------------------
\* The invariant.

\* It is queued, or the event of its last change will queue it.
Attended(c) == c \in queue \/ controllerCache[c].version < controllers[c].version

Working(c) == pc # "idle" /\ req = c
Passing(c) == Working(c) /\ instance.version = controllers[c].version

\* The objects that a pass keeps for the HigressController itself.
Own == Tracked \cap ControllerSteps

\* A watched object whose HigressController will be queued: an event is under
\* way, or the object belongs to an older incarnation and will be collected.
Disturbed(k, c) == k.kind \in WatchedKinds /\ (c \in pending[k] \/ Garbage(k))

UpToDate(step, c) ==
    LET object == objects[KeyFor(step, c)]
    IN  Exists(object) /\ Describes(step, c, object.content)

Kept(step, c) == Asked(step, c) => UpToDate(step, c) \/ Disturbed(KeyFor(step, c), c)

Done(c) ==
    /\ Live(c)
    /\ c.ns \notin terminating =>
          controllers[c].content.deployed /\ \A step \in Own : Kept(step, c)

\* What the pass under way has behind it.
Progressed(c) ==
    pc \in EnsureSteps /\ c.ns \notin terminating =>
        /\ \A step \in Own : Position(step) < Position(pc) => Kept(step, c)
        /\ Position("Status") < Position(pc) => controllers[c].content.deployed

Served(c) ==
    Exists(controllers[c]) =>
        \/ Attended(c)
        \/ Passing(c) /\ Progressed(c)
        \/ ~Working(c) /\ Done(c)

\* A resource that is being deleted waits for its finalizer.
DeletionIsGuarded ==
    \A c \in Controllers :
        Exists(controllers[c]) /\ controllers[c].content.deleting =>
            controllers[c].content.finalizer

\* The worker is at a step that its instance asks for.
StepApplies == pc \in EnsureSteps => Applies(pc)

\* The worker's instance has the status that is stored, or is outdated.
StatusFollows ==
    pc # "idle" /\ instance.version = controllers[req].version =>
        instance.content.deployed = controllers[req].content.deployed

BelongsTo(k, c) == k.kind \in Own /\ \E s \in DefaultedSpecs(c) : k = KeyOf(k.kind, c, s)

\* An event waits only while the informer lags behind, and while it does the
\* one the object belongs to has an event waiting.
EventsAreDue ==
    \A k \in Keys : pending[k] # {} =>
        k.kind \in WatchedKinds /\ objectCache[k].version < objects[k].version

LagIsDue ==
    \A k \in Keys, c \in Controllers :
        BelongsTo(k, c) /\ k.kind \in WatchedKinds =>
            objectCache[k].version = objects[k].version \/ c \in pending[k]

\* What every object has that a HigressController keeps for itself.  A watched
\* one belongs to it; of the others, those in a namespace belong to nobody.
Shaped(k, c, content) ==
    /\ k.kind = "CRD" => content \in {CRDContent, EditedCRD}
    /\ k.kind \in {"ClusterRole", "Role"} => content.owner = Nil /\ "rules" \in DOMAIN content
    /\ k.kind \in {"ClusterRoleBinding", "RoleBinding"} =>
          content.owner = Nil /\ "subjects" \in DOMAIN content
    /\ k.kind = "ConfigMap" => content.owner = Nil /\ "mesh" \in DOMAIN content
    /\ k.kind = "IngressClass" => k.name = <<content.controller>>
    /\ k.kind \in WatchedKinds => content.owner # Nil /\ content.owner.controller = c

ShapesAreRight ==
    \A k \in Keys, c \in Controllers :
        Exists(objects[k]) /\ BelongsTo(k, c) => Shaped(k, c, objects[k].content)

Tidy == EventsAreDue /\ LagIsDue /\ ShapesAreRight

Serving ==
    /\ Guarded
    /\ Accounted
    /\ DeletionIsGuarded
    /\ StepApplies
    /\ StatusFollows
    /\ Tidy
    /\ \A c \in Controllers : Served(c)

-----------------------------------------------------------------------------
\* Keys and specs.

\* An object that a HigressController keeps for itself is of the kind that its
\* step is named for, and in its namespace or in none.
LEMMA OwnKeys ==
    ASSUME NEW c \in Controllers, NEW s \in DefaultedSpecs(c), NEW step \in Own
    PROVE  /\ KeyOf(step, c, s) \in Keys
           /\ KeyOf(step, c, s).kind = step
           /\ BelongsTo(KeyOf(step, c, s), c)
           /\ KeyOf(step, c, s).ns \in {"", c.ns}
<1> DEFINE k == KeyOf(step, c, s)
<1>1. k.kind = step /\ k.ns \in {"", c.ns}
  BY DEF Own, ControllerSteps, RBACSteps, KeyOf, Key
<1>2. step \in {t \in Tracked : t \in ConsoleSteps => HasConsole(s)}
  BY DEF Own, ControllerSteps, RBACSteps, ConsoleSteps
<1>3. k \in KeysOf(c, Tracked)
  BY <1>2 DEF KeysOf
<1>4. k \in Keys
  BY <1>3 DEF Keys
<1>5. BelongsTo(k, c)
  BY <1>1 DEF BelongsTo
<1> QED BY <1>1, <1>4, <1>5

\* The objects that are in no namespace.
LEMMA ClusterScoped ==
    ASSUME NEW c, NEW s,
           NEW step \in {"CRD", "ClusterRole", "ClusterRoleBinding", "IngressClass"}
    PROVE  KeyOf(step, c, s).ns = ""
<1> DEFINE none == ""
<1>1. \E name : KeyOf(step, c, s) = Key(step, none, name)
  BY DEF KeyOf
<1> HIDE DEF none
<1>2. KeyOf(step, c, s).ns = none
  BY <1>1 DEF Key
<1> QED BY <1>2 DEF none

\* A watched object, a binding and a ConfigMap belong to one HigressController.
LEMMA OwnersDiffer ==
    ASSUME AccountsAreTheirOwn, NEW k, NEW c \in Controllers, NEW d \in Controllers,
           BelongsTo(k, c), BelongsTo(k, d),
           k.kind \notin {"CRD", "ClusterRole", "Role", "IngressClass"}
    PROVE  c = d
<1>1. PICK s \in DefaultedSpecs(c) : k = KeyOf(k.kind, c, s)
  BY DEF BelongsTo
<1>2. PICK t \in DefaultedSpecs(d) : k = KeyOf(k.kind, d, t)
  BY DEF BelongsTo
<1>8. c.ns = d.ns /\ c.name = d.name => c = d
  <2> DEFINE T == Text \ {""}
  <2>1. c \in [ns : T, name : T] /\ d \in [ns : T, name : T]
    BY ControllersAssumption
  <2> HIDE DEF T
  <2> QED BY <2>1
<1>3. ASSUME Subject(c, s) = Subject(d, t) PROVE c = d
  BY <1>3 DEF AccountsAreTheirOwn
<1>4. CASE k.kind \in {"ServiceAccount", "RoleBinding"}
  <2>1. Key(k.kind, c.ns, <<getServiceAccount(c, s)>>)
            = Key(k.kind, d.ns, <<getServiceAccount(d, t)>>)
    BY <1>1, <1>2, <1>4 DEF KeyOf
  <2>2. c.ns = d.ns /\ <<getServiceAccount(c, s)>> = <<getServiceAccount(d, t)>>
    BY <2>1 DEF Key
  <2> QED BY <1>3, <2>2 DEF Subject
<1>5. CASE k.kind = "ClusterRoleBinding"
  <2>1. Key(k.kind, "", <<c.ns, getServiceAccount(c, s)>>)
            = Key(k.kind, "", <<d.ns, getServiceAccount(d, t)>>)
    BY <1>1, <1>2, <1>5 DEF KeyOf
  <2>2. <<c.ns, getServiceAccount(c, s)>> = <<d.ns, getServiceAccount(d, t)>>
    BY <2>1 DEF Key
  <2> QED BY <1>3, <2>2 DEF Subject
<1>6. CASE k.kind = "ConfigMap"
  <2>1. Key(k.kind, c.ns, <<"cm", c.name>>) = Key(k.kind, d.ns, <<"cm", d.name>>)
    BY <1>1, <1>2, <1>6 DEF KeyOf
  <2>2. c.ns = d.ns /\ c.name = d.name
    BY <2>1 DEF Key
  <2> QED BY <1>8, <2>2
<1>7. CASE k.kind \in {"Deployment", "Service"}
  <2>1. Key(k.kind, c.ns, <<c.name>>) = Key(k.kind, d.ns, <<d.name>>)
    BY <1>1, <1>2, <1>7 DEF KeyOf
  <2>2. c.ns = d.ns /\ c.name = d.name
    BY <2>1 DEF Key
  <2> QED BY <1>8, <2>2
<1> QED BY <1>4, <1>5, <1>6, <1>7 DEF BelongsTo, Own, ControllerSteps, RBACSteps

\* A stored HigressController asks for what its spec with the defaults says.
LEMMA HomeFacts ==
    ASSUME Typed, NEW c \in Controllers, Exists(controllers[c])
    PROVE  /\ StoredSpec(c) \in DefaultedSpecs(c)
           /\ controllers[c].content \in ControllerContent(StoredSpecs(c))
           /\ \A step \in Own : /\ KeyFor(step, c) \in Keys
                                 /\ KeyFor(step, c).kind = step
                                 /\ BelongsTo(KeyFor(step, c), c)
<1>1. controllers[c].content \in ControllerContent(StoredSpecs(c))
  BY DEF Typed, Object, Exists
<1>2. StoredSpec(c) \in DefaultedSpecs(c)
  BY BoundFacts
<1> QED BY <1>1, <1>2, OwnKeys DEF KeyFor

-----------------------------------------------------------------------------
\* The order of the steps.

\* The pass, written out.
LEMMA PassIs ==
    /\ DOMAIN Pass = 1 .. 19
    /\ Pass[1] = "CRD" /\ Pass[2] = "ServiceAccount" /\ Pass[3] = "ClusterRole"
    /\ Pass[4] = "ClusterRoleBinding" /\ Pass[5] = "Role" /\ Pass[6] = "RoleBinding"
    /\ Pass[7] = "ConfigMap" /\ Pass[8] = "Deployment" /\ Pass[9] = "IngressClass"
    /\ Pass[10] = "Service" /\ Pass[11] = "Status"
    /\ Pass[12] = "ConsoleClusterRole" /\ Pass[13] = "ConsoleClusterRoleBinding"
    /\ Pass[14] = "ConsoleRole" /\ Pass[15] = "ConsoleRoleBinding"
    /\ Pass[16] = "ConsoleServiceAccount" /\ Pass[17] = "ConsoleConfigMap"
    /\ Pass[18] = "ConsoleDeployment" /\ Pass[19] = "ConsoleService"
<1> DEFINE P == Pass
<1>1. DOMAIN P = 1 .. 19
  BY DEF Pass, ControllerPass, ConsolePass
<1>2. /\ P[1] = "CRD" /\ P[2] = "ServiceAccount" /\ P[3] = "ClusterRole"
      /\ P[4] = "ClusterRoleBinding" /\ P[5] = "Role" /\ P[6] = "RoleBinding"
      /\ P[7] = "ConfigMap" /\ P[8] = "Deployment" /\ P[9] = "IngressClass"
      /\ P[10] = "Service" /\ P[11] = "Status"
  BY DEF Pass, ControllerPass, ConsolePass
<1>3. /\ P[12] = "ConsoleClusterRole" /\ P[13] = "ConsoleClusterRoleBinding"
      /\ P[14] = "ConsoleRole" /\ P[15] = "ConsoleRoleBinding"
      /\ P[16] = "ConsoleServiceAccount" /\ P[17] = "ConsoleConfigMap"
      /\ P[18] = "ConsoleDeployment" /\ P[19] = "ConsoleService"
  BY DEF Pass, ControllerPass, ConsolePass
<1> QED BY <1>1, <1>2, <1>3

\* No step occurs twice.
LEMMA PassIsInjective ==
    ASSUME NEW i \in DOMAIN Pass, NEW j \in DOMAIN Pass, Pass[i] = Pass[j] PROVE i = j
BY PassIs

\* The position of a step of the pass, and which steps come before the status.
LEMMA Positions ==
    /\ \A i \in DOMAIN Pass : Position(Pass[i]) = i
    /\ \A step \in EnsureSteps : Position(step) \in DOMAIN Pass /\ Pass[Position(step)] = step
    /\ \A step : step \notin EnsureSteps => Position(step) = 0
    /\ Own \subseteq EnsureSteps
    /\ "Status" \in EnsureSteps
    /\ \A step \in Own : Position(step) < Position("Status")
<1>1. ASSUME NEW step \in EnsureSteps
      PROVE  Position(step) \in DOMAIN Pass /\ Pass[Position(step)] = step
  <2>1. \E i \in DOMAIN Pass : Pass[i] = step
    BY DEF EnsureSteps
  <2>2. Position(step) = CHOOSE i \in DOMAIN Pass : Pass[i] = step
    BY DEF Position
  <2> QED BY <2>1, <2>2
<1>2. ASSUME NEW i \in DOMAIN Pass PROVE Position(Pass[i]) = i
  <2>1. Pass[i] \in EnsureSteps
    BY DEF EnsureSteps
  <2> QED BY <1>1, <2>1, PassIsInjective
<1>3. \A step : step \notin EnsureSteps => Position(step) = 0
  BY DEF Position
<1>4. Position("Status") = 11
  BY <1>2, PassIs
<1>5. \A step \in Own : \E i \in 1 .. 10 : Pass[i] = step
  <2> SUFFICES ASSUME NEW step \in Own PROVE \E i \in 1 .. 10 : Pass[i] = step
    OBVIOUS
  <2>1. step \in {Pass[1], Pass[2], Pass[3], Pass[4], Pass[5], Pass[6], Pass[7], Pass[8], Pass[9],
                  Pass[10]}
    BY PassIs DEF Own, ControllerSteps, RBACSteps
  <2> QED BY <2>1
<1>6. \A step \in Own : Position(step) \in 1 .. 10 /\ step \in EnsureSteps
  <2> SUFFICES ASSUME NEW step \in Own PROVE Position(step) \in 1 .. 10 /\ step \in EnsureSteps
    OBVIOUS
  <2>1. PICK i \in 1 .. 10 : Pass[i] = step
    BY <1>5
  <2>2. i \in DOMAIN Pass
    BY PassIs
  <2> QED BY <1>2, <2>1, <2>2 DEF EnsureSteps
<1>7. "Status" \in EnsureSteps
  BY PassIs DEF EnsureSteps
<1> QED BY <1>1, <1>2, <1>3, <1>4, <1>6, <1>7

-----------------------------------------------------------------------------
\* What a step of Reconcile does to the object it is about.

\* One write of one object, and the events it leaves behind.
Lands(k, object) ==
    /\ \A l \in Keys : objects'[l] = IF l = k THEN object ELSE objects[l]
    /\ \A l \in Keys : pending'[l] =
          IF l = k /\ object # objects[k]
          THEN pending[k] \cup OwnersOf(k, objects[k]) \cup OwnersOf(k, object)
          ELSE pending[l]

\* An object is left as it is, or written in a later version.
Forward(before, after) ==
    after = before \/ (after.version \in Nat /\ before.version < after.version)

\* What a step may write: an object of its shape, with the rules that all want;
\* an IngressClass is never written again.
Fits(before, after) ==
    after = before \/
        /\ Exists(after)
        /\ Shaped(keyOf(pc), req, after.content)
        /\ pc \in {"ClusterRole", "Role"} => after.content.rules = defaultRules
        /\ pc = "IngressClass" => ~Exists(before)

\* The content of an object is what a step would make of it.
Agrees(content) ==
    /\ pc \in {"ClusterRole", "Role"} => content.rules = defaultRules
    /\ pc \in {"ClusterRoleBinding", "RoleBinding"} => Subject(req, wanted) \in content.subjects
    /\ pc = "ConfigMap" => content.mesh = initGatewayConfigMap(req, wanted).mesh
    /\ pc = "Deployment" => updateDeploymentSpec(req, wanted, content) = content
    /\ pc = "Service" => updateServiceSpec(content, wanted) = content

\* What a step that goes on leaves behind: the object it is for, unless it has
\* written a watched one, or has read a copy of one that is out of date.
Suits(before, after) ==
    \/ pc \in WatchedKinds /\ (after # before \/ objectCache[keyOf(pc)].version # before.version)
    \/ Exists(after) /\ Agrees(after.content)

\* All that a step for an object may do: write it, and return with an error or go on.
Ensures ==
    /\ UNCHANGED <<controllers, terminating, controllerCache, objectCache>>
    /\ \E object :
        /\ Lands(keyOf(pc), object)
        /\ keyOf(pc) \in Keys => Forward(objects[keyOf(pc)], object)
        /\ pc \in Own => Fits(objects[keyOf(pc)], object)
        /\ Retry \/ (Continue(instance) /\ (pc \in Own => Suits(objects[keyOf(pc)], object)))

\* Store lands what it is given.
LEMMA StoreLands ==
    ASSUME Guarded, Accounted, NEW k, NEW object, Store(k, object) PROVE Lands(k, object)
<1>1. DOMAIN objects = Keys /\ DOMAIN pending = Keys
  BY DEF Guarded, Typed, Accounted, Bookkeeping
<1> QED BY <1>1 DEF Store, Lands

\* A write that is not made leaves every object where it is.
LEMMA NothingLands ==
    ASSUME NEW k, UNCHANGED <<objects, pending>> PROVE Lands(k, objects[k])
BY DEF Lands

\* A call that does what it is for if it is answered without an error.
LEMMA CallEnsures ==
    ASSUME Guarded, Accounted, NEW answer,
           keyOf(pc) \in Keys => Forward(objects[keyOf(pc)], answer.object),
           pc \in Own => Fits(objects[keyOf(pc)], answer.object),
           pc \in Own /\ answer.ok => Suits(objects[keyOf(pc)], answer.object),
           CallForObject(keyOf(pc), answer)
    PROVE  Ensures
<1> DEFINE k == keyOf(pc)
           result == Admitted(k, answer)
<1>1. \/ result = answer
      \/ result = [ok |-> FALSE, object |-> objects[k]]
  BY DEF Admitted
<1>2. /\ k \in Keys => Forward(objects[k], result.object)
      /\ pc \in Own => Fits(objects[k], result.object)
      /\ pc \in Own /\ result.ok => Suits(objects[k], result.object)
      /\ Forward(objects[k], objects[k]) /\ Fits(objects[k], objects[k])
  BY <1>1 DEF Forward, Fits
<1>3. UNCHANGED <<controllers, terminating, controllerCache, objectCache>>
  BY DEF CallForObject
<1>4. \/ Store(k, result.object) /\ IF result.ok THEN Continue(instance) ELSE Retry
      \/ Store(k, result.object) /\ Retry
      \/ UNCHANGED <<objects, pending>> /\ Retry
  BY DEF CallForObject
<1> HIDE DEF k, result
<1>5. CASE Store(k, result.object)
  <2>1. Lands(k, result.object)
    BY <1>5, StoreLands
  <2>2. (result.ok /\ Continue(instance)) \/ Retry
    BY <1>4
  <2> QED BY <1>2, <1>3, <2>1, <2>2 DEF Ensures, k
<1>6. CASE UNCHANGED <<objects, pending>> /\ Retry
  <2>1. Lands(k, objects[k])
    BY <1>6, NothingLands
  <2> QED BY <1>2, <1>3, <1>6, <2>1 DEF Ensures, k
<1> QED BY <1>4, <1>5, <1>6

\* A step that sends nothing and returns with an error, or is content with what is there.
LEMMA SendNothingEnsures ==
    ASSUME \/ SendNothing(Retry)
           \/ /\ SendNothing(Continue(instance))
              /\ pc \in Own => Suits(objects[keyOf(pc)], objects[keyOf(pc)])
    PROVE  Ensures
<1>1. Lands(keyOf(pc), objects[keyOf(pc)])
  BY NothingLands DEF SendNothing, serverVars, cacheVars
<1>2. UNCHANGED <<controllers, terminating, controllerCache, objectCache>>
  BY DEF SendNothing, serverVars, cacheVars
<1>3. Retry \/ (Continue(instance) /\ (pc \in Own => Suits(objects[keyOf(pc)], objects[keyOf(pc)])))
  BY DEF SendNothing
<1> QED BY <1>1, <1>2, <1>3 DEF Ensures, Forward, Fits

\* CreateOrUpdate creates, updates what it has read, or leaves an object alone
\* that is, as far as the informer knows, as it should be.
LEMMA CreateOrUpdateLeaves ==
    ASSUME NEW object, object.version \in Nat, NEW seen, NEW fresh, NEW mutated,
           NEW forced \in BOOLEAN, Follows(seen, object)
    PROVE  LET answer == CreateOrUpdate(object, seen, fresh, mutated, forced)
           IN  /\ Forward(object, answer.object)
               /\ \/ answer.object = object
                  \/ ~Exists(object) /\ answer.object.content = fresh
                  \/ /\ Exists(object) /\ Exists(seen) /\ seen.content = object.content
                     /\ answer.object.content = mutated
               /\ answer.ok =>
                     \/ ~Exists(object) /\ answer.object.content = fresh
                     \/ /\ Exists(object) /\ Exists(seen) /\ seen.content = object.content
                        /\ answer.object.content = mutated
                     \/ answer.object = object /\ Exists(seen) /\ mutated = seen.content
<1> DEFINE answer == CreateOrUpdate(object, seen, fresh, mutated, forced)
           created == ~Exists(object) /\ answer.object.content = fresh
           updated == /\ Exists(object) /\ Exists(seen) /\ seen.content = object.content
                      /\ answer.object.content = mutated
<1> SUFFICES /\ Forward(object, answer.object)
             /\ answer.object = object \/ created \/ updated
             /\ answer.ok => \/ created \/ updated
                             \/ answer.object = object /\ Exists(seen) /\ mutated = seen.content
  OBVIOUS
<1>1. \A content : /\ Written(object, content).content = content
                   /\ Forward(object, Written(object, content))
  BY DEF Written, Forward
<1>2. Forward(object, object)
  BY DEF Forward
<1>3. CASE ~Exists(seen)
  <2>1. answer = [ok |-> ~Exists(object),
                  object |-> IF ~Exists(object) THEN Written(object, fresh) ELSE object]
    BY <1>3 DEF CreateOrUpdate, Create, Answer
  <2> HIDE DEF answer
  <2> QED BY <1>1, <1>2, <2>1
<1>4. CASE Exists(seen) /\ (forced \/ mutated # seen.content)
  <2> DEFINE accepted == Exists(object) /\ object.version = seen.version
  <2>1. answer = [ok |-> accepted,
                  object |-> IF accepted THEN Written(object, mutated) ELSE object]
    BY <1>4 DEF CreateOrUpdate, Update, Answer, AcceptsVersion
  <2>2. accepted => seen.content = object.content
    BY DEF Follows
  <2> HIDE DEF answer
  <2> QED BY <1>1, <1>2, <1>4, <2>1, <2>2
<1>5. CASE Exists(seen) /\ ~(forced \/ mutated # seen.content)
  <2>1. answer.object = object /\ answer.ok = TRUE
    BY <1>5 DEF CreateOrUpdate
  <2> HIDE DEF answer
  <2> QED BY <1>2, <1>5, <2>1
<1> QED BY <1>3, <1>4, <1>5

\* A content that a step may create an object with, or update one to.
Fitting(content) ==
    /\ content # Nothing
    /\ Shaped(keyOf(pc), req, content)
    /\ pc \notin WatchedKinds => Agrees(content)

\* What the worker reads is the object or an older version of it; of what nobody
\* watches, it is the object.
LEMMA SeenFollows ==
    ASSUME Guarded, NEW k \in Keys
    PROVE  /\ objects[k].version \in Nat
           /\ Follows(Seen(k), objects[k])
           /\ objectCache[k].version = objects[k].version => Seen(k).content = objects[k].content
           /\ StaleReadsAreWatched /\ k.kind \notin WatchedKinds => Seen(k) = objects[k]
BY DEF Guarded, Typed, Seen, Follows, StaleReadsAreWatched

\* The object of a step that is under way.
LEMMA AtOwnKey ==
    ASSUME Guarded, pc \in Own
    PROVE  /\ req \in Controllers /\ wanted \in DefaultedSpecs(req)
           /\ pc \in EnsureSteps
           /\ keyOf(pc) \in Keys /\ keyOf(pc).kind = pc /\ BelongsTo(keyOf(pc), req)
           /\ keyOf(pc) = KeyOf(pc, req, wanted)
<1>1. pc \in EnsureSteps /\ pc # "idle"
  BY Positions, StepsDiffer
<1>2. req \in Controllers /\ wanted \in DefaultedSpecs(req)
  BY <1>1, WorkerFacts DEF Guarded
<1> QED BY <1>1, <1>2, OwnKeys DEF keyOf

\* CreateOrUpdate of an object that a HigressController keeps for itself.
LEMMA OwnCallEnsures ==
    ASSUME Guarded, Accounted, StaleReadsAreWatched, pc \in Own, pc # "IngressClass",
           NEW fresh, NEW mutated, NEW forced \in BOOLEAN,
           Fitting(fresh),
           LET k == keyOf(pc)
           IN  /\ Exists(objects[k]) /\ Seen(k).content = objects[k].content => Fitting(mutated)
               /\ pc \in WatchedKinds /\ mutated = Seen(k).content => Agrees(mutated),
           CallForObject(keyOf(pc),
               CreateOrUpdate(objects[keyOf(pc)], Seen(keyOf(pc)), fresh, mutated, forced))
    PROVE  Ensures
<1> DEFINE k == keyOf(pc)
           before == objects[k]
           answer == CreateOrUpdate(before, Seen(k), fresh, mutated, forced)
           created == ~Exists(before) /\ answer.object.content = fresh
           updated == /\ Exists(before) /\ Exists(Seen(k)) /\ Seen(k).content = before.content
                      /\ answer.object.content = mutated
<1>1. k \in Keys /\ k.kind = pc
  BY AtOwnKey
<1>2. CallForObject(k, answer)
  OBVIOUS
<1>3. /\ Exists(before) /\ Seen(k).content = before.content => Fitting(mutated)
      /\ pc \in WatchedKinds /\ mutated = Seen(k).content => Agrees(mutated)
  OBVIOUS
<1>4. before.version \in Nat /\ Follows(Seen(k), before)
  BY <1>1, SeenFollows
<1>5. /\ Forward(before, answer.object)
      /\ answer.object = before \/ created \/ updated
      /\ answer.ok => \/ created \/ updated
                      \/ answer.object = before /\ Exists(Seen(k)) /\ mutated = Seen(k).content
  BY <1>4, CreateOrUpdateLeaves
<1> HIDE DEF answer
<1>6. created \/ updated => Exists(answer.object) /\ Fitting(answer.object.content)
  BY <1>3 DEF Fitting, Exists
<1>7. Fits(before, answer.object)
  BY <1>5, <1>6 DEF Fits, Fitting, Agrees, WatchedKinds
<1>8. ASSUME answer.ok PROVE Suits(before, answer.object)
  <2>1. CASE created
    BY <1>6, <2>1 DEF Suits, Fitting, Exists
  <2>2. CASE updated
    <3>1. CASE pc \notin WatchedKinds
      BY <1>6, <2>2, <3>1 DEF Suits, Fitting
    <3>2. CASE pc \in WatchedKinds /\ answer.object = before
      BY <1>3, <1>6, <2>2, <3>2 DEF Suits
    <3>3. CASE pc \in WatchedKinds /\ answer.object # before
      BY <3>3 DEF Suits
    <3> QED BY <3>1, <3>2, <3>3
  <2>3. CASE answer.object = before /\ Exists(Seen(k)) /\ mutated = Seen(k).content
    <3>1. CASE pc \notin WatchedKinds
      <4>1. Seen(k) = before
        BY <1>1, <3>1, SeenFollows
      <4> QED BY <1>3, <2>3, <3>1, <4>1 DEF Suits, Fitting
    <3>2. CASE pc \in WatchedKinds /\ objectCache[k].version = before.version
      <4>1. Seen(k).content = before.content
        BY <1>1, <3>2, SeenFollows
      <4> QED BY <1>3, <2>3, <3>2, <4>1 DEF Suits, Exists
    <3>3. CASE pc \in WatchedKinds /\ objectCache[k].version # before.version
      BY <3>3 DEF Suits
    <3> QED BY <3>1, <3>2, <3>3
  <2> QED BY <1>5, <1>8, <2>1, <2>2, <2>3
<1> HIDE DEF k, before, created, updated
<1> QED BY <1>2, <1>5, <1>7, <1>8, CallEnsures DEF k, before

-----------------------------------------------------------------------------
\* The steps, one by one.

\* Everything a step relies on.
Ready ==
    /\ Guarded
    /\ Accounted
    /\ ShapesAreRight
    /\ StepApplies
    /\ Hypotheses

\* The stored object of a step is of its shape.
LEMMA StoredIsShaped ==
    ASSUME Ready, pc \in Own, Exists(objects[keyOf(pc)])
    PROVE  /\ Shaped(keyOf(pc), req, objects[keyOf(pc)].content)
           /\ "owner" \in DOMAIN objects[keyOf(pc)].content
           /\ objects[keyOf(pc)].content.owner \in {Nil} \cup Incarnations
BY AtOwnKey DEF Ready, ShapesAreRight, Accounted, OwnersAreKnown

\* A step that is taken is a step of the project's own or of the console.
LEMMA StepIsOwn ==
    ASSUME Ready, pc \in ControllerSteps PROVE pc \in Own
<1>1. pc \in EnsureSteps
  BY AtStep DEF Ready, Guarded
<1>2. pc \in Tracked
  BY <1>1 DEF Ready, StepApplies, Applies, ControllerSteps, RBACSteps
<1> QED BY <1>2 DEF Own

\* An owner that is a HigressController is not nobody.
LEMMA OwnersAreSomebody ==
    ASSUME Hypotheses, NEW c \in Controllers, NEW u \in Nat
    PROVE  Owner(c, u) # Nil /\ Owner(c, u).controller = c /\ Owner(c, u).uid = u
BY DEF Owner, Hypotheses, AbsenceIsNoRecord

\* The uid of the HigressController that is reconciled.
LEMMA OwnUid == ASSUME Guarded, pc \in Own PROVE uid \in Nat
<1>1. pc # "idle"
  BY AtOwnKey, StepsDiffer
<1> QED BY <1>1, WorkerFacts DEF Guarded, ControllerContent, uid

\* createCRDs.
LEMMA CRDEnsures == ASSUME Ready, createCRDs PROVE Ensures
<1>1. pc = "CRD" /\ pc \in Own
  BY StepIsOwn DEF createCRDs, ControllerSteps
<1>2. keyOf(pc) \in Keys /\ keyOf(pc).kind = pc
  BY <1>1, AtOwnKey DEF Ready
<1>3. Seen(keyOf(pc)) = objects[keyOf(pc)]
  BY <1>1, <1>2, StepsAssumption DEF Seen
<1>4. CallForObject(keyOf(pc), CreateOrUpdate(objects[keyOf(pc)], Seen(keyOf(pc)),
                                              CRDContent, CRDContent, FALSE))
  BY <1>3 DEF createCRDs
<1>5. "owner" \in DOMAIN CRDContent
  BY DEF CRDContent
<1>6. CRDContent # Nothing
  BY <1>5 DEF Ready, Hypotheses, AbsenceIsNoRecord
<1>7. Fitting(CRDContent)
  <2> DEFINE content == CRDContent
  <2>1. content \in {CRDContent, EditedCRD}
    OBVIOUS
  <2> HIDE DEF content
  <2>2. Agrees(content)
    BY <1>1, <1>2, <2>1 DEF Agrees
  <2>3. Shaped(keyOf(pc), req, content)
    <3> DEFINE k == keyOf(pc)
    <3>1. k.kind = "CRD"
      BY <1>1, <1>2
    <3> HIDE DEF k
    <3>2. Shaped(k, req, content)
      BY <2>1, <3>1 DEF Shaped, WatchedKinds
    <3> QED BY <3>2 DEF k
  <2> QED BY <1>6, <2>2, <2>3 DEF Fitting, content
<1>8. pc \notin WatchedKinds
  BY <1>1 DEF WatchedKinds
<1> QED BY <1>1, <1>4, <1>7, <1>8, OwnCallEnsures DEF Ready, Hypotheses

\* createServiceAccount.
LEMMA ServiceAccountEnsures == ASSUME Ready, createServiceAccount PROVE Ensures
<1> DEFINE k == keyOf(pc)
           fresh == initServiceAccount(req, uid)
           answer == CreateIfNotExists(objects[k], fresh)
<1>1. pc = "ServiceAccount" /\ pc \in Own
  BY StepIsOwn DEF createServiceAccount, ControllerSteps
<1>2. k \in Keys /\ k.kind = pc /\ req \in Controllers
  BY <1>1, AtOwnKey DEF Ready
<1>3. CallForObject(k, answer)
  BY DEF createServiceAccount
<1>4. "owner" \in DOMAIN fresh /\ fresh.owner = Owner(req, uid)
  BY DEF initServiceAccount
<1>5. fresh # Nothing
  BY <1>4 DEF Ready, Hypotheses, AbsenceIsNoRecord
<1>6. Owner(req, uid) # Nil /\ Owner(req, uid).controller = req
  <2>1. uid \in Nat
    BY <1>1, OwnUid DEF Ready
  <2> QED BY <1>2, <2>1, OwnersAreSomebody DEF Ready
<1>7. Shaped(k, req, fresh)
  BY <1>1, <1>2, <1>4, <1>6 DEF Shaped, WatchedKinds
<1>8. answer.object = IF Exists(objects[k]) THEN objects[k] ELSE Written(objects[k], fresh)
  BY DEF CreateIfNotExists, Create, Answer
<1>9. Written(objects[k], fresh).content = fresh /\ Forward(objects[k], Written(objects[k], fresh))
  BY <1>2, SeenFollows DEF Written, Forward, Ready
<1> HIDE DEF answer, fresh
<1>10. Forward(objects[k], answer.object) /\ Exists(answer.object)
  BY <1>5, <1>8, <1>9 DEF Forward, Exists
<1>11. Fits(objects[k], answer.object)
  BY <1>1, <1>7, <1>8, <1>9, <1>10 DEF Fits
<1>12. Suits(objects[k], answer.object)
  BY <1>1, <1>10 DEF Suits, Agrees
<1> QED BY <1>3, <1>10, <1>11, <1>12, CallEnsures DEF Ready

\* The roles.
LEMMA RolesEnsure == ASSUME Ready, createClusterRole \/ createRole PROVE Ensures
<1> DEFINE k == keyOf(pc)
           fresh == initRole(defaultRules)
           mutated == IF Exists(Seen(k)) THEN [Seen(k).content EXCEPT !.rules = defaultRules]
                      ELSE fresh
<1>1. pc \in {"ClusterRole", "Role"} /\ pc \in Own /\ pc \notin WatchedKinds
  BY StepIsOwn DEF createClusterRole, createRole, ControllerSteps, RBACSteps, WatchedKinds
<1>2. k \in Keys /\ k.kind = pc /\ Forced(pc) \in BOOLEAN
  BY <1>1, AtOwnKey DEF Ready, Forced
<1>3. CallForObject(k, CreateOrUpdate(objects[k], Seen(k), fresh, mutated, Forced(pc)))
  BY DEF createClusterRole, createRole, CreateOrUpdateObject
<1>4. ASSUME NEW content, content.owner = Nil, "owner" \in DOMAIN content,
             "rules" \in DOMAIN content, content.rules = defaultRules
      PROVE  Fitting(content)
  BY <1>1, <1>2, <1>4 DEF Fitting, Shaped, Agrees, Ready, Hypotheses, AbsenceIsNoRecord
<1>5. Fitting(fresh)
  BY <1>4 DEF initRole
<1>6. ASSUME Exists(objects[k]), Seen(k).content = objects[k].content PROVE Fitting(mutated)
  <2> DEFINE stored == objects[k].content
  <2>1. stored.owner = Nil /\ "owner" \in DOMAIN stored /\ "rules" \in DOMAIN stored
    BY <1>1, <1>2, <1>6, StoredIsShaped DEF Shaped
  <2>2. mutated = [stored EXCEPT !.rules = defaultRules]
    BY <1>6 DEF Exists
  <2> QED BY <1>4, <2>1, <2>2
<1> HIDE DEF fresh, mutated, Forced, k
<1> QED BY <1>1, <1>2, <1>3, <1>5, <1>6, OwnCallEnsures DEF Ready, Hypotheses, k

\* The bindings.
LEMMA BindingsEnsure ==
    ASSUME Ready, createClusterRoleBinding \/ createRoleBinding PROVE Ensures
<1> DEFINE k == keyOf(pc)
           subject == Subject(req, wanted)
<1>1. pc \in {"ClusterRoleBinding", "RoleBinding"} /\ pc \in Own /\ pc \notin WatchedKinds
  BY StepIsOwn
  DEF createClusterRoleBinding, createRoleBinding, ControllerSteps, RBACSteps, WatchedKinds
<1>2. k \in Keys /\ k.kind = pc /\ Forced(pc) \in BOOLEAN
  BY <1>1, AtOwnKey DEF Ready, Forced
<1>3. PICK roleRef :
         CallForObject(k, CreateOrUpdate(objects[k], Seen(k),
             WithSubject(NoBinding, roleRef, subject),
             IF Exists(Seen(k)) THEN WithSubject(Seen(k).content, roleRef, subject)
             ELSE WithSubject(NoBinding, roleRef, subject), Forced(pc)))
  BY DEF createClusterRoleBinding, createRoleBinding, CreateOrUpdateObject,
         updateClusterRoleBinding, updateRoleBinding
<1>4. ASSUME NEW stored, stored.owner = Nil, "owner" \in DOMAIN stored,
             "subjects" \in DOMAIN stored
      PROVE  Fitting(WithSubject(stored, roleRef, subject))
  <2> DEFINE content == WithSubject(stored, roleRef, subject)
  <2>1. /\ content.owner = Nil /\ "owner" \in DOMAIN content
        /\ "subjects" \in DOMAIN content /\ subject \in content.subjects
    BY <1>4 DEF WithSubject
  <2> HIDE DEF content
  <2>2. content # Nothing
    BY <2>1 DEF Ready, Hypotheses, AbsenceIsNoRecord
  <2>3. Shaped(k, req, content) /\ Agrees(content)
    BY <1>1, <1>2, <2>1 DEF Shaped, Agrees
  <2> QED BY <2>2, <2>3 DEF Fitting, content
<1>5. Fitting(WithSubject(NoBinding, roleRef, subject))
  BY <1>4 DEF NoBinding
<1>6. Exists(objects[k]) => Fitting(WithSubject(objects[k].content, roleRef, subject))
  <2> SUFFICES ASSUME Exists(objects[k])
               PROVE  Fitting(WithSubject(objects[k].content, roleRef, subject))
    OBVIOUS
  <2>1. /\ objects[k].content.owner = Nil /\ "owner" \in DOMAIN objects[k].content
        /\ "subjects" \in DOMAIN objects[k].content
    BY <1>1, <1>2, StoredIsShaped DEF Shaped
  <2> QED BY <1>4, <2>1
<1> HIDE DEF subject, Forced, k
<1>7. Exists(objects[k]) /\ Seen(k).content = objects[k].content =>
         Fitting(IF Exists(Seen(k)) THEN WithSubject(Seen(k).content, roleRef, subject)
                 ELSE WithSubject(NoBinding, roleRef, subject))
  BY <1>6 DEF Exists
<1> QED BY <1>1, <1>2, <1>3, <1>5, <1>7, OwnCallEnsures DEF Ready, Hypotheses, k

\* createConfigMap.
LEMMA ConfigMapEnsures == ASSUME Ready, createConfigMap PROVE Ensures
<1> DEFINE k == keyOf(pc)
           fresh == initGatewayConfigMap(req, wanted)
           mutated == IF Exists(Seen(k)) THEN [Seen(k).content EXCEPT !.mesh = fresh.mesh]
                      ELSE fresh
<1>1. pc = "ConfigMap" /\ pc \in Own /\ pc \notin WatchedKinds
  BY StepIsOwn DEF createConfigMap, ControllerSteps, WatchedKinds
<1>2. k \in Keys /\ k.kind = pc /\ Forced(pc) \in BOOLEAN
  BY <1>1, AtOwnKey DEF Ready, Forced
<1>3. CallForObject(k, CreateOrUpdate(objects[k], Seen(k), fresh, mutated, Forced(pc)))
  BY DEF createConfigMap, CreateOrUpdateObject
<1>4. ASSUME NEW content, content.owner = Nil, "owner" \in DOMAIN content,
             "mesh" \in DOMAIN content, content.mesh = fresh.mesh
      PROVE  Fitting(content)
  BY <1>1, <1>2, <1>4 DEF Fitting, Shaped, Agrees, Ready, Hypotheses, AbsenceIsNoRecord
<1>5. Fitting(fresh)
  BY <1>4 DEF initGatewayConfigMap
<1> HIDE DEF fresh
<1>6. ASSUME Exists(objects[k]), Seen(k).content = objects[k].content PROVE Fitting(mutated)
  <2> DEFINE stored == objects[k].content
  <2>1. stored.owner = Nil /\ "owner" \in DOMAIN stored /\ "mesh" \in DOMAIN stored
    BY <1>1, <1>2, <1>6, StoredIsShaped DEF Shaped
  <2>2. mutated = [stored EXCEPT !.mesh = fresh.mesh]
    BY <1>6 DEF Exists
  <2> QED BY <1>4, <2>1, <2>2
<1> HIDE DEF mutated, Forced, k
<1> QED BY <1>1, <1>2, <1>3, <1>5, <1>6, OwnCallEnsures DEF Ready, Hypotheses, k

\* createService.
LEMMA ServiceEnsures == ASSUME Ready, createService PROVE Ensures
<1> DEFINE k == keyOf(pc)
           fresh == initService(wanted, Owner(req, uid))
           mutated == IF Exists(Seen(k)) THEN updateServiceSpec(Seen(k).content, wanted)
                      ELSE fresh
<1>1. pc = "Service" /\ pc \in Own /\ pc \in WatchedKinds
  BY StepIsOwn DEF createService, ControllerSteps, WatchedKinds
<1>2. k \in Keys /\ k.kind = pc /\ req \in Controllers /\ Forced(pc) \in BOOLEAN
  BY <1>1, AtOwnKey DEF Ready, Forced
<1>3. CallForObject(k, CreateOrUpdate(objects[k], Seen(k), fresh, mutated, Forced(pc)))
  BY DEF createService, CreateOrUpdateObject
<1>4. ASSUME NEW content, content.owner # Nil, content.owner.controller = req,
             "owner" \in DOMAIN content
      PROVE  Fitting(content)
  BY <1>1, <1>2, <1>4 DEF Fitting, Shaped, Ready, Hypotheses, AbsenceIsNoRecord
<1>5. Fitting(fresh)
  <2>1. uid \in Nat
    BY <1>1, OwnUid DEF Ready
  <2>2. Owner(req, uid) # Nil /\ Owner(req, uid).controller = req
    BY <1>2, <2>1, OwnersAreSomebody DEF Ready
  <2>3. fresh.owner = Owner(req, uid) /\ "owner" \in DOMAIN fresh
    BY DEF initService, updateServiceSpec
  <2> HIDE DEF fresh
  <2> QED BY <1>4, <2>2, <2>3
<1> HIDE DEF fresh
<1>6. ASSUME Exists(objects[k]), Seen(k).content = objects[k].content PROVE Fitting(mutated)
  <2> DEFINE stored == objects[k].content
  <2>1. /\ stored.owner # Nil /\ stored.owner.controller = req
        /\ "owner" \in DOMAIN stored
    BY <1>1, <1>2, <1>6, StoredIsShaped DEF Shaped
  <2>2. mutated = updateServiceSpec(stored, wanted)
    BY <1>6 DEF Exists
  <2>3. /\ updateServiceSpec(stored, wanted).owner = stored.owner
        /\ "owner" \in DOMAIN updateServiceSpec(stored, wanted)
    BY <2>1 DEF updateServiceSpec
  <2> HIDE DEF mutated, stored
  <2> QED BY <1>4, <2>1, <2>2, <2>3
<1>7. ASSUME mutated = Seen(k).content PROVE Agrees(mutated)
  <2>1. CASE Exists(Seen(k))
    <3>1. updateServiceSpec(mutated, wanted) = mutated
      BY <1>7, <2>1
    <3> HIDE DEF mutated
    <3> QED BY <1>1, <3>1 DEF Agrees
  <2>2. CASE ~Exists(Seen(k))
    <3>1. fresh = Nothing
      BY <1>7, <2>2 DEF Exists
    <3> QED BY <1>5, <3>1 DEF Fitting
  <2> QED BY <2>1, <2>2
<1> HIDE DEF mutated, Forced, k
<1> QED BY <1>1, <1>2, <1>3, <1>5, <1>6, <1>7, OwnCallEnsures DEF Ready, Hypotheses, k

\* createIngressClass.
LEMMA IngressClassEnsures == ASSUME Ready, createIngressClass PROVE Ensures
<1> DEFINE k == keyOf(pc)
           fresh == initIngressclass(req, wanted, uid)
           answer == Create(objects[k], fresh)
<1>1. pc = "IngressClass" /\ pc \in Own /\ pc \notin WatchedKinds
  BY StepIsOwn DEF createIngressClass, ControllerSteps, WatchedKinds
<1>2. k \in Keys /\ k.kind = pc /\ k = KeyOf(pc, req, wanted)
  BY <1>1, AtOwnKey DEF Ready
<1>8. k.name = <<wanted.ingressClass>>
  <2>1. KeyOf("IngressClass", req, wanted) = Key("IngressClass", "", <<wanted.ingressClass>>)
    BY DEF KeyOf
  <2> HIDE DEF k
  <2>2. k = [kind |-> "IngressClass", ns |-> "", name |-> <<wanted.ingressClass>>]
    BY <1>1, <1>2, <2>1 DEF Key
  <2> QED BY <2>2
<1>3. Seen(k) = objects[k]
  BY <1>1, <1>2, SeenFollows DEF Ready, Hypotheses
<1>4. ~Fault
  BY <1>1 DEF Fault, Ready, Hypotheses, ReadsSucceed
<1>5. /\ \A content : Agrees(content)
      /\ Forward(objects[k], objects[k]) /\ Fits(objects[k], objects[k])
  BY <1>1 DEF Agrees, Forward, Fits
<1>6. CASE Exists(objects[k])
  <2>1. SendNothing(Continue(instance))
    BY <1>3, <1>6 DEF createIngressClass
  <2>2. Suits(objects[k], objects[k])
    BY <1>5, <1>6 DEF Suits
  <2> HIDE DEF k
  <2> QED BY <2>1, <2>2, SendNothingEnsures DEF k
<1>7. CASE ~Exists(objects[k])
  <2>1. CallForObject(k, answer)
    BY <1>3, <1>4, <1>7 DEF createIngressClass
  <2>2. answer.object = Written(objects[k], fresh)
    BY <1>7 DEF Create, Answer
  <2>3. /\ Written(objects[k], fresh).content = fresh
        /\ Forward(objects[k], Written(objects[k], fresh))
    BY <1>2, SeenFollows DEF Written, Forward, Ready
  <2>4. "owner" \in DOMAIN fresh /\ fresh.controller = wanted.ingressClass
    BY DEF initIngressclass
  <2>5. fresh # Nothing
    BY <2>4 DEF Ready, Hypotheses, AbsenceIsNoRecord
  <2> HIDE DEF answer, fresh
  <2>6. Exists(answer.object) /\ Forward(objects[k], answer.object)
    BY <2>2, <2>3, <2>5 DEF Exists
  <2>7. Shaped(k, req, fresh)
    BY <1>1, <1>2, <1>8, <2>4 DEF Shaped
  <2>8. Fits(objects[k], answer.object)
    BY <1>1, <1>7, <2>2, <2>3, <2>6, <2>7 DEF Fits
  <2>9. Suits(objects[k], answer.object)
    BY <1>5, <2>6 DEF Suits
  <2> HIDE DEF k
  <2> QED BY <2>1, <2>6, <2>8, <2>9, CallEnsures DEF Ready, k
<1> QED BY <1>6, <1>7

\* createDeployment, which may also panic.
LEMMA DeploymentEnsures ==
    ASSUME Ready, createDeployment PROVE Ensures \/ (Restart /\ UNCHANGED serverVars)
<1> DEFINE k == keyOf(pc)
           Mute(content) == updateDeploymentSpec(req, wanted, content)
           fresh == initDeployment(req, wanted, Owner(req, uid))
           mutated == IF Exists(Seen(k)) THEN Mute(Seen(k).content) ELSE fresh
           old == LookedUp(req, wanted)
           Stored(target) == IF Exists(Seen(target)) THEN Seen(target).content ELSE NoDeployment
           call == CallForObject(k, CreateOrUpdate(objects[k], Seen(k), fresh, mutated, Forced(pc)))
<1>1. pc = "Deployment" /\ pc \in Own /\ pc \in WatchedKinds
  BY StepIsOwn DEF createDeployment, ControllerSteps, WatchedKinds
<1>2. /\ k \in Keys /\ k.kind = pc /\ Forced(pc) \in BOOLEAN
      /\ req \in Controllers /\ wanted \in DefaultedSpecs(req) /\ k = KeyOf(pc, req, wanted)
  BY <1>1, AtOwnKey DEF Ready, Forced
<1>3. old \in Keys => old = k
  BY <1>1, <1>2 DEF Ready, Hypotheses, DeploymentIsItsOwn
<1>4. \/ Restart /\ UNCHANGED serverVars
      \/ /\ Exists(Seen(k)) /\ Mute(Seen(k).content) = Seen(k).content
         /\ SendNothing(Continue(instance))
      \/ SendNothing(Retry)
      \/ call
  <2> PICK found \in BOOLEAN :
         LET target == IF found THEN old ELSE k
             stored == Stored(target)
         IN  /\ found => old \in Keys /\ Exists(Seen(old))
             /\ \/ Restart /\ UNCHANGED serverVars
                \/ found /\ Mute(stored) = stored /\ SendNothing(Continue(instance))
                \/ SendNothing(Retry)
                \/ CreateOrUpdateObject(target, fresh, Mute)
    BY DEF createDeployment, If
  <2>1. CASE ~found
    BY <2>1 DEF CreateOrUpdateObject
  <2>2. CASE found
    <3>1. old = k /\ Exists(Seen(k))
      BY <1>3, <2>2
    <3> QED BY <2>2, <3>1 DEF CreateOrUpdateObject
  <2> QED BY <2>1, <2>2
<1>5. CASE SendNothing(Retry)
  BY <1>5, SendNothingEnsures
<1>6. CASE /\ Exists(Seen(k)) /\ Mute(Seen(k).content) = Seen(k).content
           /\ SendNothing(Continue(instance))
  <2>1. CASE objectCache[k].version # objects[k].version
    <3>1. Suits(objects[k], objects[k])
      BY <1>1, <2>1 DEF Suits
    <3> QED BY <1>6, <3>1, SendNothingEnsures
  <2>2. CASE objectCache[k].version = objects[k].version
    <3>1. Seen(k).content = objects[k].content
      BY <1>2, <2>2, SeenFollows DEF Ready
    <3>2. Agrees(objects[k].content)
      BY <1>1, <1>6, <3>1 DEF Agrees
    <3>3. Suits(objects[k], objects[k])
      BY <1>6, <3>1, <3>2 DEF Suits, Exists
    <3> QED BY <1>6, <3>3, SendNothingEnsures
  <2> QED BY <2>1, <2>2
<1>7. CASE call
  <2>1. ASSUME NEW content, content.owner # Nil, content.owner.controller = req,
               "owner" \in DOMAIN content
        PROVE  Fitting(content)
    BY <1>1, <1>2, <2>1 DEF Fitting, Shaped, Ready, Hypotheses, AbsenceIsNoRecord
  <2>2. \A content : "owner" \in DOMAIN content =>
            "owner" \in DOMAIN Mute(content) /\ Mute(content).owner = content.owner
    BY DEF updateDeploymentSpec
  <2>3. Fitting(fresh)
    <3>1. Owner(req, uid) # Nil /\ Owner(req, uid).controller = req
      BY <1>1, <1>2, OwnUid, OwnersAreSomebody DEF Ready
    <3>2. fresh.owner = Owner(req, uid) /\ "owner" \in DOMAIN fresh
      <4> DEFINE blank == [NoDeployment EXCEPT !.owner = Owner(req, uid)]
      <4>1. "owner" \in DOMAIN blank /\ blank.owner = Owner(req, uid)
        BY DEF NoDeployment
      <4>2. fresh = Mute(Mute(blank))
        BY DEF initDeployment
      <4> HIDE DEF blank, fresh, Mute
      <4> QED BY <2>2, <4>1, <4>2
    <3> HIDE DEF fresh
    <3> QED BY <2>1, <3>1, <3>2
  <2>4. ASSUME Exists(objects[k]), Seen(k).content = objects[k].content PROVE Fitting(mutated)
    <3> DEFINE stored == objects[k].content
    <3>1. /\ stored.owner # Nil /\ stored.owner.controller = req
          /\ "owner" \in DOMAIN stored
      BY <1>1, <1>2, <2>4, StoredIsShaped DEF Shaped
    <3>2. mutated = Mute(stored)
      BY <2>4 DEF Exists
    <3> HIDE DEF mutated, stored, Mute
    <3> QED BY <2>1, <2>2, <3>1, <3>2
  <2>5. ASSUME mutated = Seen(k).content PROVE Agrees(mutated)
    <3>1. CASE Exists(Seen(k))
      <4>1. updateDeploymentSpec(req, wanted, mutated) = mutated
        BY <2>5, <3>1
      <4> HIDE DEF mutated
      <4> QED BY <1>1, <4>1 DEF Agrees
    <3>2. CASE ~Exists(Seen(k))
      <4>1. fresh = Nothing
        BY <2>5, <3>2 DEF Exists
      <4> QED BY <2>3, <4>1 DEF Fitting
    <3> QED BY <3>1, <3>2
  <2>6. call
    BY <1>7
  <2> HIDE DEF mutated, fresh, Forced, k, Mute
  <2>7. CallForObject(k, CreateOrUpdate(objects[k], Seen(k), fresh, mutated, Forced(pc)))
    BY <2>6
  <2> QED BY <1>1, <1>2, <2>3, <2>4, <2>5, <2>7, OwnCallEnsures DEF Ready, Hypotheses, k
<1> QED BY <1>4, <1>5, <1>6, <1>7

\* A call for an object of the console: it does not matter what it does.
LEMMA OtherCallEnsures ==
    ASSUME Ready, pc \in ConsoleSteps, NEW answer,
           keyOf(pc) \in Keys => Forward(objects[keyOf(pc)], answer.object),
           CallForObject(keyOf(pc), answer)
    PROVE  Ensures
<1>1. pc \notin Own
  BY DEF Own, ControllerSteps, RBACSteps, ConsoleSteps
<1> QED BY <1>1, CallEnsures DEF Ready

\* The console's CreateOrUpdate.
LEMMA ConsoleUpdateEnsures ==
    ASSUME Ready, pc \in ConsoleSteps, NEW fresh, NEW mutated,
           CallForObject(keyOf(pc), CreateOrUpdate(objects[keyOf(pc)], Seen(keyOf(pc)),
                                                   fresh, mutated, Forced(pc)))
    PROVE  Ensures
<1> DEFINE k == keyOf(pc)
           answer == CreateOrUpdate(objects[k], Seen(k), fresh, mutated, Forced(pc))
<1>1. ASSUME k \in Keys PROVE Forward(objects[k], answer.object)
  <2>1. objects[k].version \in Nat /\ Follows(Seen(k), objects[k]) /\ Forced(pc) \in BOOLEAN
    BY <1>1, SeenFollows DEF Ready, Forced
  <2> HIDE DEF k, Forced
  <2> QED BY <2>1, CreateOrUpdateLeaves
<1>2. CallForObject(k, answer)
  OBVIOUS
<1> HIDE DEF answer
<1> QED BY <1>1, <1>2, OtherCallEnsures

\* The console's cluster scoped objects, which are only created.
LEMMA ConsoleCreateEnsures ==
    ASSUME Ready, pc \in ConsoleSteps, NEW fresh, CreateOnly(keyOf(pc), fresh) PROVE Ensures
<1> DEFINE k == keyOf(pc)
           answer == Create(objects[k], fresh)
<1>1. CASE SendNothing(Retry)
  BY <1>1, SendNothingEnsures
<1>2. CASE CallForObject(k, answer)
  <2>1. k \in Keys => objects[k].version \in Nat
    BY SeenFollows DEF Ready
  <2>2. k \in Keys => Forward(objects[k], answer.object)
    BY <2>1 DEF Create, Answer, Written, Forward
  <2> HIDE DEF answer
  <2> QED BY <1>2, <2>2, OtherCallEnsures
<1> QED BY <1>1, <1>2 DEF CreateOnly

\* The console's ServiceAccount.
LEMMA ConsoleAccountEnsures == ASSUME Ready, createConsoleServiceAccount PROVE Ensures
<1> DEFINE k == keyOf(pc)
           answer == CreateIfNotExists(objects[k], initConsoleServiceAccount)
<1>1. k \in Keys => objects[k].version \in Nat
  BY SeenFollows DEF Ready
<1>2. k \in Keys => Forward(objects[k], answer.object)
  BY <1>1 DEF CreateIfNotExists, Create, Answer, Written, Forward
<1>3. CallForObject(k, answer) /\ pc \in ConsoleSteps
  BY DEF createConsoleServiceAccount, ConsoleSteps
<1> HIDE DEF answer
<1> QED BY <1>2, <1>3, OtherCallEnsures

\* Every step of the console.
LEMMA ConsoleEnsures == ASSUME Ready, Console PROVE Ensures
<1>1. CASE createConsoleClusterRole
  <2>1. pc \in ConsoleSteps
    BY <1>1 DEF createConsoleClusterRole, ConsoleSteps
  <2> QED BY <1>1, <2>1, ConsoleCreateEnsures DEF createConsoleClusterRole
<1>2. CASE createConsoleClusterRoleBinding
  <2>1. pc \in ConsoleSteps
    BY <1>2 DEF createConsoleClusterRoleBinding, ConsoleSteps
  <2> QED BY <1>2, <2>1, ConsoleCreateEnsures DEF createConsoleClusterRoleBinding
<1>3. CASE createConsoleRole \/ createConsoleRoleBinding \/ createConsoleConfigMap
           \/ createConsoleDeployment \/ createConsoleService
  <2>1. pc \in ConsoleSteps
    BY <1>3 DEF createConsoleRole, createConsoleRoleBinding, createConsoleConfigMap,
                createConsoleDeployment, createConsoleService, ConsoleSteps
  <2>2. \E fresh, mutated : CallForObject(keyOf(pc),
            CreateOrUpdate(objects[keyOf(pc)], Seen(keyOf(pc)), fresh, mutated, Forced(pc)))
    <3>1. CASE createConsoleRole
      BY <3>1 DEF createConsoleRole, CreateOrUpdateObject
    <3>2. CASE createConsoleRoleBinding
      BY <3>2 DEF createConsoleRoleBinding, CreateOrUpdateObject
    <3>3. CASE createConsoleConfigMap
      BY <3>3 DEF createConsoleConfigMap, CreateOrUpdateObject
    <3>4. CASE createConsoleDeployment
      BY <3>4 DEF createConsoleDeployment, CreateOrUpdateObject
    <3>5. CASE createConsoleService
      BY <3>5 DEF createConsoleService, CreateOrUpdateObject
    <3> QED BY <1>3, <3>1, <3>2, <3>3, <3>4, <3>5
  <2> QED BY <2>1, <2>2, ConsoleUpdateEnsures
<1>4. CASE createConsoleServiceAccount
  BY <1>4, ConsoleAccountEnsures
<1> QED BY <1>1, <1>2, <1>3, <1>4 DEF Console

\* The steps that keep an object.
Keeping ==
    \/ createCRDs \/ createServiceAccount
    \/ createClusterRole \/ createClusterRoleBinding \/ createRole \/ createRoleBinding
    \/ createConfigMap \/ createDeployment \/ createIngressClass \/ createService
    \/ Console

\* Every one of them does what it is for.
LEMMA StepEnsures ==
    ASSUME Ready, Keeping PROVE Ensures \/ (Restart /\ UNCHANGED serverVars)
BY CRDEnsures, ServiceAccountEnsures, RolesEnsure, BindingsEnsure, ConfigMapEnsures,
   DeploymentEnsures, IngressClassEnsures, ServiceEnsures, ConsoleEnsures DEF Keeping

-----------------------------------------------------------------------------
\* The books of the informers, and the shapes of the objects.

\* What anybody may make of an object: one of its shape, or none if there was one.
Proper(k, object) ==
    \A d \in Controllers : BelongsTo(k, d) =>
        \/ object = objects[k]
        \/ Exists(object) /\ Shaped(k, d, object.content)
        \/ ~Exists(object) /\ Exists(objects[k])

\* A write of one object, as the server and the informers see it.
Moves(k, object) ==
    /\ Lands(k, object)
    /\ k \in Keys => Forward(objects[k], object) /\ Proper(k, object)

\* The events of a write of a watched object are for those it belongs to.
LEMMA OwnersAreTold ==
    ASSUME NEW k, NEW d, NEW object, k.kind \in WatchedKinds, Exists(object),
           Shaped(k, d, object.content)
    PROVE  d \in OwnersOf(k, object)
BY DEF Shaped, OwnersOf

\* A write keeps the books.
LEMMA MoveKeepsTidy ==
    ASSUME Guarded, Tidy, NEW k, NEW object, Moves(k, object), UNCHANGED objectCache
    PROVE  Tidy'
<1>1. \A l \in Keys : l # k => objects'[l] = objects[l] /\ pending'[l] = pending[l]
  BY DEF Moves, Lands
<1>2. ASSUME k \in Keys
      PROVE  /\ objects'[k] = object
             /\ object # objects[k] => objectCache[k].version < object.version
             /\ pending'[k] = IF object # objects[k]
                              THEN pending[k] \cup OwnersOf(k, objects[k]) \cup OwnersOf(k, object)
                              ELSE pending[k]
  <2>1. /\ objectCache[k].version \in Nat /\ objects[k].version \in Nat
        /\ objectCache[k].version <= objects[k].version
    BY <1>2 DEF Guarded, Typed, Follows
  <2>2. object # objects[k] => objects[k].version < object.version /\ object.version \in Nat
    BY <1>2 DEF Moves, Forward
  <2> QED BY <1>2, <2>1, <2>2 DEF Moves, Lands
<1>3. EventsAreDue'
  <2> SUFFICES ASSUME NEW l \in Keys, pending'[l] # {}
               PROVE  l.kind \in WatchedKinds /\ objectCache[l].version < objects'[l].version
    BY DEF EventsAreDue
  <2>1. CASE l # k \/ object = objects[k]
    BY <1>1, <1>2, <2>1 DEF Tidy, EventsAreDue
  <2>2. CASE l = k /\ object # objects[k]
    <3>1. objectCache[l].version < objects'[l].version
      BY <1>2, <2>2
    <3>2. l.kind \in WatchedKinds \/ pending[l] # {}
      BY <1>2, <2>2 DEF OwnersOf
    <3> QED BY <3>1, <3>2 DEF Tidy, EventsAreDue
  <2> QED BY <2>1, <2>2
<1>4. LagIsDue'
  <2> SUFFICES ASSUME NEW l \in Keys, NEW d \in Controllers, BelongsTo(l, d),
                      l.kind \in WatchedKinds
               PROVE  objectCache[l].version = objects'[l].version \/ d \in pending'[l]
    BY DEF LagIsDue
  <2>1. CASE l # k \/ object = objects[k]
    BY <1>1, <1>2, <2>1 DEF Tidy, LagIsDue
  <2>2. CASE l = k /\ object # objects[k]
    <3>1. \/ Exists(object) /\ Shaped(k, d, object.content)
          \/ Exists(objects[k]) /\ Shaped(k, d, objects[k].content)
      BY <2>2 DEF Moves, Proper, Tidy, ShapesAreRight
    <3>2. d \in OwnersOf(k, object) \cup OwnersOf(k, objects[k])
      BY <2>2, <3>1, OwnersAreTold
    <3> QED BY <1>2, <2>2, <3>2
  <2> QED BY <2>1, <2>2
<1>5. ShapesAreRight'
  <2> SUFFICES ASSUME NEW l \in Keys, NEW d \in Controllers, Exists(objects'[l]), BelongsTo(l, d)
               PROVE  Shaped(l, d, objects'[l].content)
    BY DEF ShapesAreRight, Exists
  <2>1. CASE objects'[l] = objects[l]
    BY <2>1 DEF Tidy, ShapesAreRight
  <2>2. CASE l = k /\ object # objects[k]
    BY <1>2, <2>2 DEF Moves, Proper
  <2> QED BY <1>1, <1>2, <2>1, <2>2
<1> QED BY <1>3, <1>4, <1>5 DEF Tidy

\* So does a step that writes no object and delivers none.
LEMMA StillKeepsTidy ==
    ASSUME Tidy, UNCHANGED <<objects, objectCache, pending>> PROVE Tidy'
BY DEF Tidy, EventsAreDue, LagIsDue, ShapesAreRight, Exists

\* A delivery keeps the books, and so does a process that lists everything.
LEMMA DeliveryKeepsTidy ==
    ASSUME Guarded, Accounted, Tidy, (\E k \in Keys : DeliverObject(k)) \/ Stops \/ Crash
    PROVE  Tidy'
<1>1. DOMAIN pending = Keys /\ DOMAIN objectCache = Keys
  BY DEF Accounted, Bookkeeping, Guarded, Typed
<1>2. ShapesAreRight'
  BY DEF Tidy, ShapesAreRight, Exists, DeliverObject, Stops, Crash, serverVars
<1>3. ASSUME NEW k \in Keys, DeliverObject(k) PROVE EventsAreDue' /\ LagIsDue'
  <2>1. /\ \A l \in Keys : /\ objectCache'[l] = IF l = k THEN objects[k] ELSE objectCache[l]
                           /\ pending'[l] = IF l = k THEN {} ELSE pending[l]
        /\ UNCHANGED objects
    BY <1>1, <1>3 DEF DeliverObject, serverVars
  <2> QED BY <2>1 DEF Tidy, EventsAreDue, LagIsDue
<1>4. ASSUME Restart, UNCHANGED serverVars PROVE EventsAreDue' /\ LagIsDue'
  BY <1>4 DEF Restart, serverVars, EventsAreDue, LagIsDue, Followed
<1>5. (Stops \/ Crash) => Restart /\ UNCHANGED serverVars
  BY DEF Stops, Crash, serverVars
<1> QED BY <1>2, <1>3, <1>4, <1>5 DEF Tidy

-----------------------------------------------------------------------------
\* What is right stays right.

\* What a step leaves of the object of somebody else: the object itself with its
\* events, an event, or one that is as right as the one before.
Spares(step, d) ==
    LET l == KeyFor(step, d)
    IN  \/ objects'[l] = objects[l] /\ (d \in pending[l] => d \in pending'[l])
        \/ step \in WatchedKinds /\ d \in pending'[l]
        \/ /\ step \in {"CRD", "ClusterRole", "Role", "IngressClass"}
           /\ Exists(objects'[l]) /\ Shaped(l, d, objects'[l].content)
           /\ step \in {"ClusterRole", "Role"} => objects'[l].content.rules = defaultRules

\* An IngressClass bears the name that is in its spec.
LEMMA ClassNames ==
    ASSUME NEW c, NEW s PROVE KeyOf("IngressClass", c, s).name = <<s.ingressClass>>
<1> DEFINE k == KeyOf("IngressClass", c, s)
           name == <<s.ingressClass>>
<1>1. k = Key("IngressClass", "", name)
  BY DEF KeyOf
<1> HIDE DEF k, name
<1>2. k = [kind |-> "IngressClass", ns |-> "", name |-> name]
  BY <1>1 DEF Key
<1>3. k.name = name
  BY <1>2
<1> QED BY <1>3 DEF k, name

\* An object that is right and spared is right.
LEMMA SparedIsKept ==
    ASSUME Typed, ShapesAreRight, NEW d \in Controllers, Exists(controllers[d]),
           controllers'[d] = controllers[d],
           NEW step \in Own, Kept(step, d), Spares(step, d)
    PROVE  Kept(step, d)'
<1> DEFINE l == KeyFor(step, d)
           spec == StoredSpec(d)
<1>1. /\ l \in Keys /\ l.kind = step /\ BelongsTo(l, d)
      /\ l = KeyOf(step, d, spec)
  BY HomeFacts DEF KeyFor
<1>2. /\ StoredSpec(d)' = spec /\ KeyFor(step, d)' = l
      /\ Asked(step, d)' <=> Asked(step, d)
  BY DEF StoredSpec, KeyFor, Asked
<1>3. \A content : Describes(step, d, content)' <=> Describes(step, d, content)
  BY <1>2 DEF Describes
<1> SUFFICES ASSUME Asked(step, d)
             PROVE  \/ Exists(objects'[l]) /\ Describes(step, d, objects'[l].content)
                    \/ step \in WatchedKinds /\ (d \in pending'[l] \/ Garbage(l)')
  BY <1>1, <1>2, <1>3 DEF Kept, UpToDate, Disturbed, Exists
<1>4. CASE objects'[l] = objects[l] /\ (d \in pending[l] => d \in pending'[l])
  <2>1. CASE UpToDate(step, d)
    BY <1>4, <2>1 DEF UpToDate
  <2>2. CASE step \in WatchedKinds /\ d \in pending[l]
    BY <1>4, <2>2
  <2>3. CASE step \in WatchedKinds /\ Garbage(l)
    <3>1. Exists(objects[l]) /\ objects[l].content.owner.controller = d
      BY <1>1, <2>3 DEF Garbage, ShapesAreRight, Shaped
    <3>3. \A content : content.owner.controller = d =>
              (OwnerLives(content)' <=> OwnerLives(content))
      BY DEF OwnerLives, Exists
    <3>2. Garbage(l)'
      BY <1>2, <1>4, <2>3, <3>1, <3>3 DEF Garbage, Exists
    <3> QED BY <2>3, <3>2
  <2> QED BY <1>1, <2>1, <2>2, <2>3 DEF Kept, Disturbed
<1>5. CASE step \in WatchedKinds /\ d \in pending'[l]
  BY <1>5
<1>6. CASE /\ step \in {"CRD", "ClusterRole", "Role", "IngressClass"}
           /\ Exists(objects'[l]) /\ Shaped(l, d, objects'[l].content)
           /\ step \in {"ClusterRole", "Role"} => objects'[l].content.rules = defaultRules
  <2> DEFINE content == objects'[l].content
  <2>1. step = "CRD" => Describes(step, d, content)
    BY <1>1, <1>6 DEF Describes, Shaped
  <2>2. step \in {"ClusterRole", "Role"} => Describes(step, d, content)
    BY <1>6 DEF Describes
  <2>3. step = "IngressClass" => Describes(step, d, content)
    <3>1. step = "IngressClass" => l.name = <<spec.ingressClass>> /\ l.name = <<content.controller>>
      BY <1>1, <1>6, ClassNames DEF Shaped
    <3> QED BY <3>1 DEF Describes
  <2> QED BY <1>6, <2>1, <2>2, <2>3
<1> QED BY <1>4, <1>5, <1>6 DEF Spares

\* Who is served is served after a step that spares all objects.
LEMMA SparedStayServed ==
    ASSUME Typed, ShapesAreRight, NEW d \in Controllers, Served(d),
           controllers'[d] = controllers[d], controllerCache'[d] = controllerCache[d],
           d \in queue => d \in queue', terminating \subseteq terminating',
           Working(d)' => Working(d) /\ UNCHANGED workerVars,
           Working(d) => Working(d)',
           Exists(controllers[d]) /\ d.ns \notin terminating' =>
               \A step \in Own : Spares(step, d)
    PROVE  Served(d)'
<1> SUFFICES ASSUME Exists(controllers[d]) PROVE Served(d)'
  BY DEF Served, Exists
<1>1. CASE Attended(d)
  BY <1>1 DEF Attended, Served
<1>2. ASSUME d.ns \notin terminating', NEW step \in Own, Kept(step, d) PROVE Kept(step, d)'
  BY <1>2, SparedIsKept
<1>3. CASE Passing(d) /\ Progressed(d)
  <2>1. UNCHANGED workerVars /\ Passing(d)'
    BY <1>3 DEF Passing, Working, workerVars
  <2>2. Progressed(d)'
    BY <1>2, <1>3, <2>1 DEF Progressed, workerVars
  <2> QED BY <2>1, <2>2 DEF Served
<1>4. CASE ~Working(d) /\ Done(d)
  <2>1. Live(d)'
    BY <1>4 DEF Done, Live, Exists
  <2>2. Done(d)'
    BY <1>2, <1>4, <2>1 DEF Done
  <2> QED BY <1>4, <2>2 DEF Served
<1> QED BY <1>1, <1>3, <1>4 DEF Served

-----------------------------------------------------------------------------
\* What a pass has seen to is right.

\* The instance of a pass that is not outdated is the stored resource.
LEMMA PassingFacts ==
    ASSUME Guarded, NEW c \in Controllers, Passing(c)
    PROVE  /\ c = req /\ pc # "idle" /\ Exists(controllers[c])
           /\ StoredSpec(c) = wanted
           /\ controllers[c].content.uid = uid
           /\ controllers[c].content.deleting = instance.content.deleting
           /\ controllers[c].content.finalizer = instance.content.finalizer
           /\ wanted \in DefaultedSpecs(c)
           /\ \A step \in Own : KeyFor(step, c) = keyOf(step)
<1>1. c = req /\ pc # "idle" /\ instance.version = controllers[req].version
  BY DEF Passing, Working
<1>2. wanted \in DefaultedSpecs(c)
  BY <1>1, WorkerFacts DEF Guarded
<1>3. StoredSpec(c) = wanted
  BY <1>1 DEF Guarded, InstanceFollows
<1> QED BY <1>1, <1>2, <1>3 DEF Guarded, InstanceFollows, uid, KeyFor, keyOf

\* The mesh configuration that createConfigMap writes is the one with the
\* discovery address filled in.
LEMMA FilledMesh ==
    ASSUME NEW c, NEW s
    PROVE  LET filled == updateGatewayConfigMapSpec(c, s).spec
           IN  initGatewayConfigMap(c, s).mesh = <<filled.discoveryAddress, filled.config>>
<1> DEFINE filled == updateGatewayConfigMapSpec(c, s).spec
<1>1. initGatewayConfigMap(c, s).mesh = updateGatewayConfigMapSpec(c, filled).mesh
  BY DEF initGatewayConfigMap
<1> HIDE DEF filled
<1>2. updateGatewayConfigMapSpec(c, filled).mesh = <<filled.discoveryAddress, filled.config>>
  BY DEF updateGatewayConfigMapSpec
<1> QED BY <1>1, <1>2 DEF filled

\* The namespaces have names.
LEMMA NamespacesAreNamed == ASSUME NEW c \in Controllers PROVE c.ns # ""
<1> DEFINE T == Text \ {""}
<1>1. c \in [ns : T, name : T]
  BY ControllersAssumption
<1>2. "" \notin T
  OBVIOUS
<1> HIDE DEF T
<1> QED BY <1>1, <1>2

\* A record with the owner it has is the same record.
LEMMA SameField ==
    ASSUME NEW f, f = [x \in DOMAIN f |-> f[x]], NEW owner, f.owner = owner
    PROVE  [f EXCEPT !.owner = owner] = f
OBVIOUS

\* A watched object is in the namespace of its HigressController.
LEMMA WatchedAreInside ==
    ASSUME NEW c, NEW s, NEW step \in WatchedKinds PROVE KeyOf(step, c, s).ns = c.ns
<1>1. \E name : KeyOf(step, c, s) = Key(step, c.ns, name)
  BY DEF WatchedKinds, KeyOf
<1> QED BY <1>1 DEF Key

\* A watched object of a stored HigressController has its uid, or is garbage.
LEMMA OwnedOrGarbage ==
    ASSUME OwnersAreKnown', ShapesAreRight', UNCHANGED controllers,
           NEW c \in Controllers, NEW k \in Keys,
           BelongsTo(k, c), k.kind \in WatchedKinds, k.ns # "", Exists(objects'[k])
    PROVE  \/ objects'[k].content.owner = Owner(c, controllers[c].content.uid)
           \/ Garbage(k)'
<1> DEFINE content == objects'[k].content
           owner == content.owner
<1>1. owner # Nil /\ owner.controller = c /\ owner \in {Nil} \cup Incarnations'
  BY DEF ShapesAreRight, Shaped, OwnersAreKnown, Exists
<1>2. \E d \in Controllers : \E u \in 1 .. controllers'[d].version : owner = Owner(d, u)
  BY <1>1 DEF Incarnations
<1>3. PICK d \in Controllers : \E u \in 1 .. controllers'[d].version : owner = Owner(d, u)
  BY <1>2
<1>4. PICK u \in 1 .. controllers'[d].version : owner = Owner(d, u)
  BY <1>3
<1>5. d = c /\ owner.uid = u
  <2> HIDE DEF owner
  <2> QED BY <1>1, <1>4 DEF Owner
<1>6. CASE u = controllers[c].content.uid
  BY <1>4, <1>5, <1>6
<1>7. CASE u # controllers[c].content.uid
  BY <1>1, <1>5, <1>7 DEF Garbage, OwnerLives, Exists
<1> QED BY <1>6, <1>7

\* A step that goes on leaves its object right, or an event for it.
LEMMA EnsuredIsKept ==
    ASSUME Ready, Accounted', LagIsDue', ShapesAreRight', UNCHANGED <<controllers, objectCache>>,
           NEW c \in Controllers, NEW step \in Own, step = pc, Passing(c),
           NEW k \in Keys, k = keyOf(pc), NEW object, objects'[k] = object,
           Forward(objects[k], object), Suits(objects[k], object)
    PROVE  Kept(step, c)'
<1> DEFINE spec == StoredSpec(c)
<1>1. /\ c = req /\ Exists(controllers[c]) /\ spec = wanted
      /\ KeyFor(step, c) = k /\ k = KeyOf(step, c, spec)
  BY PassingFacts DEF Ready, keyOf
<1>2. /\ StoredSpec(c)' = spec /\ KeyFor(step, c)' = k
      /\ controllers'[c].content.uid = controllers[c].content.uid
  BY <1>1 DEF StoredSpec, KeyFor
<1>3. k.kind = step /\ BelongsTo(k, c)
  BY <1>1, AtOwnKey DEF Ready
<1>4. CASE /\ step \in WatchedKinds
           /\ object # objects[k] \/ objectCache[k].version # objects[k].version
  <2>1. objectCache[k].version < object.version
    <3>1. /\ objectCache[k].version \in Nat /\ objects[k].version \in Nat
          /\ objectCache[k].version <= objects[k].version
      BY DEF Ready, Guarded, Typed, Follows
    <3> QED BY <1>4, <3>1 DEF Forward
  <2>2. objectCache'[k].version # objects'[k].version
    <3>1. objectCache[k].version \in Nat
      BY DEF Ready, Guarded, Typed
    <3> QED BY <2>1, <3>1
  <2>3. c \in pending'[k]
    BY <1>3, <1>4, <2>2 DEF LagIsDue
  <2> QED BY <1>2, <1>3, <1>4, <2>3 DEF Kept, Disturbed
<1>5. CASE Exists(object) /\ Agrees(object.content)
  <2> DEFINE content == object.content
             owner == Owner(c, controllers[c].content.uid)
  <2>1. Shaped(k, c, content)
    BY <1>3, <1>5 DEF ShapesAreRight, Exists
  <2>2. CASE step \notin WatchedKinds
    <3> SUFFICES Describes(step, c, content)'
      BY <1>2, <1>5 DEF Kept, UpToDate, Exists
    <3>1. CASE step = "CRD"
      BY <1>3, <2>1, <3>1 DEF Describes, Shaped
    <3>2. CASE step \in {"ClusterRole", "Role"}
      BY <1>5, <3>2 DEF Describes, Agrees
    <3>3. CASE step \in {"ClusterRoleBinding", "RoleBinding"}
      <4>1. Subject(c, spec) \in content.subjects
        BY <1>1, <1>5, <3>3 DEF Agrees
      <4> QED BY <1>2, <3>3, <4>1 DEF Describes
    <3>4. CASE step = "ConfigMap"
      <4> DEFINE filled == updateGatewayConfigMapSpec(c, spec).spec
      <4>1. content.mesh = <<filled.discoveryAddress, filled.config>>
        BY <1>1, <1>5, <3>4, FilledMesh DEF Agrees
      <4> QED BY <1>2, <3>4, <4>1 DEF Describes
    <3>5. CASE step = "IngressClass"
      <4>1. <<content.controller>> = <<spec.ingressClass>>
        BY <1>1, <1>3, <2>1, <3>5, ClassNames DEF Shaped
      <4>2. content.controller = spec.ingressClass
        BY <4>1
      <4> QED BY <1>2, <3>5, <4>2 DEF Describes
    <3> QED BY <2>2, <3>1, <3>2, <3>3, <3>4, <3>5 DEF Own, ControllerSteps, RBACSteps, WatchedKinds
  <2>3. CASE step \in WatchedKinds
    <3>1. k.ns # ""
      <4>1. k.ns = c.ns
        BY <1>1, <2>3, WatchedAreInside
      <4> QED BY <4>1, NamespacesAreNamed
    <3>2. content.owner = owner \/ Garbage(k)'
      BY <1>3, <1>5, <2>3, <3>1, OwnedOrGarbage DEF Accounted, Exists
    <3>3. CASE Garbage(k)'
      BY <1>2, <1>3, <2>3, <3>3 DEF Kept, Disturbed
    <3>4. CASE content.owner = owner
      <4> SUFFICES Describes(step, c, content)'
        BY <1>2, <1>5 DEF Kept, UpToDate, Exists
      <4>1. CASE step = "ServiceAccount"
        BY <1>2, <3>4, <4>1 DEF Describes
      <4>2. CASE step = "Deployment"
        <5>1. updateDeploymentSpec(c, spec, content) = content
          BY <1>1, <1>5, <4>2 DEF Agrees
        <5>2. [content EXCEPT !.owner = owner] = content
          <6>1. content = [x \in DOMAIN content |-> content[x]]
            <7> HIDE DEF content
            <7> QED BY <5>1 DEF updateDeploymentSpec
          <6> QED BY <3>4, <6>1, SameField
        <5> QED BY <1>2, <4>2, <5>1, <5>2 DEF Describes
      <4>3. CASE step = "Service"
        <5>1. updateServiceSpec(content, spec) = content
          BY <1>1, <1>5, <4>3 DEF Agrees
        <5>2. [content EXCEPT !.owner = owner] = content
          <6>1. content = [x \in DOMAIN content |-> content[x]]
            <7> HIDE DEF content
            <7> QED BY <5>1 DEF updateServiceSpec
          <6> QED BY <3>4, <6>1, SameField
        <5> QED BY <1>2, <4>3, <5>1, <5>2 DEF Describes
      <4> QED BY <2>3, <4>1, <4>2, <4>3 DEF WatchedKinds
    <3> QED BY <3>2, <3>3, <3>4
  <2> QED BY <2>2, <2>3
<1> QED BY <1>4, <1>5 DEF Suits

-----------------------------------------------------------------------------
\* A pass goes on.

\* What a spec does not ask for is skipped, and nothing else.
LEMMA SkippedIsNotAsked ==
    ASSUME NEW c \in Controllers, StoredSpec(c)' = wanted, NEW step \in Own, ~Applies(step)
    PROVE  ~Asked(step, c)'
BY DEF Applies, Asked, Own, ControllerSteps, RBACSteps, ConsoleSteps

\* The step that a pass goes on to applies.
LEMMA ContinueApplies ==
    ASSUME NEW copy, Continue(copy), copy.content.spec = wanted PROVE StepApplies'
<1>1. CASE Later(pc) = {}
  <2>1. pc' = "idle" /\ pc' \notin EnsureSteps
    BY <1>1, StepsDiffer DEF Continue, Finish, Idle
  <2> QED BY <2>1 DEF StepApplies
<1>2. CASE Later(pc) # {}
  <2>1. PICK i \in Later(pc) : GoTo(Pass[i])
    BY <1>2 DEF Continue
  <2>2. instance' = copy /\ pc' = Pass[i] /\ Applies(Pass[i])
    BY <1>2, <2>1 DEF Continue, GoTo, Later
  <2>3. wanted' = wanted
    BY <2>2 DEF wanted
  <2> QED BY <2>2, <2>3 DEF StepApplies, Applies
<1> QED BY <1>1, <1>2

\* A pass that has seen to all steps up to this one has, when it goes on, seen to
\* all steps up to the next one.
LEMMA ContinueServes ==
    ASSUME pc \in Steps, NEW c \in Controllers, c = req, NEW copy, Continue(copy),
           copy.version = controllers'[c].version,
           Live(c)', StoredSpec(c)' = wanted,
           c.ns \notin terminating' =>
               /\ \A step \in Own : Position(step) <= Position(pc) => Kept(step, c)'
               /\ Position("Status") <= Position(pc) => controllers'[c].content.deployed
    PROVE  Served(c)'
<1> DEFINE p == Position(pc)
           kept == \A step \in Own : p < Position(step) => Position(step) \in Later(pc)
                                                           \/ Kept(step, c)'
<1>1. p \in Nat /\ \A step \in EnsureSteps : Position(step) \in Nat
  BY Positions, PassIs
<1>2. kept
  <2> SUFFICES ASSUME NEW step \in Own, p < Position(step), Position(step) \notin Later(pc)
               PROVE  Kept(step, c)'
    OBVIOUS
  <2>1. ~Applies(step)
    BY Positions DEF Later
  <2> QED BY <2>1, SkippedIsNotAsked DEF Kept
<1>3. p < Position("Status") => Position("Status") \in Later(pc)
  <2>1. Applies("Status")
    BY DEF Applies, RBACSteps, ConsoleSteps
  <2> QED BY <2>1, Positions DEF Later
<1> HIDE DEF kept
<1>4. CASE Later(pc) = {}
  <2>1. pc' = "idle" /\ ~Working(c)'
    BY <1>4 DEF Continue, Finish, Idle, Working
  <2>2. ASSUME c.ns \notin terminating'
        PROVE  controllers'[c].content.deployed /\ \A step \in Own : Kept(step, c)'
    <3>1. controllers'[c].content.deployed
      BY <1>1, <1>3, <1>4, <2>2, Positions
    <3>2. ASSUME NEW step \in Own PROVE Kept(step, c)'
      BY <1>1, <1>2, <1>4, <2>2, <3>2, Positions DEF kept
    <3> QED BY <3>1, <3>2
  <2>3. Done(c)'
    BY <2>2 DEF Done
  <2> QED BY <2>1, <2>3 DEF Served
<1>5. CASE Later(pc) # {}
  <2>1. PICK i \in Later(pc) : (\A j \in Later(pc) : i <= j) /\ GoTo(Pass[i])
    BY <1>5 DEF Continue
  <2>2. pc' = Pass[i] /\ req' = req /\ instance' = copy /\ i \in DOMAIN Pass
    BY <1>5, <2>1 DEF Continue, GoTo, Later
  <2>3. Position(Pass[i]) = i /\ i \in Nat /\ pc' # "idle"
    BY <2>2, Positions, PassIs, StepsDiffer DEF EnsureSteps
  <2>4. Passing(c)'
    BY <2>2, <2>3 DEF Passing, Working
  <2>5. ASSUME c.ns \notin terminating'
        PROVE  /\ \A step \in Own : Position(step) < i => Kept(step, c)'
               /\ Position("Status") < i => controllers'[c].content.deployed
    <3>1. ASSUME NEW step \in Own, Position(step) < i PROVE Kept(step, c)'
      <4>1. Position(step) \in Nat
        BY <1>1, Positions
      <4>2. p < Position(step) => Position(step) \notin Later(pc)
        BY <2>1, <2>3, <3>1, <4>1
      <4> QED BY <1>1, <1>2, <2>5, <4>1, <4>2 DEF kept
    <3>2. Position("Status") < i => controllers'[c].content.deployed
      <4>1. Position("Status") \in Nat
        BY <1>1, Positions
      <4> QED BY <1>1, <1>3, <2>1, <2>3, <2>5, <4>1
    <3> QED BY <3>1, <3>2
  <2>6. Progressed(c)'
    BY <2>2, <2>3, <2>5 DEF Progressed
  <2> QED BY <2>4, <2>6 DEF Served
<1> QED BY <1>4, <1>5

-----------------------------------------------------------------------------
\* The steps that keep an object.

\* What is left to show of a step, beside what is known of it already.
Rest ==
    /\ DeletionIsGuarded
    /\ StepApplies
    /\ StatusFollows
    /\ Tidy
    /\ \A c \in Controllers : Served(c)

\* A step that keeps an object is one of the pass, and not the status.
LEMMA KeepingIsStep ==
    ASSUME Guarded, Keeping
    PROVE  /\ pc \in EnsureSteps /\ pc # "idle" /\ pc # "Status"
           /\ pc \in ControllerSteps \cup ConsoleSteps
<1>1. pc \in ControllerSteps \cup ConsoleSteps
  BY DEF Keeping, Console, createCRDs, createServiceAccount, createClusterRole,
         createClusterRoleBinding, createRole, createRoleBinding, createConfigMap,
         createDeployment, createIngressClass, createService, createConsoleClusterRole,
         createConsoleClusterRoleBinding, createConsoleRole, createConsoleRoleBinding,
         createConsoleServiceAccount, createConsoleConfigMap, createConsoleDeployment,
         createConsoleService, ControllerSteps, RBACSteps, ConsoleSteps
<1>2. pc # "idle" /\ pc # "Status"
  BY <1>1 DEF ControllerSteps, RBACSteps, ConsoleSteps
<1> QED BY <1>1, <1>2, AtStep DEF Guarded

\* No object of a console is one that a HigressController keeps for itself.
LEMMA ConsoleWritesApart ==
    ASSUME Ready, pc \in EnsureSteps, pc \in ConsoleSteps, NEW d \in Controllers
    PROVE  ~BelongsTo(keyOf(pc), d)
<1>1. pc \in Tracked /\ HasConsole(wanted)
  BY DEF Ready, StepApplies, Applies, RBACSteps, ConsoleSteps
<1>2. req \in Controllers /\ wanted \in DefaultedSpecs(req)
  <2>1. pc # "idle"
    BY StepsDiffer
  <2> QED BY <2>1, WorkerFacts DEF Ready, Guarded
<1>3. SUFFICES ASSUME NEW s \in DefaultedSpecs(d), NEW step \in Own,
                      KeyOf(pc, req, wanted) = KeyOf(step, d, s)
               PROVE  FALSE
  BY DEF BelongsTo, keyOf
<1>4. ConsoleIsApart
  BY DEF Ready, Hypotheses
<1> QED BY <1>1, <1>2, <1>3, <1>4 DEF ConsoleIsApart, Own

\* The kind of an object is the step that keeps it.
LEMMA SameKeySameStep ==
    ASSUME Ready, pc \in EnsureSteps, pc \in ControllerSteps \cup ConsoleSteps,
           NEW d \in Controllers, Exists(controllers[d]), NEW step \in Own,
           KeyFor(step, d) = keyOf(pc)
    PROVE  pc \in Own /\ step = pc
<1>1. BelongsTo(keyOf(pc), d) /\ keyOf(pc).kind = step
  BY HomeFacts DEF Ready, Guarded
<1>2. pc \in Own
  BY <1>1, ConsoleWritesApart, StepIsOwn
<1> QED BY <1>1, <1>2, AtOwnKey DEF Ready

\* What such a step writes is proper.
LEMMA EnsuredIsProper ==
    ASSUME Ready, pc \in EnsureSteps, pc \in ControllerSteps \cup ConsoleSteps, NEW object,
           pc \in Own => Fits(objects[keyOf(pc)], object)
    PROVE  Proper(keyOf(pc), object)
<1> DEFINE k == keyOf(pc)
<1> SUFFICES ASSUME NEW d \in Controllers, BelongsTo(k, d)
             PROVE  object = objects[k] \/ (Exists(object) /\ Shaped(k, d, object.content))
  BY DEF Proper
<1>1. pc \in Own
  BY ConsoleWritesApart, StepIsOwn
<1>2. k.kind = pc /\ BelongsTo(k, req) /\ req \in Controllers
  BY <1>1, AtOwnKey DEF Ready
<1>3. k.kind \in WatchedKinds => d = req
  BY <1>2, OwnersDiffer DEF Ready, Hypotheses, WatchedKinds
<1> HIDE DEF k
<1>4. Shaped(k, req, object.content) => Shaped(k, d, object.content)
  BY <1>3 DEF Shaped
<1> QED BY <1>1, <1>4 DEF Fits, k

\* What such a step leaves of the objects of others.
LEMMA EnsuredSpares ==
    ASSUME Ready, pc \in EnsureSteps, pc \in ControllerSteps \cup ConsoleSteps,
           LagIsDue', ShapesAreRight', UNCHANGED objectCache,
           NEW object, Lands(keyOf(pc), object),
           keyOf(pc) \in Keys => Forward(objects[keyOf(pc)], object),
           pc \in Own => Fits(objects[keyOf(pc)], object),
           NEW d \in Controllers, Exists(controllers[d]), NEW step \in Own,
           d # req \/ step # pc
    PROVE  Spares(step, d)
<1> DEFINE l == KeyFor(step, d)
           k == keyOf(pc)
<1>1. l \in Keys /\ l.kind = step /\ BelongsTo(l, d)
  BY HomeFacts DEF Ready, Guarded
<1>2. CASE l # k \/ object = objects[k]
  BY <1>1, <1>2 DEF Lands, Spares
<1>3. CASE l = k /\ object # objects[k]
  <2>1. pc \in Own /\ step = pc /\ d # req
    BY <1>3, SameKeySameStep
  <2>2. objects'[l] = object
    BY <1>1, <1>3 DEF Lands
  <2>3. CASE step \in WatchedKinds
    <3>1. objectCache[l].version # object.version
      <4>1. /\ objectCache[l].version \in Nat /\ objects[l].version \in Nat
            /\ objectCache[l].version <= objects[l].version
        BY <1>1 DEF Ready, Guarded, Typed, Follows
      <4>2. object.version \in Nat /\ objects[l].version < object.version
        BY <1>1, <1>3 DEF Forward
      <4> QED BY <4>1, <4>2
    <3>2. d \in pending'[l]
      BY <1>1, <2>2, <2>3, <3>1 DEF LagIsDue
    <3> QED BY <2>3, <3>2 DEF Spares
  <2>4. CASE step \notin WatchedKinds
    <3>1. /\ Exists(object)
          /\ step \in {"ClusterRole", "Role"} => object.content.rules = defaultRules
      BY <1>3, <2>1 DEF Fits
    <3>2. Shaped(l, d, object.content)
      BY <1>1, <2>2, <3>1 DEF ShapesAreRight, Exists
    <3>3. step \in {"CRD", "ClusterRole", "Role", "IngressClass"}
      <4>1. BelongsTo(l, req) /\ req \in Controllers
        BY <1>3, <2>1, AtOwnKey DEF Ready
      <4> QED BY <1>1, <2>1, <4>1, OwnersDiffer DEF Ready, Hypotheses
    <3> QED BY <2>2, <3>1, <3>2, <3>3 DEF Spares
  <2> QED BY <2>3, <2>4
<1> QED BY <1>2, <1>3

\* A step that keeps an object, or panics, keeps the invariant.
LEMMA EnsuresServes ==
    ASSUME Serving, Hypotheses, Guarded', Accounted', pc \in EnsureSteps, pc # "Status",
           pc \in ControllerSteps \cup ConsoleSteps, Ensures
    PROVE  Rest'
<1> DEFINE k == keyOf(pc)
<1>1. Ready /\ pc # "idle" /\ req \in Controllers
  <2>1. pc # "idle"
    BY StepsDiffer
  <2> QED BY <2>1, WorkerFacts DEF Ready, Serving, Tidy, Guarded
<1>2. PICK object :
         /\ Lands(k, object)
         /\ k \in Keys => Forward(objects[k], object)
         /\ pc \in Own => Fits(objects[k], object)
         /\ Retry \/ (Continue(instance) /\ (pc \in Own => Suits(objects[k], object)))
  BY DEF Ensures
<1>3. UNCHANGED <<controllers, terminating, controllerCache, objectCache>>
  BY DEF Ensures
<1> HIDE DEF k
<1>4. Proper(k, object)
  BY <1>1, <1>2, EnsuredIsProper DEF k
<1>5. Tidy'
  BY <1>1, <1>2, <1>3, <1>4, MoveKeepsTidy DEF Serving, Moves
<1>6. \/ Idle
      \/ pc' \in EnsureSteps /\ req' = req /\ instance' = instance
  BY <1>2, ContinueFacts DEF Retry
<1>7. queue \subseteq queue'
  BY <1>2, ContinueFacts DEF Retry
<1>8. DeletionIsGuarded'
  BY <1>3 DEF Serving, DeletionIsGuarded, Exists
<1>9. StepApplies'
  <2>1. CASE Idle
    <3>1. pc' \notin EnsureSteps
      BY <2>1, StepsDiffer DEF Idle
    <3> QED BY <3>1 DEF StepApplies
  <2>2. CASE Continue(instance)
    BY <2>2, ContinueApplies DEF wanted
  <2> QED BY <1>2, <2>1, <2>2 DEF Retry
<1>10. StatusFollows'
  BY <1>1, <1>3, <1>6 DEF Serving, StatusFollows, Idle
<1>11. ASSUME NEW d \in Controllers, Exists(controllers[d]), NEW step \in Own,
              d # req \/ step # pc
       PROVE  Spares(step, d)
  BY <1>1, <1>2, <1>3, <1>5, <1>11, EnsuredSpares DEF Tidy, k
<1>12. ASSUME NEW d \in Controllers, d # req PROVE Served(d)'
  <2>1. ~Working(d) /\ ~Working(d)'
    BY <1>6, <1>12 DEF Working, Idle
  <2>2. Served(d) /\ Typed /\ ShapesAreRight
    BY DEF Serving, Guarded, Tidy
  <2>3. Exists(controllers[d]) => \A step \in Own : Spares(step, d)
    BY <1>11, <1>12
  <2> QED BY <1>3, <1>7, <2>1, <2>2, <2>3, SparedStayServed
<1>13. ASSUME NEW c \in Controllers, c = req PROVE Served(c)'
  <2> SUFFICES ASSUME Exists(controllers[c]) PROVE Served(c)'
    BY <1>3 DEF Served, Exists
  <2>1. CASE Attended(c)
    BY <1>3, <1>7, <2>1 DEF Attended, Served
  <2>2. CASE Retry
    BY <1>13, <2>2 DEF Retry, Attended, Served
  <2>3. CASE /\ Passing(c) /\ Progressed(c) /\ Continue(instance)
             /\ pc \in Own => Suits(objects[k], object)
    <3>1. /\ StoredSpec(c) = wanted /\ instance.version = controllers[c].version
          /\ ~controllers[c].content.deleting
      <4>1. ~instance.content.deleting
        BY <1>1 DEF Serving, Guarded, WorkerIsEntitled, Entering
      <4> QED BY <2>3, <4>1, PassingFacts DEF Serving, Passing
    <3>2. Live(c)' /\ StoredSpec(c)' = wanted /\ instance.version = controllers'[c].version
      BY <1>3, <3>1 DEF Live, StoredSpec, Exists
    <3>3. ASSUME c.ns \notin terminating', NEW step \in Own, Position(step) <= Position(pc)
          PROVE  Kept(step, c)'
      <4>1. CASE step = pc
        <5>1. k \in Keys
          BY <1>1, <4>1, AtOwnKey DEF Ready, k
        <5>2. objects'[k] = object
          BY <1>2, <5>1 DEF Lands
        <5>3. Forward(objects[k], object) /\ Suits(objects[k], object)
          BY <1>2, <2>3, <4>1, <5>1
        <5> QED BY <1>1, <1>3, <1>5, <2>3, <4>1, <5>1, <5>2, <5>3, EnsuredIsKept DEF Tidy, k
      <4>2. CASE step # pc
        <5>1. Position(step) < Position(pc)
          <6>1. /\ Position(step) \in DOMAIN Pass /\ Pass[Position(step)] = step
                /\ Position(pc) \in DOMAIN Pass /\ Pass[Position(pc)] = pc
            BY Positions
          <6>2. Position(step) \in Nat /\ Position(pc) \in Nat
            BY <6>1, PassIs
          <6> QED BY <3>3, <4>2, <6>1, <6>2
        <5>2. Kept(step, c)
          BY <1>3, <2>3, <3>3, <5>1 DEF Progressed
        <5>3. Spares(step, c)
          BY <1>11, <4>2
        <5> QED BY <1>3, <5>2, <5>3, SparedIsKept DEF Serving, Guarded, Tidy
      <4> QED BY <4>1, <4>2
    <3>4. ASSUME c.ns \notin terminating', Position("Status") <= Position(pc)
          PROVE  controllers'[c].content.deployed
      <4>1. /\ Position("Status") \in DOMAIN Pass /\ Pass[Position("Status")] = "Status"
            /\ Position(pc) \in DOMAIN Pass /\ Pass[Position(pc)] = pc
        BY Positions
      <4>2. Position("Status") \in Nat /\ Position(pc) \in Nat
        BY <4>1, PassIs
      <4>3. Position("Status") < Position(pc)
        BY <3>4, <4>1, <4>2
      <4> QED BY <1>3, <2>3, <3>4, <4>3 DEF Progressed
    <3>5. pc \in Steps
      BY DEF Steps
    <3> QED BY <1>13, <2>3, <3>2, <3>3, <3>4, <3>5, ContinueServes
  <2>4. ~(~Working(c) /\ Done(c))
    BY <1>1, <1>13 DEF Working
  <2> QED BY <1>2, <2>1, <2>2, <2>3, <2>4 DEF Serving, Served
<1> QED BY <1>5, <1>8, <1>9, <1>10, <1>12, <1>13 DEF Rest

-----------------------------------------------------------------------------
\* Users, the cluster and crashes.

\* What nobody touches is spared.
LEMMA StillSpares ==
    ASSUME UNCHANGED <<objects, pending>>, NEW step, NEW d PROVE Spares(step, d)
BY DEF Spares

\* A process that starts again queues everybody.
LEMMA RestartServes ==
    ASSUME Serving, Stops \/ Crash PROVE Rest'
<1>1. Restart /\ UNCHANGED <<controllers, objects, terminating>>
  BY DEF Stops, Crash, serverVars
<1>2. pc' = "idle" /\ pc' \notin EnsureSteps
  BY <1>1, StepsDiffer DEF Restart, Idle
<1>3. DeletionIsGuarded' /\ StepApplies' /\ StatusFollows'
  BY <1>1, <1>2 DEF Serving, DeletionIsGuarded, Exists, StepApplies, StatusFollows
<1>4. Tidy'
  BY DeliveryKeepsTidy DEF Serving
<1>5. \A c \in Controllers : Served(c)'
  <2> SUFFICES ASSUME NEW c \in Controllers, Exists(controllers[c]) PROVE c \in queue'
    BY <1>1 DEF Served, Attended, Exists
  <2> QED BY <1>1 DEF Restart
<1> QED BY <1>3, <1>4, <1>5 DEF Rest

\* A resource that is written is attended to, and bothers nobody else.
LEMMA SetControllerServes ==
    ASSUME Serving, NEW c \in Controllers, NEW content,
           content # Nothing /\ content.deleting => content.finalizer,
           SetController(c, content),
           UNCHANGED <<controllerCache, objectCache, queue, workerVars>>
    PROVE  Rest'
<1> DEFINE object == Written(controllers[c], content)
<1>1. /\ \A d \in Controllers : controllers'[d] = IF d = c THEN object ELSE controllers[d]
      /\ UNCHANGED <<objects, pending, terminating>>
  BY DEF SetController, Serving, Guarded, Typed
<1>2. /\ controllers[c].version \in Nat /\ controllerCache[c].version \in Nat
      /\ controllerCache[c].version <= controllers[c].version
  BY DEF Serving, Guarded, Typed, Object, Follows
<1>3. /\ object.content = content
      /\ object = controllers[c]
         \/ (object.version \in Nat /\ controllers[c].version < object.version)
  BY <1>2 DEF Written
<1> HIDE DEF object
<1>4. DeletionIsGuarded'
  BY <1>1, <1>3 DEF Serving, DeletionIsGuarded, Exists
<1>5. StepApplies'
  BY DEF Serving, StepApplies, workerVars, Applies, wanted
<1>6. StatusFollows'
  <2> SUFFICES ASSUME pc # "idle", instance.version = controllers'[req].version
               PROVE  instance.content.deployed = controllers'[req].content.deployed
    BY DEF StatusFollows, workerVars
  <2>1. /\ req \in Controllers /\ instance.version \in Nat
        /\ instance.version <= controllers[req].version
    BY WorkerFacts DEF Serving, Guarded, InstanceFollows
  <2>2. controllers'[req] = controllers[req]
    <3>1. CASE req # c \/ object = controllers[c]
      BY <1>1, <2>1, <3>1
    <3>2. CASE req = c /\ object # controllers[c]
      BY <1>1, <1>2, <1>3, <2>1, <3>2
    <3> QED BY <3>1, <3>2
  <2> QED BY <2>2 DEF Serving, StatusFollows
<1>7. Tidy'
  BY <1>1, StillKeepsTidy DEF Serving
<1>8. ASSUME NEW d \in Controllers PROVE Served(d)'
  <2>1. CASE controllers'[d] = controllers[d]
    <3>1. \A step \in Own : Spares(step, d)
      BY <1>1, StillSpares
    <3>2. Served(d) /\ Typed /\ ShapesAreRight /\ (Working(d)' <=> Working(d))
      BY DEF Serving, Guarded, Tidy, Working, workerVars
    <3> QED BY <1>1, <2>1, <3>1, <3>2, SparedStayServed
  <2>2. CASE d = c /\ object # controllers[c]
    <3>1. controllerCache'[c].version < controllers'[c].version
      BY <1>1, <1>2, <1>3, <2>2
    <3> QED BY <2>2, <3>1 DEF Served, Attended
  <2> QED BY <1>1, <2>1, <2>2
<1> QED BY <1>4, <1>5, <1>6, <1>7, <1>8 DEF Rest

\* An object that is written by somebody else than the worker bothers nobody whose
\* objects are spared.
LEMMA SetObjectServes ==
    ASSUME Serving, NEW k \in Keys, NEW object, Forward(objects[k], object), Proper(k, object),
           SetObject(k, object), UNCHANGED <<controllerCache, objectCache, queue, workerVars>>,
           \A d \in Controllers, step \in Own :
               BelongsTo(k, d) /\ k.kind = step /\ k = KeyFor(step, d)
                   /\ Exists(controllers[d]) /\ d.ns \notin terminating
                   /\ object # objects[k] =>
                       step \in WatchedKinds \/ (step = "CRD" /\ Exists(object))
    PROVE  Rest'
<1>1. Lands(k, object) /\ UNCHANGED <<controllers, terminating>>
  BY StoreLands DEF SetObject, Serving
<1>2. Tidy'
  BY <1>1, MoveKeepsTidy DEF Serving, Moves
<1>3. DeletionIsGuarded' /\ StepApplies' /\ StatusFollows'
  BY <1>1 DEF Serving, DeletionIsGuarded, Exists, StepApplies, workerVars, Applies, wanted,
              StatusFollows
<1>4. ASSUME NEW d \in Controllers, Exists(controllers[d]), d.ns \notin terminating,
             NEW step \in Own
      PROVE  Spares(step, d)
  <2> DEFINE l == KeyFor(step, d)
  <2>1. l \in Keys /\ l.kind = step /\ BelongsTo(l, d)
    BY <1>4, HomeFacts DEF Serving, Guarded
  <2>2. CASE l # k \/ object = objects[k]
    BY <1>1, <2>1, <2>2 DEF Lands, Spares
  <2>3. CASE l = k /\ object # objects[k]
    <3>1. objects'[l] = object
      BY <1>1, <2>1, <2>3 DEF Lands
    <3>2. step \in WatchedKinds \/ (step = "CRD" /\ Exists(object))
      BY <1>4, <2>1, <2>3
    <3>3. CASE step \in WatchedKinds
      <4>1. objectCache[l].version # object.version
        <5>1. /\ objectCache[l].version \in Nat /\ objects[l].version \in Nat
              /\ objectCache[l].version <= objects[l].version
          BY <2>1 DEF Serving, Guarded, Typed, Follows
        <5>2. object.version \in Nat /\ objects[l].version < object.version
          BY <2>3 DEF Forward
        <5> QED BY <5>1, <5>2
      <4>2. d \in pending'[l]
        BY <1>2, <2>1, <3>1, <3>3, <4>1 DEF Tidy, LagIsDue
      <4> QED BY <3>3, <4>2 DEF Spares
    <3>4. CASE step = "CRD" /\ Exists(object)
      <4>1. Shaped(l, d, object.content)
        BY <1>2, <2>1, <3>1, <3>4 DEF Tidy, ShapesAreRight, Exists
      <4> QED BY <3>1, <3>4, <4>1 DEF Spares
    <3> QED BY <3>2, <3>3, <3>4
  <2> QED BY <2>2, <2>3
<1>5. ASSUME NEW d \in Controllers PROVE Served(d)'
  <2>1. Served(d) /\ Typed /\ ShapesAreRight /\ (Working(d)' <=> Working(d))
    BY DEF Serving, Guarded, Tidy, Working, workerVars
  <2> QED BY <1>1, <1>4, <2>1, SparedStayServed
<1> QED BY <1>2, <1>3, <1>5 DEF Rest

\* Users write resources.
LEMMA UsersServe ==
    ASSUME Serving, NEW c \in Controllers,
           \/ \E manifest \in Specs :
                 CreateController(c, manifest) \/ UpdateController(c, manifest)
           \/ DeleteController(c)
           \/ EvictController(c)
    PROVE  Rest'
<1>1. Exists(controllers[c]) => controllers[c].content \in ControllerContent(StoredSpecs(c))
  BY DEF Serving, Guarded, Typed, Object, Exists
<1>2. Exists(controllers[c]) /\ controllers[c].content.deleting => controllers[c].content.finalizer
  BY DEF Serving, DeletionIsGuarded
<1>3. UNCHANGED <<controllerCache, objectCache, queue, workerVars>>
  BY DEF CreateController, UpdateController, DeleteController, EvictController, Change
<1>4. ASSUME NEW manifest \in Specs, CreateController(c, manifest) PROVE Rest'
  <2> DEFINE content == [uid |-> controllers[c].version + 1, deleting |-> FALSE,
                         finalizer |-> FALSE, deployed |-> FALSE, spec |-> manifest]
  <2>1. SetController(c, content) /\ ~content.deleting
    BY <1>4 DEF CreateController
  <2> HIDE DEF content
  <2> QED BY <1>3, <2>1, SetControllerServes
<1>5. ASSUME NEW manifest \in Specs, UpdateController(c, manifest) PROVE Rest'
  <2> DEFINE content == [controllers[c].content EXCEPT !.spec = manifest]
  <2>1. SetController(c, content) /\ Exists(controllers[c])
    BY <1>5 DEF UpdateController
  <2>2. content.deleting => content.finalizer
    BY <1>1, <1>2, <2>1 DEF ControllerContent
  <2> HIDE DEF content
  <2> QED BY <1>3, <2>1, <2>2, SetControllerServes
<1>6. CASE DeleteController(c) \/ EvictController(c)
  <2> DEFINE before == controllers[c].content
             content == Deletion(before)
  <2>1. SetController(c, content) /\ Exists(controllers[c])
    BY <1>6 DEF DeleteController, EvictController, Live
  <2>2. \/ content = Nothing
        \/ before.finalizer /\ content = [before EXCEPT !.deleting = TRUE]
    BY DEF Deletion
  <2>3. content # Nothing => content.finalizer
    BY <1>1, <2>1, <2>2 DEF ControllerContent
  <2> HIDE DEF content
  <2> QED BY <1>3, <2>1, <2>3, SetControllerServes
<1> QED BY <1>4, <1>5, <1>6

\* A step that removes an object is a proper one.
LEMMA RemovedFacts ==
    ASSUME Serving, NEW k \in Keys, Exists(objects[k])
    PROVE  LET object == Removed(objects[k])
           IN  Forward(objects[k], object) /\ Proper(k, object) /\ ~Exists(object)
<1>1. objects[k].version \in Nat
  BY DEF Serving, Guarded, Typed
<1> QED BY <1>1 DEF Removed, Written, Forward, Proper, Exists

\* Users delete watched objects and edit CRDs.
LEMMA DriftServes ==
    ASSUME Serving, Hypotheses, NEW k \in Keys, DriftObject(k) PROVE Rest'
<1>1. /\ k.kind \in WatchedKinds \cup {"CRD"} /\ Exists(objects[k])
      /\ SetObject(k, IF k.kind = "CRD" THEN Written(objects[k], EditedCRD)
                      ELSE Removed(objects[k]))
      /\ UNCHANGED <<controllerCache, objectCache, queue, workerVars>>
  BY DEF DriftObject, Change, Hypotheses, DriftIsWatched
<1>2. CASE k.kind # "CRD"
  <2> DEFINE object == Removed(objects[k])
  <2>1. Forward(objects[k], object) /\ Proper(k, object) /\ SetObject(k, object)
    BY <1>1, <1>2, RemovedFacts
  <2> HIDE DEF object
  <2> QED BY <1>1, <1>2, <2>1, SetObjectServes
<1>3. CASE k.kind = "CRD"
  <2> DEFINE object == Written(objects[k], EditedCRD)
  <2>1. objects[k].version \in Nat
    BY DEF Serving, Guarded, Typed
  <2>2. Forward(objects[k], object) /\ object.content = EditedCRD
    BY <2>1 DEF Written, Forward
  <2>3. "owner" \in DOMAIN EditedCRD
    BY DEF EditedCRD, CRDContent
  <2>4. SetObject(k, object)
    BY <1>1, <1>3
  <2> HIDE DEF object
  <2>5. Exists(object)
    BY <2>2, <2>3 DEF Exists, Hypotheses, AbsenceIsNoRecord
  <2>6. \A d : Shaped(k, d, object.content)
    BY <1>3, <2>2 DEF Shaped, WatchedKinds
  <2>7. Proper(k, object)
    BY <2>5, <2>6 DEF Proper
  <2> QED BY <1>1, <1>3, <2>2, <2>4, <2>5, <2>7, SetObjectServes
<1> QED BY <1>2, <1>3

\* The garbage collector and the namespace controller remove objects.
LEMMA RemovalServes ==
    ASSUME Serving, NEW k \in Keys, CollectGarbage(k) \/ EvictObject(k) PROVE Rest'
<1> DEFINE object == Removed(objects[k])
<1>1. /\ Exists(objects[k]) /\ SetObject(k, object)
      /\ UNCHANGED <<controllerCache, objectCache, queue, workerVars>>
      /\ Garbage(k) \/ k.ns \in terminating
  BY DEF CollectGarbage, EvictObject, Garbage
<1>2. Forward(objects[k], object) /\ Proper(k, object)
  BY <1>1, RemovedFacts
<1>3. ASSUME NEW d \in Controllers, NEW step \in Own, BelongsTo(k, d), k = KeyFor(step, d),
             Exists(controllers[d]), d.ns \notin terminating
      PROVE  step \in WatchedKinds
  <2>1. /\ k.kind = step /\ k.ns \in {"", d.ns}
        /\ step \in {"CRD", "ClusterRole", "ClusterRoleBinding", "IngressClass"} => k.ns = ""
    <3> DEFINE spec == StoredSpec(d)
    <3>1. spec \in DefaultedSpecs(d)
      BY <1>3, HomeFacts DEF Serving, Guarded
    <3>2. k = KeyOf(step, d, spec)
      BY <1>3 DEF KeyFor
    <3> HIDE DEF spec
    <3>3. KeyOf(step, d, spec).kind = step /\ KeyOf(step, d, spec).ns \in {"", d.ns}
      BY <1>3, <3>1, OwnKeys
    <3>4. ASSUME step \in {"CRD", "ClusterRole", "ClusterRoleBinding", "IngressClass"}
          PROVE  KeyOf(step, d, spec).ns = ""
      BY <3>4, ClusterScoped
    <3> QED BY <3>2, <3>3, <3>4
  <2>2. "" \notin terminating
    BY NamespacesAreNamed DEF Serving, Accounted, Bookkeeping, Namespaces
  <2>3. Garbage(k)
    BY <1>1, <1>3, <2>1, <2>2
  <2>4. k.ns # "" /\ objects[k].content.owner # Nil
    BY <2>3 DEF Garbage
  <2>5. step \notin {"Role", "RoleBinding", "ConfigMap"}
    BY <1>1, <1>3, <2>1, <2>4 DEF Serving, Tidy, ShapesAreRight, Shaped
  <2> QED BY <2>1, <2>4, <2>5 DEF Own, ControllerSteps, RBACSteps, WatchedKinds
<1> HIDE DEF object
<1> QED BY <1>1, <1>2, <1>3, SetObjectServes

\* A delivery queues those whose event it is.
LEMMA DeliveryServes ==
    ASSUME Serving,
           \/ \E c \in Controllers : DeliverController(c) \/ TerminateNamespace(c.ns)
           \/ \E k \in Keys : DeliverObject(k)
           \/ UNCHANGED vars
    PROVE  Rest'
<1>1. UNCHANGED <<controllers, objects, workerVars>> /\ terminating \subseteq terminating'
      /\ queue \subseteq queue'
  BY DEF DeliverController, TerminateNamespace, DeliverObject, Change, serverVars, workerVars,
         vars
<1>2. DeletionIsGuarded' /\ StepApplies' /\ StatusFollows'
  BY <1>1 DEF Serving, DeletionIsGuarded, Exists, StepApplies, workerVars, Applies, wanted,
              StatusFollows
<1>3. ASSUME NEW d \in Controllers, \A step \in Own : Spares(step, d),
             controllerCache'[d] = controllerCache[d]
      PROVE  Served(d)'
  <2>1. Served(d) /\ Typed /\ ShapesAreRight /\ (Working(d)' <=> Working(d))
    BY <1>1 DEF Serving, Guarded, Tidy, Working, workerVars
  <2> QED BY <1>1, <1>3, <2>1, SparedStayServed
<1>4. ASSUME UNCHANGED <<objects, objectCache, pending>> PROVE Tidy'
  BY <1>4, StillKeepsTidy DEF Serving
<1>5. ASSUME NEW c \in Controllers, DeliverController(c) PROVE Rest'
  <2>1. /\ UNCHANGED <<objects, objectCache, pending>> /\ c \in queue'
        /\ \A d \in Controllers : d # c => controllerCache'[d] = controllerCache[d]
    BY <1>5 DEF DeliverController, serverVars, Serving, Guarded, Typed
  <2>2. Served(c)'
    BY <2>1 DEF Served, Attended
  <2>3. \A d \in Controllers : Served(d)'
    BY <1>3, <2>1, <2>2, StillSpares
  <2> QED BY <1>2, <1>4, <2>1, <2>3 DEF Rest
<1>6. ASSUME NEW k \in Keys, DeliverObject(k) PROVE Rest'
  <2>1. /\ pending[k] \subseteq queue' /\ UNCHANGED <<objects, controllerCache>>
        /\ \A l : l # k => pending'[l] = pending[l]
    BY <1>6 DEF DeliverObject, serverVars, Serving, Accounted, Bookkeeping
  <2>2. ASSUME NEW d \in Controllers PROVE Served(d)'
    <3>1. CASE d \in pending[k]
      BY <2>1, <3>1 DEF Served, Attended
    <3>2. CASE d \notin pending[k]
      BY <1>3, <2>1, <3>2 DEF Spares
    <3> QED BY <3>1, <3>2
  <2>3. Tidy'
    BY <1>6, DeliveryKeepsTidy DEF Serving
  <2> QED BY <1>2, <2>2, <2>3 DEF Rest
<1>7. CASE (\E c \in Controllers : TerminateNamespace(c.ns)) \/ UNCHANGED vars
  <2>1. UNCHANGED <<objects, objectCache, pending, controllerCache>>
    BY <1>7 DEF TerminateNamespace, Change, vars, serverVars, cacheVars
  <2> QED BY <1>2, <1>3, <1>4, <2>1, StillSpares DEF Rest
<1> QED BY <1>5, <1>6, <1>7

-----------------------------------------------------------------------------
\* The steps of a pass that keep no object.

\* The worker's step is about nobody else.
LEMMA OthersStayServed ==
    ASSUME Serving, pc # "idle", NEW d \in Controllers, d # req, Idle \/ req' = req,
           controllers'[d] = controllers[d], controllerCache'[d] = controllerCache[d],
           queue \subseteq queue', UNCHANGED terminating,
           Exists(controllers[d]) => \A step \in Own : Spares(step, d)
    PROVE  Served(d)'
<1>1. ~Working(d) /\ ~Working(d)'
  BY DEF Working, Idle
<1>2. Served(d) /\ Typed /\ ShapesAreRight
  BY DEF Serving, Guarded, Tidy
<1> QED BY <1>1, <1>2, SparedStayServed

\* The steps that keep no object come before all that do, or after them.
LEMMA AroundTheObjects ==
    /\ \A step \in Own : /\ ~(Position(step) <= Position("namespace"))
                          /\ ~(Position(step) <= Position("addFinalizer"))
                          /\ Position(step) < Position("Status")
    /\ ~(Position("Status") <= Position("namespace"))
    /\ ~(Position("Status") <= Position("addFinalizer"))
<1>1. Position("namespace") = 0 /\ Position("addFinalizer") = 0
  BY Positions, StepsDiffer
<1>2. \A step \in EnsureSteps : Position(step) \in 1 .. 19
  BY Positions, PassIs
<1> QED BY <1>1, <1>2, Positions

\* A pass that is not outdated goes on.
LEMMA PassingContinues ==
    ASSUME Serving, NEW c \in Controllers, c = req, Passing(c), Progressed(c),
           pc \in {"namespace", "addFinalizer", "Status"},
           UNCHANGED <<objects, pending, terminating>>, controllers'[c] = controllers[c],
           NEW copy, Continue(copy), copy.version = controllers[c].version,
           pc = "Status" => controllers[c].content.deployed
    PROVE  Served(c)'
<1>1. pc \in Entering /\ pc \in Steps /\ (pc = "Status" => pc \in EnsureSteps)
  BY Positions DEF Entering, Steps
<1>2. Exists(controllers[c]) /\ StoredSpec(c) = wanted /\ ~controllers[c].content.deleting
  BY <1>1, PassingFacts DEF Serving, Guarded, WorkerIsEntitled
<1>3. Live(c)' /\ StoredSpec(c)' = wanted /\ copy.version = controllers'[c].version
  BY <1>2 DEF Live, StoredSpec, Exists
<1>4. ASSUME c.ns \notin terminating', NEW step \in Own, Position(step) <= Position(pc)
      PROVE  Kept(step, c)'
  <2>1. pc = "Status" /\ Position(step) < Position(pc)
    BY <1>4, AroundTheObjects
  <2>2. Kept(step, c)
    BY <1>1, <1>4, <2>1 DEF Progressed
  <2> QED BY <1>2, <2>2, StillSpares, SparedIsKept DEF Serving, Guarded, Tidy
<1>5. Position("Status") <= Position(pc) => controllers'[c].content.deployed
  BY AroundTheObjects
<1> QED BY <1>1, <1>3, <1>4, <1>5, ContinueServes

\* Reconcile starts a pass with what the informer has.
LEMMA ReconcileServes ==
    ASSUME Serving, NEW c \in Controllers, Reconcile(c) PROVE Rest'
<1> DEFINE read == controllerCache[c]
           ready == [read EXCEPT !.content.spec = setDefaultValues(c, @)]
           V == ControllerContent(StoredSpecs(c))
<1>1. /\ pc = "idle"
      /\ UNCHANGED <<controllers, objects, terminating, controllerCache, objectCache, pending>>
      /\ \/ /\ queue' = queue \ {c}
            /\ IF Exists(read) /\ (read.content.deleting => read.content.finalizer)
               THEN /\ req' = c
                    /\ instance' = ready
                    /\ pc' \in {"finalize", "namespace"}
               ELSE UNCHANGED workerVars
         \/ UNCHANGED <<queue, workerVars>>
  BY DEF Reconcile, serverVars, cacheVars
<1>2. Exists(read) => ready.version = read.version
                      /\ ready.content.deployed = read.content.deployed
  <2> SUFFICES ASSUME Exists(read)
               PROVE  ready.version = read.version /\ ready.content.deployed = read.content.deployed
    OBVIOUS
  <2>1. read \in Object(V) /\ read.content \in V
    BY DEF Serving, Guarded, Typed, Object, Exists
  <2> HIDE DEF read
  <2> QED BY <2>1 DEF Object, ControllerContent
<1> HIDE DEF ready
<1>3. pc' \notin EnsureSteps
  BY <1>1, StepsDiffer DEF workerVars
<1>4. Follows(read, controllers[c])
  BY DEF Serving, Guarded, Typed
<1>5. DeletionIsGuarded' /\ StepApplies'
  BY <1>1, <1>3 DEF Serving, DeletionIsGuarded, Exists, StepApplies
<1>6. StatusFollows'
  <2> SUFFICES ASSUME pc' # "idle", instance'.version = controllers'[req'].version
               PROVE  instance'.content.deployed = controllers'[req'].content.deployed
    BY DEF StatusFollows
  <2>1. req' = c /\ instance' = ready /\ Exists(read)
    BY <1>1 DEF workerVars
  <2> QED BY <1>1, <1>2, <1>4, <2>1 DEF Follows
<1>7. Tidy'
  BY <1>1, StillKeepsTidy DEF Serving
<1>8. ASSUME NEW d \in Controllers PROVE Served(d)'
  <2>1. ~Working(d) /\ Served(d) /\ Typed /\ ShapesAreRight
    BY <1>1 DEF Working, Serving, Guarded, Tidy
  <2>2. CASE d # c \/ UNCHANGED <<queue, workerVars>>
    <3>1. ~Working(d)' /\ (d \in queue => d \in queue')
      BY <1>1, <2>2 DEF Working, workerVars
    <3> QED BY <1>1, <2>1, <3>1, StillSpares, SparedStayServed
  <2>3. CASE d = c /\ ~UNCHANGED <<queue, workerVars>>
    <3> SUFFICES ASSUME Exists(controllers[c]) PROVE Served(c)'
      BY <1>1, <2>3 DEF Served, Exists
    <3>1. CASE read.version # controllers[c].version
      <4>1. read.version < controllers[c].version
        <5>1. read.version \in Nat /\ controllers[c].version \in Nat
          BY DEF Serving, Guarded, Typed, Object
        <5> QED BY <1>4, <3>1, <5>1 DEF Follows
      <4> QED BY <1>1, <4>1 DEF Served, Attended
    <3>2. CASE read.version = controllers[c].version
      <4>1. read.content = controllers[c].content
        BY <1>4, <3>2 DEF Follows
      <4>2. Exists(read) /\ (read.content.deleting => read.content.finalizer)
        BY <4>1 DEF Exists, Serving, DeletionIsGuarded
      <4>3. req' = c /\ instance' = ready /\ pc' # "idle"
        BY <1>1, <2>3, <4>2
      <4>4. Passing(c)'
        BY <1>1, <1>2, <3>2, <4>2, <4>3 DEF Passing, Working
      <4>5. Progressed(c)'
        BY <1>3 DEF Progressed
      <4> QED BY <4>4, <4>5 DEF Served
    <3> QED BY <3>1, <3>2
  <2> QED BY <2>2, <2>3
<1> QED BY <1>5, <1>6, <1>7, <1>8 DEF Rest

\* checkNamespace.
LEMMA NamespaceServes ==
    ASSUME Serving, Hypotheses, checkNamespace PROVE Rest'
<1>1. pc = "namespace" /\ pc # "idle" /\ pc \in Entering /\ req \in Controllers
  <2>1. pc = "namespace" /\ pc # "idle" /\ pc \in Entering
    BY DEF checkNamespace, Entering
  <2> QED BY <2>1, WorkerFacts DEF Serving, Guarded
<1>2. /\ UNCHANGED <<controllers, objects, terminating, controllerCache, objectCache, pending>>
      /\ \/ req.ns \in terminating /\ Finish
         \/ GoTo("addFinalizer") /\ UNCHANGED instance
         \/ Continue(instance)
  BY <1>1 DEF checkNamespace, Fault, Hypotheses, ReadsSucceed, serverVars, cacheVars
<1>3. UNCHANGED queue /\ (Idle \/ (UNCHANGED <<req, instance>> /\ pc' # "idle"))
  BY <1>2, ContinueFacts, StepsDiffer DEF Finish, GoTo
<1>4. Tidy' /\ DeletionIsGuarded' /\ StatusFollows'
  BY <1>1, <1>2, <1>3, StillKeepsTidy
     DEF Serving, DeletionIsGuarded, Exists, StatusFollows, Idle
<1>5. StepApplies'
  <2>1. CASE Continue(instance)
    BY <2>1, ContinueApplies DEF wanted
  <2>2. CASE pc' \in {"idle", "addFinalizer"}
    <3>1. pc' \notin EnsureSteps
      BY <2>2, StepsDiffer
    <3> QED BY <3>1 DEF StepApplies
  <2> QED BY <1>2, <2>1, <2>2 DEF Finish, Idle, GoTo
<1>6. ASSUME NEW d \in Controllers, d # req PROVE Served(d)'
  BY <1>1, <1>2, <1>3, <1>6, StillSpares, OthersStayServed
<1>7. ASSUME NEW c \in Controllers, c = req PROVE Served(c)'
  <2> SUFFICES ASSUME Exists(controllers[c]) PROVE Served(c)'
    BY <1>2 DEF Served, Exists
  <2>1. CASE Attended(c)
    BY <1>2, <1>3, <2>1 DEF Attended, Served
  <2>2. CASE Passing(c) /\ Progressed(c)
    <3>1. CASE req.ns \in terminating /\ Finish
      <4>1. ~controllers[c].content.deleting
        BY <1>1, <2>2, PassingFacts DEF Serving, Guarded, WorkerIsEntitled
      <4>2. Live(c)' /\ ~Working(c)'
        BY <1>2, <3>1, <4>1 DEF Live, Exists, Finish, Idle, Working
      <4>3. Done(c)'
        BY <1>2, <1>7, <3>1, <4>2 DEF Done
      <4> QED BY <4>2, <4>3 DEF Served
    <3>2. CASE GoTo("addFinalizer") /\ UNCHANGED instance
      <4>1. Passing(c)' /\ pc' \notin EnsureSteps
        BY <1>1, <1>2, <2>2, <3>2, StepsDiffer DEF Passing, Working, GoTo
      <4>2. Progressed(c)'
        BY <4>1 DEF Progressed
      <4> QED BY <4>1, <4>2 DEF Served
    <3>3. CASE Continue(instance)
      <4>1. instance.version = controllers[c].version
        BY <2>2 DEF Passing
      <4> QED BY <1>1, <1>2, <1>7, <2>2, <3>3, <4>1, PassingContinues
    <3> QED BY <1>2, <3>1, <3>2, <3>3
  <2>3. Working(c)
    BY <1>1, <1>7 DEF Working
  <2> QED BY <2>1, <2>2, <2>3 DEF Serving, Served
<1> QED BY <1>4, <1>5, <1>6, <1>7 DEF Rest

\* What finalizeHigressController sends, and where it goes.
LEMMA FinalizeLands ==
    ASSUME Serving, Hypotheses, finalizeHigressController
    PROVE  \E object :
               /\ Lands(keyOf("ClusterRoleBinding"), object)
               /\ Forward(objects[keyOf("ClusterRoleBinding")], object)
               /\ Proper(keyOf("ClusterRoleBinding"), object)
<1> DEFINE k == keyOf("ClusterRoleBinding")
           kept == {s \in Seen(k).content.subjects :
                       s.name # <<getServiceAccount(req, wanted)>> \/ s.ns # req.ns}
           mutated == [Seen(k).content EXCEPT !.subjects = kept]
           result == Update(objects[k], Seen(k), mutated)
<1>1. Store(k, result.object) \/ UNCHANGED <<objects, pending>>
  BY DEF finalizeHigressController
<1>2. k \in Keys /\ k.kind = "ClusterRoleBinding"
  <2>1. pc # "idle"
    BY DEF finalizeHigressController
  <2> QED BY <2>1, WorkerFacts DEF Serving, Guarded, keyOf
<1>3. /\ result.ok => /\ Exists(objects[k]) /\ objects[k].version = Seen(k).version
                      /\ result.object = Written(objects[k], mutated)
      /\ ~result.ok => result.object = objects[k]
      /\ result.ok \in BOOLEAN
  BY UpdateFacts
<1>4. Seen(k).version = objects[k].version => Seen(k).content = objects[k].content
  BY <1>2 DEF Serving, Guarded, Typed, Follows, Seen
<1>5. /\ DOMAIN mutated = DOMAIN Seen(k).content
      /\ "owner" \in DOMAIN Seen(k).content => mutated.owner = Seen(k).content.owner
  OBVIOUS
<1> HIDE DEF k, kept, mutated, result
<1>6. CASE Store(k, objects[k]) \/ UNCHANGED <<objects, pending>>
  <2>1. Lands(k, objects[k])
    BY <1>6, StoreLands, NothingLands DEF Serving
  <2> QED BY <2>1 DEF Forward, Proper, k
<1>7. CASE result.ok /\ Store(k, result.object)
  <2> DEFINE object == result.object
  <2>1. /\ objects[k].version \in Nat /\ Exists(objects[k])
        /\ "owner" \in DOMAIN objects[k].content
    BY <1>2, <1>3, <1>7 DEF Serving, Guarded, Typed, Accounted, OwnersAreKnown
  <2>2. object.content = mutated /\ Forward(objects[k], object)
    BY <1>3, <1>7, <2>1 DEF Written, Forward
  <2>3. /\ DOMAIN mutated = DOMAIN objects[k].content
        /\ mutated.owner = objects[k].content.owner
    BY <1>3, <1>4, <1>5, <1>7, <2>1
  <2>4. Exists(object)
    BY <2>1, <2>2, <2>3 DEF Exists, Hypotheses, AbsenceIsNoRecord
  <2>5. ASSUME NEW d \in Controllers, BelongsTo(k, d) PROVE Shaped(k, d, object.content)
    <3>1. Shaped(k, d, objects[k].content)
      BY <1>2, <2>1, <2>5 DEF Serving, Tidy, ShapesAreRight
    <3> QED BY <1>2, <2>2, <2>3, <3>1 DEF Shaped, WatchedKinds
  <2>6. Lands(k, object)
    BY <1>7, StoreLands DEF Serving
  <2>7. Proper(k, object)
    BY <2>4, <2>5 DEF Proper
  <2> QED BY <2>2, <2>6, <2>7 DEF k
<1> QED BY <1>1, <1>3, <1>6, <1>7

\* finalizeHigressController.
LEMMA FinalizeServes ==
    ASSUME Serving, Hypotheses, finalizeHigressController PROVE Rest'
<1> DEFINE k == keyOf("ClusterRoleBinding")
<1>1. /\ pc = "finalize" /\ pc # "idle" /\ req \in Controllers
      /\ UNCHANGED <<controllers, terminating, controllerCache, objectCache>>
  <2>1. /\ pc = "finalize"
        /\ UNCHANGED <<controllers, terminating, controllerCache, objectCache>>
    BY DEF finalizeHigressController
  <2>2. pc # "idle"
    BY <2>1
  <2> QED BY <2>1, <2>2, WorkerFacts DEF Serving, Guarded
<1>2. Retry \/ (GoTo("removeFinalizer") /\ UNCHANGED instance)
  BY DEF finalizeHigressController, BindingNotFound
<1>3. PICK object : Lands(k, object) /\ Forward(objects[k], object) /\ Proper(k, object)
  BY FinalizeLands
<1>4. k \in Keys /\ k.kind = "ClusterRoleBinding" /\ BelongsTo(k, req)
  <2>1. "ClusterRoleBinding" \in Own
    BY StepsAssumption DEF Own, ControllerSteps, RBACSteps
  <2> QED BY <1>1, <2>1, WorkerFacts, OwnKeys DEF Serving, Guarded, keyOf
<1> HIDE DEF k
<1>5. Tidy'
  BY <1>1, <1>3, MoveKeepsTidy DEF Serving, Moves
<1>6. /\ pc' \notin EnsureSteps /\ queue \subseteq queue'
      /\ Idle \/ (req' = req /\ instance' = instance)
  BY <1>2, StepsDiffer DEF Retry, Idle, GoTo
<1>7. DeletionIsGuarded' /\ StepApplies'
  BY <1>1, <1>6 DEF Serving, DeletionIsGuarded, Exists, StepApplies
<1>8. StatusFollows'
  BY <1>1, <1>6 DEF Serving, StatusFollows, Idle
<1>9. ASSUME NEW d \in Controllers, d # req PROVE Served(d)'
  <2>1. ASSUME Exists(controllers[d]), NEW step \in Own PROVE Spares(step, d)
    <3> DEFINE l == KeyFor(step, d)
    <3>1. l \in Keys /\ BelongsTo(l, d)
      BY <2>1, HomeFacts DEF Serving, Guarded
    <3>2. l # k
      BY <1>1, <1>4, <1>9, <3>1, OwnersDiffer DEF Hypotheses
    <3> QED BY <1>3, <3>1, <3>2 DEF Lands, Spares
  <2> QED BY <1>1, <1>6, <1>9, <2>1, OthersStayServed
<1>10. ASSUME NEW c \in Controllers, c = req PROVE Served(c)'
  <2> SUFFICES ASSUME Exists(controllers[c]) PROVE Served(c)'
    BY <1>1 DEF Served, Exists
  <2>1. CASE Attended(c)
    BY <1>1, <1>6, <2>1 DEF Attended, Served
  <2>2. CASE Retry
    BY <1>10, <2>2 DEF Retry, Attended, Served
  <2>3. CASE Passing(c) /\ GoTo("removeFinalizer") /\ UNCHANGED instance
    <3>1. Passing(c)'
      BY <1>1, <2>3 DEF Passing, Working, GoTo
    <3>2. Progressed(c)'
      BY <1>6 DEF Progressed
    <3> QED BY <3>1, <3>2 DEF Served
  <2>4. Working(c)
    BY <1>1, <1>10 DEF Working
  <2> QED BY <1>2, <2>1, <2>2, <2>3, <2>4 DEF Serving, Served
<1> QED BY <1>5, <1>7, <1>8, <1>9, <1>10 DEF Rest

\* The worker's writes of the resource: one that changes it is an event.
LEMMA WriteServes ==
    ASSUME Serving, pc # "idle", NEW c \in Controllers, c = req, NEW object,
           \A d \in Controllers : controllers'[d] = IF d = c THEN object ELSE controllers[d],
           Forward(controllers[c], object),
           Exists(object) /\ object.content.deleting => object.content.finalizer,
           UNCHANGED <<objects, pending, terminating, controllerCache, objectCache>>,
           Idle \/ req' = req, queue \subseteq queue',
           StepApplies', StatusFollows',
           object = controllers[c] /\ Passing(c) /\ Progressed(c) =>
               c \in queue' \/ Served(c)'
    PROVE  Rest'
<1>1. DeletionIsGuarded'
  BY DEF Serving, DeletionIsGuarded, Exists
<1>2. Tidy'
  BY StillKeepsTidy DEF Serving
<1>3. ASSUME NEW d \in Controllers, d # c PROVE Served(d)'
  BY <1>3, StillSpares, OthersStayServed
<1>4. Served(c)'
  <2>1. CASE object # controllers[c]
    <3>1. /\ controllers[c].version \in Nat /\ controllerCache[c].version \in Nat
          /\ controllerCache[c].version <= controllers[c].version
      BY DEF Serving, Guarded, Typed, Object, Follows
    <3>2. controllerCache'[c].version < controllers'[c].version
      BY <2>1, <3>1 DEF Forward
    <3> QED BY <3>2 DEF Served, Attended
  <2>2. CASE object = controllers[c] /\ Attended(c)
    BY <2>2 DEF Attended, Served
  <2>3. CASE c \in queue'
    BY <2>3 DEF Attended, Served
  <2>4. Working(c)
    BY DEF Working
  <2>5. CASE ~Exists(object)
    BY <2>5 DEF Served, Exists
  <2> QED BY <2>1, <2>2, <2>3, <2>4, <2>5 DEF Serving, Served
<1> QED BY <1>1, <1>2, <1>3, <1>4 DEF Rest

\* What a call for the resource leaves, and with which answer it goes on.
LEMMA AnswerLands ==
    ASSUME Serving, pc # "idle", req \in Controllers, NEW content, NEW next,
           CallForController(Update(controllers[req], instance, content), next)
    PROVE  LET answer == Update(controllers[req], instance, content)
           IN  \E object :
                 /\ \A c \in Controllers :
                        controllers'[c] = IF c = req THEN object ELSE controllers[c]
                 /\ Forward(controllers[req], object)
                 /\ \/ object = controllers[req]
                    \/ /\ Exists(controllers[req])
                       /\ controllers[req].version = instance.version
                       /\ object.content = content
                 /\ UNCHANGED <<objects, pending, terminating, controllerCache, objectCache>>
                 /\ \/ Retry
                    \/ /\ next
                       /\ Exists(controllers[req])
                       /\ controllers[req].version = instance.version
                       /\ answer.object = object /\ object.content = content
<1> DEFINE answer == Update(controllers[req], instance, content)
<1>1. /\ answer.ok => /\ Exists(controllers[req])
                      /\ controllers[req].version = instance.version
                      /\ answer.object = Written(controllers[req], content)
      /\ ~answer.ok => answer.object = controllers[req]
      /\ answer.ok \in BOOLEAN
  BY UpdateFacts
<1>2. /\ Written(controllers[req], content).content = content
      /\ Forward(controllers[req], Written(controllers[req], content))
  <2>1. controllers[req].version \in Nat
    BY DEF Serving, Guarded, Typed, Object
  <2> QED BY <2>1 DEF Written, Forward
<1>3. CallForController(answer, next)
  OBVIOUS
<1> HIDE DEF answer
<1>4. UNCHANGED <<objects, pending, terminating, controllerCache, objectCache>>
  BY <1>3 DEF CallForController, cacheVars
<1>5. \/ controllers' = controllers /\ Retry
      \/ /\ controllers' = [controllers EXCEPT ![req] = answer.object]
         /\ Retry \/ (answer.ok /\ next)
  BY <1>3 DEF CallForController
<1>6. DOMAIN controllers = Controllers
  BY DEF Serving, Guarded, Typed
<1>7. CASE controllers' = controllers /\ Retry
  BY <1>4, <1>7 DEF Forward, answer
<1>8. CASE /\ controllers' = [controllers EXCEPT ![req] = answer.object]
           /\ Retry \/ (answer.ok /\ next)
  <2>1. \A c \in Controllers :
            controllers'[c] = IF c = req THEN answer.object ELSE controllers[c]
    BY <1>6, <1>8
  <2>2. CASE answer.ok
    BY <1>1, <1>2, <1>4, <1>8, <2>1, <2>2 DEF answer
  <2>3. CASE ~answer.ok
    BY <1>1, <1>4, <1>8, <2>1, <2>3 DEF Forward, answer
  <2> QED BY <1>1, <2>2, <2>3
<1> QED BY <1>5, <1>7, <1>8

\* addFinalizer.
LEMMA AddFinalizerServes == ASSUME Serving, addFinalizer PROVE Rest'
<1> DEFINE content == [instance.content EXCEPT !.finalizer = TRUE]
           answer == Update(controllers[req], instance, content)
<1>1. pc = "addFinalizer" /\ pc # "idle" /\ pc \in Entering
  BY DEF addFinalizer, Entering
<1>2. req \in Controllers /\ instance.content \in ControllerContent(DefaultedSpecs(req))
  BY <1>1, WorkerFacts DEF Serving, Guarded
<1>3. content.spec = wanted /\ content.finalizer
  BY <1>2 DEF ControllerContent, wanted
<1>4. CallForController(answer, Continue(answer.object))
  BY DEF addFinalizer
<1> HIDE DEF content
<1>5. PICK object :
        /\ \A d \in Controllers : controllers'[d] = IF d = req THEN object ELSE controllers[d]
        /\ Forward(controllers[req], object)
        /\ object = controllers[req] \/ object.content = content
        /\ UNCHANGED <<objects, pending, terminating, controllerCache, objectCache>>
        /\ \/ Retry
           \/ /\ Continue(answer.object)
              /\ answer.object = object /\ object.content = content
  <2> HIDE DEF answer
  <2>1. CallForController(Update(controllers[req], instance, content), Continue(answer.object))
    BY <1>4 DEF answer
  <2> QED BY <1>1, <1>2, <2>1, AnswerLands DEF answer
<1> HIDE DEF answer
<1>6. /\ Idle \/ (pc' \in EnsureSteps /\ req' = req /\ instance' = object)
      /\ queue \subseteq queue'
  BY <1>5, ContinueFacts DEF Retry
<1>7. StepApplies'
  <2>1. CASE Idle
    <3>1. pc' \notin EnsureSteps
      BY <2>1, StepsDiffer DEF Idle
    <3> QED BY <3>1 DEF StepApplies
  <2>2. CASE Continue(object) /\ object.content = content
    BY <1>3, <2>2, ContinueApplies
  <2> QED BY <1>5, <2>1, <2>2 DEF Retry
<1>8. StatusFollows'
  BY <1>2, <1>5, <1>6 DEF StatusFollows, Idle
<1>9. Exists(object) /\ object.content.deleting => object.content.finalizer
  BY <1>2, <1>3, <1>5 DEF Serving, DeletionIsGuarded
<1>10. PICK c \in Controllers : c = req
  BY <1>2
<1>11. ASSUME object = controllers[c], Passing(c), Progressed(c) PROVE c \in queue' \/ Served(c)'
  <2>1. CASE Retry
    BY <1>10, <2>1 DEF Retry
  <2>2. CASE Continue(object)
    <3>1. controllers'[c] = controllers[c]
      BY <1>5, <1>10, <1>11
    <3> QED BY <1>1, <1>5, <1>10, <1>11, <2>2, <3>1, PassingContinues
  <2> QED BY <1>5, <2>1, <2>2
<1> QED BY <1>1, <1>5, <1>6, <1>7, <1>8, <1>9, <1>10, <1>11, WriteServes

\* removeFinalizer: the resource is gone, or the request is queued again.
LEMMA RemoveFinalizerServes == ASSUME Serving, removeFinalizer PROVE Rest'
<1>1. pc = "removeFinalizer" /\ pc # "idle"
      /\ CallForController(Update(controllers[req], instance, Nothing), Finish)
  BY DEF removeFinalizer
<1>2. req \in Controllers
  BY <1>1, WorkerFacts DEF Serving, Guarded
<1>3. PICK object :
        /\ \A d \in Controllers : controllers'[d] = IF d = req THEN object ELSE controllers[d]
        /\ Forward(controllers[req], object)
        /\ object = controllers[req] \/ ~Exists(object)
        /\ UNCHANGED <<objects, pending, terminating, controllerCache, objectCache>>
        /\ Retry \/ (Finish /\ ~Exists(object))
  BY <1>1, <1>2, AnswerLands DEF Exists
<1>4. Idle /\ queue \subseteq queue' /\ pc' \notin EnsureSteps
  <2>1. Idle /\ queue \subseteq queue'
    BY <1>3 DEF Retry, Finish
  <2> QED BY <2>1, StepsDiffer DEF Idle
<1>5. StepApplies' /\ StatusFollows'
  BY <1>4 DEF StepApplies, StatusFollows, Idle
<1>6. Exists(object) /\ object.content.deleting => object.content.finalizer
  BY <1>2, <1>3 DEF Serving, DeletionIsGuarded
<1>7. PICK c \in Controllers : c = req
  BY <1>2
<1>8. ASSUME object = controllers[c], Passing(c) PROVE c \in queue'
  BY <1>3, <1>7, <1>8, PassingFacts DEF Serving, Retry
<1> QED BY <1>1, <1>3, <1>4, <1>5, <1>6, <1>7, <1>8, WriteServes

\* updateStatus.
LEMMA StatusServes == ASSUME Serving, updateStatus PROVE Rest'
<1> DEFINE content == [controllers[req].content EXCEPT !.deployed = TRUE]
           answer == Update(controllers[req], instance, content)
           copy == [instance EXCEPT !.version = answer.object.version, !.content.deployed = TRUE]
<1>1. pc = "Status" /\ pc # "idle" /\ pc \in EnsureSteps
  BY DEF updateStatus, Serving, Guarded, Typed, WorkerTyped, Steps
<1>2. /\ req \in Controllers
      /\ instance \in Object(ControllerContent(DefaultedSpecs(req)))
      /\ instance.content \in ControllerContent(DefaultedSpecs(req))
      /\ Exists(controllers[req]) =>
            controllers[req].content \in ControllerContent(StoredSpecs(req))
  BY <1>1, WorkerFacts DEF Serving, Guarded, Typed, WorkerTyped, Object, Exists
<1>3. PICK c \in Controllers : c = req
  BY <1>2
<1>4. CASE instance.content.deployed
  <2>1. Continue(instance) /\ UNCHANGED <<serverVars, cacheVars>>
    BY <1>4 DEF updateStatus, SendNothing
  <2>2. UNCHANGED <<controllers, objects, pending, terminating, controllerCache, objectCache>>
    BY <2>1 DEF serverVars, cacheVars
  <2>3. /\ Idle \/ (pc' \in EnsureSteps /\ req' = req /\ instance' = instance)
        /\ UNCHANGED queue
    BY <2>1, ContinueFacts
  <2>4. StepApplies'
    BY <2>1, ContinueApplies DEF wanted
  <2>5. StatusFollows'
    BY <1>1, <2>2, <2>3 DEF Serving, StatusFollows, Idle
  <2>6. ASSUME Passing(c), Progressed(c) PROVE Served(c)'
    <3>1. instance.version = controllers[c].version /\ controllers[c].content.deployed
      BY <1>1, <1>3, <1>4, <2>6 DEF Passing, Serving, StatusFollows
    <3> QED BY <1>1, <1>3, <2>1, <2>2, <2>6, <3>1, PassingContinues
  <2>7. PICK object : object = controllers[c]
    OBVIOUS
  <2>8. Forward(controllers[c], object)
        /\ (Exists(object) /\ object.content.deleting => object.content.finalizer)
    BY <2>7 DEF Forward, Serving, DeletionIsGuarded
  <2> QED BY <1>1, <1>3, <2>2, <2>3, <2>4, <2>5, <2>6, <2>7, <2>8, WriteServes
<1>5. CASE ~instance.content.deployed
  <2>1. CallForController(answer, Continue(copy))
    BY <1>5 DEF updateStatus
  <2>2. Exists(controllers[req]) =>
            /\ content.deployed = TRUE
            /\ content.finalizer = controllers[req].content.finalizer
            /\ content.deleting = controllers[req].content.deleting
            /\ content.deployed = controllers[req].content.deployed =>
                  controllers[req].content.deployed
    BY <1>2 DEF ControllerContent
  <2>3. /\ copy.content.spec = wanted /\ copy.content.deployed = TRUE
        /\ copy.version = answer.object.version
    BY <1>2 DEF Object, ControllerContent, wanted
  <2> HIDE DEF content, copy
  <2>4. PICK object :
          /\ \A d \in Controllers : controllers'[d] = IF d = req THEN object ELSE controllers[d]
          /\ Forward(controllers[req], object)
          /\ object = controllers[req] \/ (Exists(controllers[req]) /\ object.content = content)
          /\ UNCHANGED <<objects, pending, terminating, controllerCache, objectCache>>
          /\ \/ Retry
             \/ /\ Continue(copy) /\ Exists(controllers[req])
                /\ answer.object = object /\ object.content = content
    BY <1>1, <1>2, <2>1, AnswerLands
  <2> HIDE DEF answer
  <2>5. /\ Idle \/ (pc' \in EnsureSteps /\ req' = req /\ instance' = copy)
        /\ queue \subseteq queue'
    BY <2>4, ContinueFacts DEF Retry
  <2>6. StepApplies'
    <3>1. CASE Idle
      <4>1. pc' \notin EnsureSteps
        BY <3>1, StepsDiffer DEF Idle
      <4> QED BY <4>1 DEF StepApplies
    <3>2. CASE Continue(copy)
      BY <2>3, <3>2, ContinueApplies
    <3> QED BY <2>4, <3>1, <3>2 DEF Retry
  <2>7. StatusFollows'
    <3> SUFFICES ASSUME pc' # "idle", ~Retry
                 PROVE  instance'.content.deployed = controllers'[req'].content.deployed
      BY DEF StatusFollows, Retry, Idle
    <3>1. /\ instance' = copy /\ req' = req /\ controllers'[req] = object
          /\ object.content = content /\ Exists(controllers[req])
      BY <1>2, <2>4, <2>5 DEF Idle
    <3> QED BY <2>2, <2>3, <3>1
  <2>8. Exists(object) /\ object.content.deleting => object.content.finalizer
    BY <1>2, <2>2, <2>4 DEF Serving, DeletionIsGuarded
  <2>9. ASSUME object = controllers[c], Passing(c), Progressed(c)
        PROVE  c \in queue' \/ Served(c)'
    <3>1. CASE Retry
      BY <1>3, <3>1 DEF Retry
    <3>2. CASE /\ Continue(copy) /\ Exists(controllers[req])
               /\ answer.object = object /\ object.content = content
      <4>1. controllers'[c] = controllers[c] /\ controllers[c].content.deployed
        BY <1>3, <2>2, <2>4, <2>9, <3>2
      <4>2. copy.version = controllers[c].version
        BY <2>3, <2>9, <3>2
      <4> QED BY <1>1, <1>3, <2>4, <2>9, <3>2, <4>1, <4>2, PassingContinues
    <3> QED BY <2>4, <3>1, <3>2
  <2> QED BY <1>1, <1>3, <2>4, <2>5, <2>6, <2>7, <2>8, <2>9, WriteServes
<1> QED BY <1>4, <1>5

-----------------------------------------------------------------------------
\* Every step.

\* The worker.
LEMMA WorkerServes ==
    ASSUME Serving, Hypotheses, Guarded', Accounted', Worker PROVE Rest'
<1>1. CASE Keeping
  <2>1. Ready
    BY DEF Ready, Serving, Tidy
  <2>2. Ensures \/ Stops
    BY <1>1, <2>1, StepEnsures DEF Stops
  <2>3. CASE Ensures
    BY <1>1, <2>3, KeepingIsStep, EnsuresServes DEF Serving
  <2> QED BY <2>2, <2>3, RestartServes
<1> QED BY <1>1, NamespaceServes, AddFinalizerServes, FinalizeServes, RemoveFinalizerServes,
           StatusServes DEF Worker, Keeping

\* Everybody.
LEMMA StepServes == ASSUME Serving, Hypotheses, [Next]_vars PROVE Serving'
<1>1. Guarded' /\ Accounted'
  BY StepAccounts DEF Serving
<1> SUFFICES Rest'
  BY <1>1 DEF Serving, Rest
<1>2. ASSUME NEW c \in Controllers, Reconcile(c) PROVE Rest'
  BY <1>2, ReconcileServes
<1>3. CASE Worker
  BY <1>1, <1>3, WorkerServes
<1>4. CASE Cluster
  <2>1. ASSUME NEW c \in Controllers, DeliverController(c) \/ EvictController(c) PROVE Rest'
    BY <2>1, DeliveryServes, UsersServe
  <2>2. ASSUME NEW k \in Keys, DeliverObject(k) \/ CollectGarbage(k) \/ EvictObject(k)
        PROVE  Rest'
    BY <2>2, DeliveryServes, RemovalServes
  <2> QED BY <1>4, <2>1, <2>2 DEF Cluster
<1>5. CASE User
  <2>1. ASSUME NEW c \in Controllers, NEW manifest \in Specs,
               CreateController(c, manifest) \/ UpdateController(c, manifest)
        PROVE  Rest'
    BY <2>1, UsersServe
  <2>2. ASSUME NEW c \in Controllers, DeleteController(c) PROVE Rest'
    BY <2>2, UsersServe
  <2>3. ASSUME NEW c \in Controllers, TerminateNamespace(c.ns) PROVE Rest'
    BY <2>3, DeliveryServes
  <2>4. ASSUME NEW k \in Keys, DriftObject(k) PROVE Rest'
    BY <2>4, DriftServes
  <2> QED BY <1>5, <2>1, <2>2, <2>3, <2>4 DEF User
<1>6. CASE Crash
  BY <1>6, RestartServes
<1>7. CASE UNCHANGED vars
  BY <1>7, DeliveryServes
<1> QED BY <1>2, <1>3, <1>4, <1>5, <1>6, <1>7 DEF Next

\* At the start there is nobody to serve.
LEMMA InitServes == ASSUME Init PROVE Serving
<1>1. /\ \A c \in Controllers : ~Exists(controllers[c])
      /\ \A k \in Keys : ~Exists(objects[k]) /\ pending[k] = {} /\ objectCache[k] = objects[k]
  BY DEF Init, Exists, NeverStored
<1>2. pc = "idle" /\ pc \notin EnsureSteps
  BY StepsDiffer DEF Init
<1>3. DeletionIsGuarded /\ StepApplies /\ StatusFollows /\ \A c \in Controllers : Served(c)
  BY <1>1, <1>2 DEF DeletionIsGuarded, StepApplies, StatusFollows, Served
<1>4. Tidy
  BY <1>1 DEF Tidy, EventsAreDue, LagIsDue, ShapesAreRight
<1> QED BY <1>3, <1>4, InitAccounts DEF Serving

-----------------------------------------------------------------------------
\* The result.

\* When nothing is left to do, everybody who is served is done.
LEMMA SettledIsServed == ASSUME Serving PROVE SettledIsConverged
<1> SUFFICES ASSUME Settled, NEW c \in Controllers, Exists(controllers[c])
             PROVE  Live(c) /\ (c.ns \notin terminating => Converged(c))
  BY DEF SettledIsConverged, Live
<1>1. /\ pc = "idle" /\ queue = {} /\ controllerCache = controllers
      /\ \A k \in Followed : objectCache[k] = objects[k]
      /\ \A k \in Keys : ~Garbage(k)
  BY DEF Settled
<1>2. ~Attended(c) /\ ~Working(c)
  <2>1. controllers[c].version \in Nat
    BY DEF Serving, Guarded, Typed, Object
  <2> QED BY <1>1, <2>1 DEF Attended, Working
<1>3. Done(c)
  BY <1>2 DEF Serving, Served, Passing
<1>4. ASSUME NEW k \in Keys PROVE ~Disturbed(k, c)
  <2>1. k.kind \in WatchedKinds => objectCache[k] = objects[k]
    BY <1>1, <1>4 DEF Followed
  <2>2. objects[k].version \in Nat
    BY <1>4 DEF Serving, Guarded, Typed
  <2>3. k.kind \in WatchedKinds => pending[k] = {}
    BY <1>4, <2>1, <2>2 DEF Serving, Tidy, EventsAreDue
  <2> QED BY <1>1, <1>4, <2>3 DEF Disturbed
<1>5. ASSUME c.ns \notin terminating, NEW step \in Own, Asked(step, c) PROVE UpToDate(step, c)
  <2>1. KeyFor(step, c) \in Keys
    BY HomeFacts DEF Serving, Guarded
  <2> QED BY <1>3, <1>4, <1>5, <2>1 DEF Done, Kept
<1> QED BY <1>3, <1>5 DEF Done, Converged, UpToDate, Own

\* Whenever the operator has nothing left to do, every HigressController that
\* stays has the objects its spec describes and is reported as deployed, and one
\* that was deleted is gone: whatever users edited, whichever other calls failed,
\* and wherever the process died.
THEOREM SettledConverges ==
    ASSUME Hypotheses PROVE Spec => []SettledIsConverged
<1>1. Init => Serving
  BY InitServes
<1>2. Serving /\ [Next]_vars => Serving'
  BY StepServes
<1>3. Serving => SettledIsConverged
  BY SettledIsServed
<1> QED BY <1>1, <1>2, <1>3, PTL DEF Spec
=============================================================================
