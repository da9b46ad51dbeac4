---------------------- MODULE GatewayConvergenceProofs ----------------------
(***************************************************************************)
(* The operator is level triggered: whatever was interrupted, refused,     *)
(* delayed or deleted by hand, once nothing is left to do every gateway    *)
(* that stays has the objects its spec describes.  The invariant says, of  *)
(* every stored gateway, who is going to see to it: the queue or an        *)
(* undelivered event, the pass that is under way, or nobody, and then it   *)
(* is as it should be.  Each hypothesis below excludes one way in which    *)
(* nobody does, and TLC finds a counterexample for each that is dropped.   *)
(***************************************************************************)
EXTENDS GatewayRefinementProofs

\* Reconcile drops the error of the namespace read.
NamespaceReadsSucceed == "namespace" \notin FailingSteps

\* A stale copy of an object leads to a conflict and a retry, or its event is
\* watched for.  Nobody watches the bindings.
StaleReadsAreWatched == LaggingKinds \subseteq WatchedKinds

\* What nobody watches, nobody deletes by hand.
DriftIsWatched == DriftKinds \subseteq WatchedKinds

\* No edit clears the address of a load balancer, nor sets one that was empty.
AddressesAreKept ==
    \A g \in Gateways : \A s, t \in DefaultedSpecs(g) :
        s.service.loadBalancerIP = "" <=> t.service.loadBalancerIP = ""

Hypotheses ==
    /\ NamespaceReadsSucceed
    /\ StaleReadsAreWatched
    /\ DriftIsWatched
    /\ SubjectsAreDistinct
    /\ AddressesAreKept

-----------------------------------------------------------------------------
\* The invariant.

\* The gateway is queued, or the event of its last change will queue it.
Attended(g) == g \in queue \/ gatewayCache[g].version < gateways[g].version

Working(g) == pc # "idle" /\ req = g
Passing(g) == Working(g) /\ instance.version = gateways[g].version

Home(kind, g) == KeyOf(kind, g, StoredSpec(g))

\* A watched object whose gateway will be queued: an event is under way, or the
\* object belongs to an older incarnation and will be collected.
Disturbed(k, g) == k.kind \in WatchedKinds /\ (g \in pending[k] \/ Garbage(k))

Kept(kind, g) == Asked(kind, g) => UpToDate(kind, g) \/ Disturbed(Home(kind, g), g)

Done(g) ==
    /\ Live(g)
    /\ g.ns \notin terminating =>
          gateways[g].content.deployed /\ \A kind \in Kinds : Kept(kind, g)

\* What the pass under way has behind it.
Progressed(g) ==
    pc \in EnsureSteps /\ g.ns \notin terminating =>
        \A kind \in Kinds : Order[kind] < Order[pc] => Kept(kind, g)

Served(g) ==
    Exists(gateways[g]) =>
        \/ Attended(g)
        \/ Passing(g) /\ Progressed(g)
        \/ ~Working(g) /\ Done(g)

\* The worker's instance is the stored gateway with its defaults, or outdated.
InstanceMirrors ==
    pc # "idle" /\ instance.version = gateways[req].version =>
        /\ Exists(gateways[req])
        /\ instance.content.spec = StoredSpec(req)
        /\ instance.content.uid = gateways[req].content.uid
        /\ instance.content.deployed = gateways[req].content.deployed

\* An event waits only while the informer lags behind.
EventsAreDue ==
    \A k \in Keys : pending[k] # {} =>
        k.kind \in WatchedKinds /\ objectCache[k].version < objects[k].version

BelongsTo(k, g) == k.kind \in WatchedKinds /\ \E s \in DefaultedSpecs(g) : k = KeyOf(k.kind, g, s)

\* A watched object belongs to the gateway whose name it bears.
OwnersAreRight ==
    \A k \in Keys, g \in Gateways :
        Exists(objects[k]) /\ BelongsTo(k, g) => objects[k].content.owner.gateway = g

\* A Service has an address if and only if its gateway asks for one.
AddressesAreRight ==
    \A k \in Keys, g \in Gateways : \A s \in DefaultedSpecs(g) :
        Exists(objects[k]) /\ k.kind = "Service" /\ k = KeyOf("Service", g, s) =>
            (objects[k].content.loadBalancerIP = "" <=> s.service.loadBalancerIP = "")

Tidy == EventsAreDue /\ OwnersAreRight /\ AddressesAreRight

Serving ==
    /\ Guarded
    /\ DeletionIsGuarded
    /\ InstanceMirrors
    /\ Tidy
    /\ \A g \in Gateways : Served(g)

-----------------------------------------------------------------------------
\* Keys and specs.

\* The key of an object names its kind, and but for roles and bindings its gateway.
LEMMA KeysDiffer ==
    ASSUME SubjectsAreDistinct, NEW f \in Gateways, NEW g \in Gateways,
           NEW d \in DefaultedSpecs(f), NEW e \in DefaultedSpecs(g),
           NEW kind \in Kinds, NEW other \in Kinds,
           KeyOf(kind, f, d) = KeyOf(other, g, e)
    PROVE  /\ kind = other
           /\ kind \in WatchedKinds \cup {"ConfigMap"} => f = g
<1>1. kind = other
  <2>1. KeyOf(kind, f, d).kind = kind
    BY KeyFacts
  <2>2. KeyOf(other, g, e).kind = other
    BY KeyFacts
  <2> QED BY <2>1, <2>2
<1>2. ASSUME kind = "ServiceAccount" PROVE f = g
  <2>1. Key(kind, f.ns, getServiceAccount(f, d)) = Key(kind, g.ns, getServiceAccount(g, e))
    BY <1>1, <1>2 DEF KeyOf
  <2>2. Subject(f, d) = Subject(g, e)
    BY <2>1 DEF Key, Subject
  <2> QED BY <2>2 DEF SubjectsAreDistinct
<1>3. ASSUME kind \in {"ConfigMap", "Deployment", "Service"} PROVE f = g
  <2>1. Key(kind, f.ns, f.name) = Key(kind, g.ns, g.name)
    BY <1>1, <1>3 DEF KeyOf
  <2>2. f.ns = g.ns /\ f.name = g.name
    BY <2>1 DEF Key
  <2> QED BY <2>2, GatewaysAssumption
<1> QED BY <1>1, <1>2, <1>3 DEF WatchedKinds

\* A stored gateway asks for what its spec with the defaults says.
LEMMA HomeFacts ==
    ASSUME TypeOK, NEW g \in Gateways, Exists(gateways[g]), NEW kind \in Kinds
    PROVE  /\ StoredSpec(g) \in DefaultedSpecs(g)
           /\ Home(kind, g) \in Keys
           /\ Home(kind, g).kind = kind
           /\ gateways[g].content \in GatewayContent(StoredSpecs(g))
<1>1. gateways[g].content \in GatewayContent(StoredSpecs(g))
  BY DEF TypeOK, Object, Exists
<1>2. StoredSpec(g) \in DefaultedSpecs(g)
  BY <1>1, DefaultsAreIdempotent DEF StoredSpec, GatewayContent
<1> QED BY <1>1, <1>2, KeyFacts DEF Home

\* A namespaced object is in the namespace of its gateway, the others in none.
LEMMA HomeNamespace ==
    ASSUME NEW g \in Gateways, NEW s, NEW kind \in Kinds
    PROVE  KeyOf(kind, g, s).ns \in {"", g.ns}
BY KindsAssumption DEF KeyOf, Key, AllKinds

-----------------------------------------------------------------------------
\* One write of one object, and the events it leaves behind.

Lands(k, object) ==
    /\ \A l \in Keys : objects'[l] = IF l = k THEN object ELSE objects[l]
    /\ \A l \in Keys : pending'[l] =
          IF l = k /\ object # objects[k]
          THEN pending[k] \cup OwnersOf(k, objects[k]) \cup OwnersOf(k, object)
          ELSE pending[l]

\* Store lands what it is given; what writes nothing lands what is there.
LEMMA StoreLands ==
    ASSUME TypeOK, NEW k \in Keys, NEW object, Store(k, object) PROVE Lands(k, object)
BY DEF Store, Lands, TypeOK

\* A write that is not made leaves the object where it is.
LEMMA NothingLands ==
    ASSUME TypeOK, NEW k \in Keys, UNCHANGED <<objects, pending>> PROVE Lands(k, objects[k])
BY DEF Lands

-----------------------------------------------------------------------------
\* What a step of Reconcile makes of the object it is about.

OwnerKept(before) == IF Exists(before) THEN before.content.owner ELSE Owner(req, uid)
SubjectsOf(before) == IF Exists(before) THEN before.content.subjects ELSE {}

Makes(kind, before, content) ==
    CASE kind = "ServiceAccount" ->
            content = IF Exists(before) THEN before.content ELSE initServiceAccount(req, uid)
      [] kind \in {"ClusterRole", "Role"} -> content = initRules
      [] kind \in {"ClusterRoleBinding", "RoleBinding"} ->
            content.subjects = SubjectsOf(before) \cup {Subject(req, wanted)}
      [] kind = "ConfigMap" -> content.mesh = GatewayConfigMap(req, wanted).mesh
      [] kind = "Deployment" ->
            \E env \in Orderings(wanted.env) :
                content = updateDeploymentSpec(req, wanted, OwnerKept(before), env)
      [] kind = "Service" ->
            content = IF Exists(before) THEN updateServiceSpec(before.content, wanted)
                      ELSE initService(req, uid, wanted)

Ensured(object) == Exists(object) /\ Makes(pc, objects[keyOf(pc)], object.content)

\* All that a call for an object may do: it leaves the object and tries again
\* later, or it leaves what it is for, and goes on unless the answer is lost.
Ensures ==
    /\ pc \in Kinds
    /\ UNCHANGED <<gateways, terminating, gatewayCache, objectCache>>
    /\ \E object :
        /\ Lands(keyOf(pc), object)
        /\ \/ object = objects[keyOf(pc)] /\ Retry
           \/ Ensured(object) /\ (Retry \/ (Continue /\ UNCHANGED instance))

\* A call that does what it is for if it is answered without an error.
LEMMA CallEnsures ==
    ASSUME TypeOK, pc \in Kinds, pc # "idle", NEW answer,
           answer.object = objects[keyOf(pc)] \/ Ensured(answer.object),
           answer.ok => Ensured(answer.object),
           CallForObject(keyOf(pc), answer)
    PROVE  Ensures
<1> DEFINE k == keyOf(pc)
           result == Admitted(k, answer)
<1>1. k \in Keys
  BY KeyOfFacts
<1>2. /\ result.object = objects[k] \/ Ensured(result.object)
      /\ result.ok => Ensured(result.object)
  <2>1. result = answer \/ result = [ok |-> FALSE, object |-> objects[k]]
    BY DEF Admitted
  <2> QED BY <2>1
<1>3. UNCHANGED <<gateways, terminating, gatewayCache, objectCache>>
  BY DEF CallForObject
<1>4. \/ Store(k, result.object) /\ IF result.ok THEN Continue /\ UNCHANGED instance ELSE Retry
      \/ Store(k, result.object) /\ Retry
      \/ UNCHANGED <<objects, pending>> /\ Retry
  BY DEF CallForObject
<1> HIDE DEF k, result
<1>5. CASE Store(k, result.object) /\ IF result.ok THEN Continue /\ UNCHANGED instance ELSE Retry
  <2>1. Lands(k, result.object)
    BY <1>1, <1>5, StoreLands
  <2> QED BY <1>2, <1>3, <1>5, <2>1 DEF Ensures, k
<1>6. CASE Store(k, result.object) /\ Retry
  <2>1. Lands(k, result.object)
    BY <1>1, <1>6, StoreLands
  <2> QED BY <1>2, <1>3, <1>6, <2>1 DEF Ensures, k
<1>7. CASE UNCHANGED <<objects, pending>> /\ Retry
  <2>1. Lands(k, objects[k])
    BY <1>1, <1>7, NothingLands
  <2> QED BY <1>3, <1>7, <2>1 DEF Ensures, k
<1> QED BY <1>4, <1>5, <1>6, <1>7

\* CreateOrUpdate without an error leaves what it was given; read from the
\* server, that includes the case in which it has nothing to send.
LEMMA CreateOrUpdateLeaves ==
    ASSUME NEW object, NEW seen, NEW fresh, NEW mutated, NEW forced \in BOOLEAN,
           fresh # Nothing, Exists(seen) => mutated # Nothing,
           Follows(seen, object), ~forced => seen = object
    PROVE  LET answer == CreateOrUpdate(object, seen, fresh, mutated, forced)
               left == /\ Exists(answer.object)
                       /\ answer.object.content = IF Exists(object) THEN mutated ELSE fresh
                       /\ Exists(object) => Exists(seen) /\ seen.content = object.content
           IN  (answer.object = object \/ left) /\ (answer.ok => left)
<1> DEFINE answer == CreateOrUpdate(object, seen, fresh, mutated, forced)
           left == /\ Exists(answer.object)
                   /\ answer.object.content = IF Exists(object) THEN mutated ELSE fresh
                   /\ Exists(object) => Exists(seen) /\ seen.content = object.content
<1> SUFFICES (answer.object = object \/ left) /\ (answer.ok => left)
  OBVIOUS
<1>1. \A content : Written(object, content).content = content
  BY DEF Written
<1>2. CASE ~Exists(seen)
  <2>1. answer = [ok |-> ~Exists(object),
                  object |-> IF ~Exists(object) THEN Written(object, fresh) ELSE object]
    BY <1>2 DEF CreateOrUpdate, Create, Answer
  <2> HIDE DEF answer
  <2>2. CASE Exists(object)
    BY <2>1, <2>2
  <2>3. CASE ~Exists(object)
    <3>1. answer.object.content = fresh
      BY <2>1, <2>3, <1>1
    <3> QED BY <2>3, <3>1 DEF Exists
  <2> QED BY <2>2, <2>3
<1>3. CASE Exists(seen) /\ (forced \/ mutated # seen.content)
  <2> DEFINE accepted == Exists(object) /\ object.version = seen.version
  <2>1. answer = [ok |-> accepted,
                  object |-> IF accepted THEN Written(object, mutated) ELSE object]
    BY <1>3 DEF CreateOrUpdate, Update, Answer, AcceptsVersion
  <2> HIDE DEF answer
  <2>2. CASE ~accepted
    BY <2>1, <2>2
  <2>3. CASE accepted
    <3>1. answer.object.content = mutated
      BY <2>1, <2>3, <1>1
    <3>2. seen.content = object.content
      BY <2>3 DEF Follows
    <3> QED BY <2>3, <3>1, <3>2, <1>3 DEF Exists
  <2> QED BY <2>2, <2>3
<1>4. CASE Exists(seen) /\ ~(forced \/ mutated # seen.content)
  <2>1. answer.object = object
    BY <1>4 DEF CreateOrUpdate
  <2>2. seen = object
    BY <1>4
  <2> QED BY <1>4, <2>1, <2>2
<1> QED BY <1>2, <1>3, <1>4

-----------------------------------------------------------------------------
\* The contents the steps build are contents of their kind.

\* The contents that do not depend on a stored object.
LEMMA FreshTypes ==
    ASSUME NEW g \in Gateways, NEW d \in DefaultedSpecs(g), NEW u \in Nat
    PROVE  /\ initServiceAccount(g, u) \in ContentOf("ServiceAccount")
           /\ \A kind \in {"ClusterRole", "Role"} : initRules \in ContentOf(kind)
           /\ initClusterRoleBinding(g, d) \in ContentOf("ClusterRoleBinding")
           /\ initRoleBinding(g, d) \in ContentOf("RoleBinding")
           /\ GatewayConfigMap(g, d) \in ContentOf("ConfigMap")
           /\ initService(g, u, d) \in ContentOf("Service")
           /\ Owner(g, u) \in Owners
<1>1. Owner(g, u) \in Owners /\ Subject(g, d) \in Subjects
  BY DEF Owner, Owners, Subjects
<1>2. initServiceAccount(g, u) \in ContentOf("ServiceAccount")
  BY <1>1 DEF initServiceAccount, ContentOf
<1>3. \A kind \in {"ClusterRole", "Role"} : initRules \in ContentOf(kind)
  BY DEF initRules, ContentOf
<1>4. initClusterRoleBinding(g, d) \in ContentOf("ClusterRoleBinding")
  BY <1>1 DEF initClusterRoleBinding, ContentOf
<1>5. initRoleBinding(g, d) \in ContentOf("RoleBinding")
  BY <1>1 DEF initRoleBinding, ContentOf
<1>6. /\ d.labelled \in BOOLEAN /\ d.selector \in Text /\ d.config \in Text
      /\ d.discoveryAddress \in Text /\ d.service.loadBalancerIP \in Text
      /\ g.name \in Text
  BY DefaultedFacts, GatewaysAssumption DEF ServiceSpec, Name
<1>7. initService(g, u, d) \in ContentOf("Service")
  BY <1>1, <1>6 DEF initService, ContentOf
<1>8. GatewayConfigMap(g, d) \in ContentOf("ConfigMap")
  BY ConfigMapIsAddressed
<1> QED BY <1>1, <1>2, <1>3, <1>4, <1>5, <1>7, <1>8

\* The Deployment of a gateway, whoever owns it.
LEMMA DeploymentTypes ==
    ASSUME NEW g \in Gateways, NEW d \in DefaultedSpecs(g),
           NEW owner \in Owners, NEW env \in Orderings(d.env)
    PROVE  updateDeploymentSpec(g, d, owner, env) \in ContentOf("Deployment")
<1>1. PICK s \in Specs : d.env = s.env
  BY DefaultedFacts
<1>2. env \in Environments
  BY <1>1 DEF Environments
<1>3. d.serviceAccount \in ServiceAccountSpec /\ d.selector \in Text /\ d.config \in Text
  BY DefaultedFacts
<1> QED BY <1>2, <1>3 DEF updateDeploymentSpec, ContentOf, ServiceAccountSpec, Text

\* The contents that are made from a stored one, and what the change leaves of it.
LEMMA MutedFacts ==
    ASSUME NEW g \in Gateways, NEW d \in DefaultedSpecs(g)
    PROVE  /\ \A kind \in {"ClusterRole", "Role"} :
                \A c \in ContentOf(kind) : muteRules(c) = initRules
           /\ \A c \in ContentOf("ClusterRoleBinding") :
                /\ updateClusterRoleBinding(c, g, d) \in ContentOf("ClusterRoleBinding")
                /\ updateClusterRoleBinding(c, g, d).subjects = c.subjects \cup {Subject(g, d)}
           /\ \A c \in ContentOf("RoleBinding") :
                /\ updateRoleBinding(c, g, d) \in ContentOf("RoleBinding")
                /\ updateRoleBinding(c, g, d).subjects = c.subjects \cup {Subject(g, d)}
           /\ \A c \in ContentOf("ConfigMap") : \A m \in ContentOf("ConfigMap") :
                /\ [c EXCEPT !.mesh = m.mesh] \in ContentOf("ConfigMap")
                /\ [c EXCEPT !.mesh = m.mesh].mesh = m.mesh
           /\ \A c \in ContentOf("Service") : updateServiceSpec(c, d) \in ContentOf("Service")
<1>1. Subject(g, d) \in Subjects
  BY DEF Subjects
<1>2. ASSUME NEW kind \in {"ClusterRole", "Role"}, NEW c \in ContentOf(kind)
      PROVE  muteRules(c) = initRules
  BY <1>2 DEF muteRules, initRules, ContentOf
<1>3. ASSUME NEW c \in ContentOf("ClusterRoleBinding")
      PROVE  /\ updateClusterRoleBinding(c, g, d) \in ContentOf("ClusterRoleBinding")
             /\ updateClusterRoleBinding(c, g, d).subjects = c.subjects \cup {Subject(g, d)}
  BY <1>1 DEF updateClusterRoleBinding, ContentOf
<1>4. ASSUME NEW c \in ContentOf("RoleBinding")
      PROVE  /\ updateRoleBinding(c, g, d) \in ContentOf("RoleBinding")
             /\ updateRoleBinding(c, g, d).subjects = c.subjects \cup {Subject(g, d)}
  BY <1>1 DEF updateRoleBinding, ContentOf
<1>5. ASSUME NEW c \in ContentOf("ConfigMap"), NEW m \in ContentOf("ConfigMap")
      PROVE  /\ [c EXCEPT !.mesh = m.mesh] \in ContentOf("ConfigMap")
             /\ [c EXCEPT !.mesh = m.mesh].mesh = m.mesh
  BY DEF ContentOf
<1>6. ASSUME NEW c \in ContentOf("Service")
      PROVE  updateServiceSpec(c, d) \in ContentOf("Service")
  <2>1. d.selector \in Text /\ d.config \in Text /\ d.service.loadBalancerIP \in Text
    BY DefaultedFacts DEF ServiceSpec
  <2> QED BY <2>1 DEF updateServiceSpec, ContentOf
<1> QED BY <1>2, <1>3, <1>4, <1>5, <1>6

-----------------------------------------------------------------------------
\* The steps that create and update, one by one.

\* What the step reads is what is stored, or its informer is watched.
ReadIsWatched == pc \in LaggingKinds => pc \in WatchedKinds

\* What the steps that read from the server do: all but createServiceAccount.
LEMMA CreateOrUpdateEnsures ==
    ASSUME ReadIsWatched, TypeOK, CachesFollow, pc \in Kinds, pc # "idle",
           NEW k, k = keyOf(pc), NEW fresh \in ContentOf(pc), NEW mutated \in ContentOf(pc),
           pc \in WatchedKinds => Forced(k),
           ~Exists(objects[k]) => Makes(pc, objects[k], fresh),
           Exists(Seen(k)) /\ Seen(k).content = objects[k].content =>
                Makes(pc, objects[k], mutated),
           CallForObject(k, CreateOrUpdate(objects[k], Seen(k), fresh, mutated, Forced(k)))
    PROVE  Ensures
<1> DEFINE answer == CreateOrUpdate(objects[k], Seen(k), fresh, mutated, Forced(k))
<1>1. k \in Keys /\ k.kind = pc /\ Forced(k) \in BOOLEAN
  <2>1. k \in Keys /\ k.kind = pc
    BY KeyOfFacts
  <2>2. Forced(k) \in BOOLEAN
    BY DEF Forced
  <2> QED BY <2>1, <2>2
<1>2. Nothing \notin ContentOf(pc)
  BY NothingAssumption
<1>3. ~Forced(k) => Seen(k) = objects[k]
  BY <1>1 DEF Seen, ReadIsWatched
<1>4. Follows(Seen(k), objects[k])
  BY <1>1, SeenFacts
<1>5. LET left == /\ Exists(answer.object)
                  /\ answer.object.content = IF Exists(objects[k]) THEN mutated ELSE fresh
                  /\ Exists(objects[k]) => Exists(Seen(k)) /\ Seen(k).content = objects[k].content
      IN  (answer.object = objects[k] \/ left) /\ (answer.ok => left)
  BY <1>1, <1>2, <1>3, <1>4, CreateOrUpdateLeaves
<1>6. CallForObject(k, answer)
  OBVIOUS
<1> HIDE DEF answer
<1>7. /\ answer.object = objects[k] \/ Ensured(answer.object)
      /\ answer.ok => Ensured(answer.object)
  BY <1>5 DEF Ensured
<1> QED BY <1>6, <1>7, CallEnsures

\* createServiceAccount leaves a service account: its own, or what was there.
LEMMA AccountEnsures ==
    ASSUME TypeOK, CachesFollow, createServiceAccount PROVE Ensures
<1> DEFINE k == keyOf(pc)
           fresh == initServiceAccount(req, uid)
           answer == CreateIfNotExists(objects[k], fresh)
<1>1. pc = "ServiceAccount" /\ pc \in Kinds /\ pc # "idle"
  BY DEF createServiceAccount, TypeOK, AllKinds
<1>2. fresh # Nothing
  <2>1. fresh \in ContentOf(pc)
    BY <1>1, WorkerFacts, FreshTypes
  <2> QED BY <1>1, <2>1, NothingAssumption
<1>3. answer.object = IF Exists(objects[k]) THEN objects[k] ELSE Written(objects[k], fresh)
  BY DEF CreateIfNotExists, Create, Answer
<1>4. Written(objects[k], fresh).content = fresh
  BY DEF Written
<1>5. Exists(answer.object)
      /\ answer.object.content = IF Exists(objects[k]) THEN objects[k].content ELSE fresh
  BY <1>2, <1>3, <1>4 DEF Exists
<1>6. Ensured(answer.object)
  BY <1>1, <1>5 DEF Ensured, Makes
<1>7. CallForObject(k, answer)
  BY DEF createServiceAccount
<1> HIDE DEF answer
<1> QED BY <1>1, <1>6, <1>7, CallEnsures DEF k

\* The object a step is about has the type of its kind, as the worker sees it.
LEMMA SeenTypes ==
    ASSUME TypeOK, CachesFollow, pc \in Kinds, pc # "idle", Exists(Seen(keyOf(pc)))
    PROVE  Seen(keyOf(pc)).content \in ContentOf(pc)
BY KeyOfFacts, SeenFacts DEF Object, Exists

\* createClusterRole and createRole leave the rules.
LEMMA RulesEnsure ==
    ASSUME ReadIsWatched, TypeOK, CachesFollow, createClusterRole \/ createRole
    PROVE  Ensures
<1> DEFINE k == keyOf(pc)
           mutated == IF Exists(Seen(k)) THEN muteRules(Seen(k).content) ELSE initRules
<1>1. pc \in {"ClusterRole", "Role"} /\ pc \in Kinds /\ pc # "idle"
  BY DEF createClusterRole, createRole, TypeOK, AllKinds
<1>2. initRules \in ContentOf(pc)
  BY <1>1, WorkerFacts, FreshTypes
<1>3. mutated = initRules
  BY <1>1, WorkerFacts, SeenTypes, MutedFacts
<1>4. CallForObject(k, CreateOrUpdate(objects[k], Seen(k), initRules, mutated, Forced(k)))
  BY DEF createClusterRole, createRole, CreateOrUpdateObject
<1>5. Makes(pc, objects[k], initRules) /\ pc \notin WatchedKinds
  BY <1>1 DEF Makes, WatchedKinds
<1> HIDE DEF mutated
<1> QED BY <1>1, <1>2, <1>3, <1>4, <1>5, CreateOrUpdateEnsures

\* createClusterRoleBinding leaves its subject with those that were there.
LEMMA ClusterRoleBindingEnsures ==
    ASSUME ReadIsWatched, TypeOK, CachesFollow, createClusterRoleBinding
    PROVE  Ensures
<1> DEFINE k == keyOf(pc)
           fresh == initClusterRoleBinding(req, wanted)
           mutated == IF Exists(Seen(k))
                      THEN updateClusterRoleBinding(Seen(k).content, req, wanted) ELSE fresh
<1>1. pc = "ClusterRoleBinding" /\ pc \in Kinds /\ pc # "idle" /\ pc \notin WatchedKinds
  BY DEF createClusterRoleBinding, TypeOK, AllKinds, WatchedKinds
<1>2. fresh \in ContentOf(pc)
  BY <1>1, WorkerFacts, FreshTypes
<1>3. Exists(Seen(k)) =>
        /\ mutated \in ContentOf(pc)
        /\ mutated.subjects = Seen(k).content.subjects \cup {Subject(req, wanted)}
  BY <1>1, WorkerFacts, SeenTypes, MutedFacts
<1>4. mutated \in ContentOf(pc)
  BY <1>2, <1>3
<1>5. CallForObject(k, CreateOrUpdate(objects[k], Seen(k), fresh, mutated, Forced(k)))
  BY DEF createClusterRoleBinding, CreateOrUpdateObject
<1>6. ~Exists(objects[k]) => Makes(pc, objects[k], fresh)
  BY <1>1 DEF Makes, SubjectsOf, initClusterRoleBinding
<1> HIDE DEF fresh, mutated
<1>7. Exists(Seen(k)) /\ Seen(k).content = objects[k].content => Makes(pc, objects[k], mutated)
  BY <1>1, <1>3 DEF Makes, SubjectsOf, Exists
<1> QED BY <1>1, <1>2, <1>4, <1>5, <1>6, <1>7, CreateOrUpdateEnsures

\* createRoleBinding does the same in the namespace.
LEMMA RoleBindingEnsures ==
    ASSUME ReadIsWatched, TypeOK, CachesFollow, createRoleBinding
    PROVE  Ensures
<1> DEFINE k == keyOf(pc)
           fresh == initRoleBinding(req, wanted)
           mutated == IF Exists(Seen(k))
                      THEN updateRoleBinding(Seen(k).content, req, wanted) ELSE fresh
<1>1. pc = "RoleBinding" /\ pc \in Kinds /\ pc # "idle" /\ pc \notin WatchedKinds
  BY DEF createRoleBinding, TypeOK, AllKinds, WatchedKinds
<1>2. fresh \in ContentOf(pc)
  BY <1>1, WorkerFacts, FreshTypes
<1>3. Exists(Seen(k)) =>
        /\ mutated \in ContentOf(pc)
        /\ mutated.subjects = Seen(k).content.subjects \cup {Subject(req, wanted)}
  BY <1>1, WorkerFacts, SeenTypes, MutedFacts
<1>4. mutated \in ContentOf(pc)
  BY <1>2, <1>3
<1>5. CallForObject(k, CreateOrUpdate(objects[k], Seen(k), fresh, mutated, Forced(k)))
  BY DEF createRoleBinding, CreateOrUpdateObject
<1>6. ~Exists(objects[k]) => Makes(pc, objects[k], fresh)
  BY <1>1 DEF Makes, SubjectsOf, initRoleBinding
<1> HIDE DEF fresh, mutated
<1>7. Exists(Seen(k)) /\ Seen(k).content = objects[k].content => Makes(pc, objects[k], mutated)
  BY <1>1, <1>3 DEF Makes, SubjectsOf, Exists
<1> QED BY <1>1, <1>2, <1>4, <1>5, <1>6, <1>7, CreateOrUpdateEnsures

\* createConfigMap leaves the mesh configuration of its second pass over it.
LEMMA ConfigMapEnsures ==
    ASSUME ReadIsWatched, TypeOK, CachesFollow, createConfigMap
    PROVE  Ensures
<1> DEFINE k == keyOf(pc)
           fresh == GatewayConfigMap(req, wanted)
           mutated == IF Exists(Seen(k))
                      THEN [Seen(k).content EXCEPT !.mesh = fresh.mesh] ELSE fresh
<1>1. pc = "ConfigMap" /\ pc \in Kinds /\ pc # "idle" /\ pc \notin WatchedKinds
  BY DEF createConfigMap, TypeOK, AllKinds, WatchedKinds
<1>2. fresh \in ContentOf(pc)
  BY <1>1, WorkerFacts, FreshTypes
<1>3. mutated \in ContentOf(pc) /\ mutated.mesh = fresh.mesh
  <2>1. CASE Exists(Seen(k))
    BY <1>1, <1>2, <2>1, WorkerFacts, SeenTypes, MutedFacts
  <2>2. CASE ~Exists(Seen(k))
    BY <1>2, <2>2
  <2> QED BY <2>1, <2>2
<1>4. CallForObject(k, CreateOrUpdate(objects[k], Seen(k), fresh, mutated, Forced(k)))
  BY DEF createConfigMap, CreateOrUpdateObject
<1> HIDE DEF mutated
<1>5. Makes(pc, objects[k], fresh) /\ Makes(pc, objects[k], mutated)
  BY <1>1, <1>3 DEF Makes
<1> HIDE DEF fresh
<1> QED BY <1>1, <1>2, <1>3, <1>4, <1>5, CreateOrUpdateEnsures

\* createDeployment leaves the Deployment of the spec, with the owner it had.
LEMMA DeploymentEnsures ==
    ASSUME ReadIsWatched, TypeOK, CachesFollow, createDeployment
    PROVE  Ensures
<1> DEFINE k == keyOf(pc)
           Deploy(owner, env) == updateDeploymentSpec(req, wanted, owner, env)
<1>1. pc = "Deployment" /\ pc \in Kinds /\ pc # "idle"
  BY DEF createDeployment, TypeOK, AllKinds
<1>2. PICK env \in Orderings(wanted.env) :
        CallForObject(k, CreateOrUpdate(objects[k], Seen(k), Deploy(Owner(req, uid), env),
            IF Exists(Seen(k)) THEN Deploy(Seen(k).content.owner, env)
            ELSE Deploy(Owner(req, uid), env), Forced(k)))
  BY DEF createDeployment, CreateOrUpdateObject
<1> DEFINE fresh == Deploy(Owner(req, uid), env)
           mutated == IF Exists(Seen(k)) THEN Deploy(Seen(k).content.owner, env) ELSE fresh
<1>3. Exists(Seen(k)) => Seen(k).content.owner \in Owners
  <2>1. Exists(Seen(k)) => Seen(k).content \in ContentOf("Deployment")
    BY <1>1, SeenTypes
  <2> QED BY <2>1 DEF ContentOf
<1>4. fresh \in ContentOf(pc) /\ mutated \in ContentOf(pc)
  BY <1>1, <1>3, WorkerFacts, DeploymentTypes
<1>5. ~Exists(objects[k]) => Makes(pc, objects[k], fresh)
  BY <1>1 DEF Makes, OwnerKept
<1>6. Exists(Seen(k)) /\ Seen(k).content = objects[k].content => Makes(pc, objects[k], mutated)
  BY <1>1 DEF Makes, OwnerKept, Exists
<1>7. Forced(k)
  BY <1>1, KeyOfFacts DEF Forced
<1>8. CallForObject(k, CreateOrUpdate(objects[k], Seen(k), fresh, mutated, Forced(k)))
  BY <1>2
<1> HIDE DEF fresh, mutated
<1> QED BY <1>1, <1>4, <1>5, <1>6, <1>7, <1>8, CreateOrUpdateEnsures

\* createService leaves the Service of the spec, or the process dies.
LEMMA ServiceEnsures ==
    ASSUME ReadIsWatched, TypeOK, CachesFollow, createService
    PROVE  Ensures \/ (Restart /\ UNCHANGED serverVars)
<1> DEFINE k == keyOf("Service")
           fresh == initService(req, uid, wanted)
           mutated == IF Exists(Seen(k)) THEN updateServiceSpec(Seen(k).content, wanted) ELSE fresh
<1>1. pc = "Service" /\ pc \in Kinds /\ pc # "idle"
  BY DEF createService, TypeOK, AllKinds
<1>2. fresh \in ContentOf(pc)
  BY <1>1, WorkerFacts, FreshTypes
<1>3. mutated \in ContentOf(pc)
  BY <1>1, <1>2, WorkerFacts, SeenTypes, MutedFacts
<1>4. \/ CallForObject(k, CreateOrUpdate(objects[k], Seen(k), fresh, mutated, Forced(k)))
      \/ Restart /\ UNCHANGED serverVars
  BY DEF createService, CreateOrUpdateObject
<1>5. ~Exists(objects[k]) => Makes(pc, objects[k], fresh)
  BY <1>1 DEF Makes
<1>6. Exists(Seen(k)) /\ Seen(k).content = objects[k].content => Makes(pc, objects[k], mutated)
  BY <1>1 DEF Makes, Exists
<1>7. Forced(k)
  BY <1>1, KeyOfFacts DEF Forced
<1> HIDE DEF fresh, mutated
<1> QED BY <1>1, <1>2, <1>3, <1>4, <1>5, <1>6, <1>7, CreateOrUpdateEnsures

-----------------------------------------------------------------------------
\* Events, owners and addresses.

\* A change is a new version.
LEMMA ChangesAreNewer ==
    ASSUME NEW V, NEW a \in Object(V), NEW b \in Object(V), Advances(a, b), a # b
    PROVE  a.version < b.version
BY DEF Object, Advances

\* A watched object keeps its owner, or gets the gateway the pass is for.
LEMMA OwnerIsKept ==
    ASSUME TypeOK, pc # "idle", pc \in Kinds, pc \in WatchedKinds,
           NEW object, Ensured(object)
    PROVE  object.content.owner = OwnerKept(objects[keyOf(pc)])
<1> DEFINE before == objects[keyOf(pc)]
<1>1. Exists(before) => before.content \in ContentOf(pc)
  BY KeyOfFacts DEF TypeOK, Object, Exists
<1>2. CASE pc = "ServiceAccount"
  BY <1>2 DEF Ensured, Makes, OwnerKept, initServiceAccount
<1>3. CASE pc = "Deployment"
  <2>1. PICK env \in Orderings(wanted.env) :
          object.content = updateDeploymentSpec(req, wanted, OwnerKept(before), env)
    BY <1>3 DEF Ensured, Makes
  <2>2. updateDeploymentSpec(req, wanted, OwnerKept(before), env).owner = OwnerKept(before)
    BY DEF updateDeploymentSpec
  <2> QED BY <2>1, <2>2
<1>4. CASE pc = "Service"
  <2>1. \A c \in ContentOf("Service") : updateServiceSpec(c, wanted).owner = c.owner
    BY DEF updateServiceSpec, ContentOf
  <2>2. initService(req, uid, wanted).owner = Owner(req, uid)
    BY DEF initService
  <2> QED BY <1>1, <1>4, <2>1, <2>2 DEF Ensured, Makes, OwnerKept
<1> QED BY <1>2, <1>3, <1>4 DEF WatchedKinds

\* A Service keeps its address where its gateway asks for none.
LEMMA AddressIsKept ==
    ASSUME TypeOK, pc # "idle", pc \in Kinds, pc = "Service", NEW object, Ensured(object)
    PROVE  object.content.loadBalancerIP =
              LET before == objects[keyOf(pc)]
              IN  IF Exists(before) /\ wanted.service.loadBalancerIP = ""
                  THEN before.content.loadBalancerIP
                  ELSE wanted.service.loadBalancerIP
<1> DEFINE before == objects[keyOf(pc)]
<1>1. Exists(before) => before.content \in ContentOf("Service")
  BY KeyOfFacts DEF TypeOK, Object, Exists
<1>2. \A c \in ContentOf("Service") :
        updateServiceSpec(c, wanted).loadBalancerIP =
            IF wanted.service.loadBalancerIP = "" THEN c.loadBalancerIP
            ELSE wanted.service.loadBalancerIP
  BY DEF updateServiceSpec, ContentOf
<1>3. initService(req, uid, wanted).loadBalancerIP = wanted.service.loadBalancerIP
  BY DEF initService
<1> HIDE DEF before
<1>4. object.content = IF Exists(before) THEN updateServiceSpec(before.content, wanted)
                       ELSE initService(req, uid, wanted)
  BY DEF Ensured, Makes, before
<1>5. CASE Exists(before)
  BY <1>1, <1>2, <1>4, <1>5 DEF before
<1>6. CASE ~Exists(before)
  BY <1>3, <1>4, <1>6 DEF before
<1> QED BY <1>5, <1>6

\* What is written of a watched object is gone, or what the step is for.
WritesWatched(k) ==
    \/ objects'[k] = objects[k]
    \/ ~Exists(objects'[k])
    \/ pc \in Kinds /\ pc # "idle" /\ k = keyOf(pc) /\ Ensured(objects'[k])

\* Only the pass of a gateway writes the watched objects of that gateway.
LEMMA OwnIsWritten ==
    ASSUME SubjectsAreDistinct, TypeOK, pc \in Kinds, pc # "idle", pc \in WatchedKinds,
           NEW g \in Gateways, NEW s \in DefaultedSpecs(g),
           NEW k \in Keys, k = keyOf(pc), k = KeyOf(k.kind, g, s)
    PROVE  g = req /\ k.kind = pc
<1>1. k.kind = pc
  BY KeyOfFacts
<1>2. /\ KeyOf(pc, req, wanted) = KeyOf(pc, g, s)
      /\ wanted \in DefaultedSpecs(req) /\ req \in Gateways
  BY <1>1, WorkerFacts DEF keyOf
<1> QED BY <1>1, <1>2, KeysDiffer

\* Owners stay right: an object is created with the gateway of the pass as its
\* owner, and no update changes an owner.
LEMMA OwnersStay ==
    ASSUME SubjectsAreDistinct, TypeOK, OwnersAreRight,
           \A k \in Keys : k.kind \in WatchedKinds => WritesWatched(k)
    PROVE  OwnersAreRight'
<1> SUFFICES ASSUME NEW k \in Keys, NEW g \in Gateways, Exists(objects'[k]), BelongsTo(k, g)
             PROVE  objects'[k].content.owner.gateway = g
  BY DEF OwnersAreRight, BelongsTo, Exists
<1>1. CASE objects'[k] = objects[k]
  BY <1>1 DEF OwnersAreRight, Exists
<1>2. CASE pc \in Kinds /\ pc # "idle" /\ k = keyOf(pc) /\ Ensured(objects'[k])
  <2>1. PICK object : object = objects'[k]
    OBVIOUS
  <2>2. k.kind = pc /\ pc \in WatchedKinds
    BY <1>2, KeyOfFacts DEF BelongsTo
  <2>3. g = req
    BY <1>2, <2>2, OwnIsWritten DEF BelongsTo
  <2>4. object.content.owner = OwnerKept(objects[k])
    BY <1>2, <2>1, <2>2, OwnerIsKept
  <2>5. Exists(objects[k]) => objects[k].content.owner.gateway = g
    BY <1>2 DEF OwnersAreRight
  <2>6. Owner(req, uid).gateway = req
    BY DEF Owner
  <2> QED BY <2>1, <2>3, <2>4, <2>5, <2>6 DEF OwnerKept
<1> QED BY <1>1, <1>2 DEF BelongsTo, WritesWatched, Exists

\* What may land: nothing new, nothing at all, what the step is for, a binding.
MayLand(k, object) ==
    \/ object = objects[k]
    \/ ~Exists(object)
    \/ pc \in Kinds /\ pc # "idle" /\ k = keyOf(pc) /\ Ensured(object)
    \/ k.kind = "ClusterRoleBinding"

\* What lands keeps events, owners and addresses in order.
LEMMA TidyLands ==
    ASSUME SubjectsAreDistinct, AddressesAreKept, TypeOK, CachesFollow, TypeOK', Progress, Tidy,
           NEW k \in Keys, NEW object, Lands(k, object), MayLand(k, object),
           UNCHANGED objectCache
    PROVE  Tidy'
<1> DEFINE V == ContentOf(k.kind)
<1>1. /\ objects[k] \in Object(V) /\ object \in Object(V) /\ objectCache[k] \in Object(V)
      /\ Advances(objects[k], object)
  BY DEF TypeOK, Progress, Lands
<1>2. ASSUME NEW l \in Keys, pending'[l] # {}
      PROVE  l.kind \in WatchedKinds /\ objectCache'[l].version < objects'[l].version
  <2>1. CASE l = k /\ object # objects[k]
    <3>1. objects[k].version < object.version
      <4> HIDE DEF V
      <4> QED BY <1>1, <2>1, ChangesAreNewer
    <3>2. objectCache[k].version <= objects[k].version
      BY DEF CachesFollow, Follows
    <3>3. objectCache[k].version < object.version
      BY <1>1, <3>1, <3>2 DEF Object
    <3>4. k.kind \in WatchedKinds
      BY <1>2, <2>1 DEF Lands, OwnersOf, Tidy, EventsAreDue
    <3> QED BY <2>1, <3>3, <3>4 DEF Lands
  <2>2. CASE ~(l = k /\ object # objects[k])
    BY <1>2, <2>2 DEF Lands, Tidy, EventsAreDue
  <2> QED BY <2>1, <2>2
<1>3. ASSUME NEW l \in Keys, NEW g \in Gateways, NEW s \in DefaultedSpecs(g),
             Exists(objects'[l]), l.kind = "Service", l = KeyOf("Service", g, s)
      PROVE  objects'[l].content.loadBalancerIP = "" <=> s.service.loadBalancerIP = ""
  <2>1. CASE objects'[l] = objects[l]
    BY <1>3, <2>1 DEF Tidy, AddressesAreRight, Exists
  <2>2. CASE l = k /\ pc \in Kinds /\ pc # "idle" /\ k = keyOf(pc) /\ Ensured(object)
    <3>1. k.kind = pc /\ pc = "Service" /\ pc \in WatchedKinds
      BY <1>3, <2>2, KeyOfFacts DEF WatchedKinds
    <3>2. g = req /\ wanted \in DefaultedSpecs(g)
      BY <1>3, <2>2, <3>1, OwnIsWritten, WorkerFacts
    <3>3. object.content.loadBalancerIP =
            IF Exists(objects[k]) /\ wanted.service.loadBalancerIP = ""
            THEN objects[k].content.loadBalancerIP ELSE wanted.service.loadBalancerIP
      BY <2>2, <3>1, AddressIsKept
    <3>4. wanted.service.loadBalancerIP = "" <=> s.service.loadBalancerIP = ""
      BY <3>2 DEF AddressesAreKept
    <3>5. Exists(objects[k]) =>
            (objects[k].content.loadBalancerIP = "" <=> s.service.loadBalancerIP = "")
      BY <1>3, <2>2 DEF Tidy, AddressesAreRight
    <3> QED BY <2>2, <3>3, <3>4, <3>5 DEF Lands
  <2> QED BY <1>3, <2>1, <2>2 DEF Lands, MayLand
<1>4. OwnersAreRight'
  <2>1. ASSUME NEW l \in Keys, l.kind \in WatchedKinds PROVE WritesWatched(l)
    BY <2>1 DEF Lands, MayLand, WritesWatched, WatchedKinds
  <2> QED BY <2>1, OwnersStay DEF Tidy
<1>5. AddressesAreRight'
  BY <1>3 DEF AddressesAreRight, Exists
<1> QED BY <1>2, <1>4, <1>5 DEF Tidy, EventsAreDue

\* A step that moves no object and adds no event keeps them in order, too.
LEMMA TidyStays ==
    ASSUME TypeOK, Tidy, \A k \in Keys : objects'[k] = objects[k],
           \A k \in Keys : \/ pending'[k] = {}
                           \/ pending'[k] = pending[k] /\ objectCache'[k] = objectCache[k]
    PROVE  Tidy'
<1>1. EventsAreDue'
  BY DEF Tidy, EventsAreDue
<1>2. OwnersAreRight'
  BY DEF Tidy, OwnersAreRight, BelongsTo, Exists
<1>3. AddressesAreRight'
  BY DEF Tidy, AddressesAreRight, Exists
<1> QED BY <1>1, <1>2, <1>3 DEF Tidy

-----------------------------------------------------------------------------
\* What is as it should be stays so, or will be seen to.

\* The home of a gateway's watched object belongs to it.
LEMMA HomeBelongs ==
    ASSUME TypeOK, NEW g \in Gateways, Exists(gateways[g]), NEW kind \in Kinds,
           kind \in WatchedKinds
    PROVE  BelongsTo(Home(kind, g), g)
BY HomeFacts DEF BelongsTo, Home

\* Neither the gateway nor the object changes.
LEMMA KeptStays ==
    ASSUME TypeOK, Tidy, NEW g \in Gateways, Exists(gateways[g]),
           gateways'[g] = gateways[g], NEW kind \in Kinds, Kept(kind, g),
           objects'[Home(kind, g)] = objects[Home(kind, g)],
           g \in pending[Home(kind, g)] => g \in pending'[Home(kind, g)]
    PROVE  Kept(kind, g)'
<1>0. PICK h \in Keys : h = Home(kind, g)
  BY HomeFacts
<1>1. StoredSpec(g)' = StoredSpec(g)
  BY DEF StoredSpec
<1>2. Home(kind, g)' = Home(kind, g)
  BY <1>1 DEF Home
<1>3. Asked(kind, g)' <=> Asked(kind, g)
  BY <1>1 DEF Asked
<1>4. UpToDate(kind, g) => UpToDate(kind, g)'
  BY <1>1 DEF UpToDate, Describes, Exists, Home
<1>5. Disturbed(Home(kind, g), g) => Disturbed(Home(kind, g), g)'
  <2> SUFFICES ASSUME Disturbed(h, g) PROVE Disturbed(h, g)'
    BY <1>0, <1>2
  <2>1. CASE g \in pending[h]
    BY <1>0, <2>1 DEF Disturbed
  <2>2. CASE Garbage(h)
    <3>1. h.kind \in WatchedKinds /\ h.kind = kind
      BY <1>0, HomeFacts DEF Disturbed
    <3>2. objects[h].content.owner.gateway = g
      BY <1>0, <2>2, <3>1, HomeBelongs DEF Tidy, OwnersAreRight, Garbage
    <3>3. Garbage(h)'
      BY <1>0, <2>2, <3>2 DEF Garbage, OwnerLives, Exists
    <3> QED BY <3>1, <3>3 DEF Disturbed
  <2> QED BY <2>1, <2>2 DEF Disturbed
<1> QED BY <1>2, <1>3, <1>4, <1>5 DEF Kept

\* Whoever changes or deletes a watched object, its gateway hears of it.
LEMMA KeptIfWatched ==
    ASSUME TypeOK, Tidy, NEW g \in Gateways, Exists(gateways[g]),
           gateways'[g] = gateways[g], NEW kind \in Kinds, kind \in WatchedKinds,
           NEW object, Lands(Home(kind, g), object),
           Exists(objects[Home(kind, g)]), object # objects[Home(kind, g)]
    PROVE  Kept(kind, g)'
<1> DEFINE h == Home(kind, g)
<1>1. Home(kind, g)' = Home(kind, g)
  BY DEF Home, StoredSpec
<1>2. h \in Keys /\ h.kind = kind
  BY HomeFacts
<1>3. objects[h].content \in ContentOf(kind)
  BY <1>2 DEF TypeOK, Object, Exists
<1>4. objects[h].content.owner \in Owners
  BY <1>3 DEF ContentOf, WatchedKinds
<1>5. objects[h].content.owner # Nil
  BY <1>4, NothingAssumption
<1>6. objects[h].content.owner.gateway = g
  BY <1>2, HomeBelongs DEF Tidy, OwnersAreRight
<1>7. g \in OwnersOf(h, objects[h])
  BY <1>2, <1>5, <1>6 DEF OwnersOf
<1>8. g \in pending'[h]
  BY <1>2, <1>7 DEF Lands
<1> QED BY <1>1, <1>2, <1>8 DEF Kept, Disturbed

\* The pass of another gateway writes the same roles, adds to the bindings, and
\* leaves the rest alone.
LEMMA KeptByOthers ==
    ASSUME SubjectsAreDistinct, TypeOK, Tidy, pc \in Kinds, pc # "idle",
           NEW g \in Gateways, g # req, Exists(gateways[g]), gateways'[g] = gateways[g],
           NEW object, Lands(keyOf(pc), object), Ensured(object),
           NEW kind \in Kinds, Kept(kind, g)
    PROVE  Kept(kind, g)'
<1> DEFINE h == Home(kind, g)
<1>1. h \in Keys /\ h.kind = kind /\ StoredSpec(g) \in DefaultedSpecs(g)
  BY HomeFacts
<1>2. CASE h # keyOf(pc)
  <2>1. objects'[h] = objects[h] /\ pending'[h] = pending[h]
    BY <1>1, <1>2 DEF Lands
  <2> QED BY <2>1, KeptStays
<1>3. CASE h = keyOf(pc)
  <2>1. kind = pc /\ kind \notin WatchedKinds \cup {"ConfigMap"}
    <3>1. KeyOf(kind, g, StoredSpec(g)) = KeyOf(pc, req, wanted)
      BY <1>3 DEF Home, keyOf
    <3> QED BY <1>1, <3>1, WorkerFacts, KeysDiffer
  <2>2. kind \in RBACKinds
    BY <2>1, KindsAssumption DEF AllKinds, WatchedKinds, RBACKinds
  <2> SUFFICES ASSUME Asked(kind, g)' PROVE UpToDate(kind, g)'
    BY DEF Kept
  <2>3. StoredSpec(g)' = StoredSpec(g)
    BY DEF StoredSpec
  <2>4. UpToDate(kind, g)
    BY <2>1, <2>3, <1>1 DEF Kept, Asked, Disturbed
  <2>5. Exists(objects[h]) /\ Describes(StoredSpec(g), kind, g, objects[h].content)
    BY <2>4 DEF UpToDate, Home
  <2>6. objects'[h] = object /\ Exists(object) /\ Makes(kind, objects[h], object.content)
    BY <1>1, <1>3, <2>1 DEF Lands, Ensured
  <2>7. CASE kind \in {"ClusterRole", "Role"}
    <3>1. object.content = initRules
      BY <2>6, <2>7 DEF Makes
    <3> QED BY <2>3, <2>6, <2>7, <3>1 DEF UpToDate, Describes, Home, Exists
  <2>8. CASE kind \in {"ClusterRoleBinding", "RoleBinding"}
    <3>1. Subject(g, StoredSpec(g)) \in objects[h].content.subjects
      BY <2>5, <2>8 DEF Describes
    <3>2. Subject(g, StoredSpec(g)) \in object.content.subjects
      BY <2>5, <2>6, <2>8, <3>1 DEF Makes, SubjectsOf
    <3> QED BY <2>3, <2>6, <2>8, <3>2 DEF UpToDate, Describes, Home, Exists
  <2> QED BY <2>2, <2>7, <2>8 DEF RBACKinds
<1> QED BY <1>2, <1>3

\* Deleting an object by hand, collecting it or evicting it.
LEMMA KeptIfRemoved ==
    ASSUME TypeOK, Tidy, NEW g \in Gateways, Exists(gateways[g]), gateways'[g] = gateways[g],
           NEW k \in Keys, Exists(objects[k]), Lands(k, Removed(objects[k])),
           k.kind \in WatchedKinds \/ k.ns \notin {"", g.ns},
           NEW kind \in Kinds, Kept(kind, g)
    PROVE  Kept(kind, g)'
<1>1. Home(kind, g) \in Keys /\ Home(kind, g).kind = kind
  BY HomeFacts
<1>2. CASE Home(kind, g) # k
  <2>1. objects'[Home(kind, g)] = objects[Home(kind, g)]
        /\ pending'[Home(kind, g)] = pending[Home(kind, g)]
    BY <1>1, <1>2 DEF Lands
  <2> QED BY <2>1, KeptStays
<1>3. CASE Home(kind, g) = k
  <2>1. k.ns \in {"", g.ns}
    BY <1>3, HomeNamespace DEF Home
  <2>2. kind \in WatchedKinds
    BY <1>1, <1>3, <2>1
  <2>3. Removed(objects[k]) # objects[k]
    <3>1. Removed(objects[k]).content = Nothing
      BY DEF Removed, Written
    <3> QED BY <3>1 DEF Exists
  <2> QED BY <1>3, <2>2, <2>3, KeptIfWatched
<1> QED BY <1>2, <1>3

\* finalizeHigressGateway leaves the binding, or takes its own subject out of it.
LEMMA FinalizeLands ==
    ASSUME TypeOK, CachesFollow, finalizeHigressGateway
    PROVE  \E k \in Keys : \E object :
              /\ k.kind = "ClusterRoleBinding"
              /\ Lands(k, object)
              /\ \/ object = objects[k]
                 \/ /\ Exists(objects[k]) /\ Exists(object)
                    /\ \A s \in objects[k].content.subjects :
                          s # Subject(req, wanted) => s \in object.content.subjects

<1>1. "ClusterRoleBinding" \in Kinds
  BY KindsAssumption
<1>2. PICK k \in Keys : k.kind = "ClusterRoleBinding" /\ FinalizeEffect(k)
  BY FinalizeTypes
<1> DEFINE own == Subject(req, wanted)
           result == Update(objects[k], Seen(k), Unbound(k))
<1>3. /\ objects[k] \in Object(ContentOf("ClusterRoleBinding"))
      /\ Seen(k) \in Object(ContentOf("ClusterRoleBinding"))
      /\ Follows(Seen(k), objects[k])
  BY <1>2, SeenFacts
<1>4. Exists(Seen(k)) =>
        /\ Unbound(k) \in ContentOf("ClusterRoleBinding")
        /\ \A s \in Seen(k).content.subjects : s # own => s \in Unbound(k).subjects
  <2>1. Exists(Seen(k)) => /\ Seen(k).content \in ContentOf("ClusterRoleBinding")
                           /\ Seen(k).content.subjects \subseteq Subjects
    BY <1>3 DEF Object, Exists, ContentOf
  <2>2. \A s \in Subjects :
           s.name = getServiceAccount(req, wanted) /\ s.ns = req.ns => s = own
    BY DEF Subjects, Subject
  <2> HIDE DEF own
  <2> QED BY <2>1, <2>2 DEF Unbound, SubjectsKept, ContentOf
<1>5. Exists(Seen(k)) =>
        \/ result.object = objects[k]
        \/ /\ Exists(objects[k])
           /\ result.object.content = Unbound(k)
           /\ Seen(k).content = objects[k].content
  <2>1. Exists(Seen(k)) =>
          /\ result.ok \in BOOLEAN
          /\ result.ok => /\ Exists(objects[k])
                          /\ objects[k].version = Seen(k).version
                          /\ result.object = Written(objects[k], Unbound(k))
          /\ ~result.ok => result.object = objects[k]
    BY <1>3, <1>4, UpdateFacts
  <2>2. Exists(Seen(k)) => Written(objects[k], Unbound(k)).content = Unbound(k)
    BY <1>3, <1>4, WrittenFacts
  <2> HIDE DEF result
  <2> QED BY <1>3, <2>1, <2>2 DEF Follows
<1> HIDE DEF own, result
<1>6. Nothing \notin ContentOf("ClusterRoleBinding")
  BY <1>1, NothingAssumption
<1>7. CASE UNCHANGED <<objects, pending>>
  BY <1>2, <1>7, NothingLands
<1>8. CASE Exists(Seen(k)) /\ Store(k, result.object)
  <2>1. Lands(k, result.object)
    BY <1>8, StoreLands
  <2>2. \/ result.object = objects[k]
        \/ /\ Exists(objects[k]) /\ Exists(result.object)
           /\ \A s \in objects[k].content.subjects : s # own => s \in result.object.content.subjects
    BY <1>4, <1>5, <1>6, <1>8 DEF Exists
  <2> QED BY <1>2, <2>1, <2>2 DEF own
<1> QED BY <1>2, <1>7, <1>8 DEF FinalizeEffect, result

\* The finalizer of another gateway takes no subject of this one away.
LEMMA KeptByFinalizers ==
    ASSUME SubjectsAreDistinct, TypeOK, Tidy, pc # "idle",
           NEW g \in Gateways, g # req, Exists(gateways[g]), gateways'[g] = gateways[g],
           NEW k \in Keys, k.kind = "ClusterRoleBinding", NEW object, Lands(k, object),
           \/ object = objects[k]
           \/ /\ Exists(objects[k]) /\ Exists(object)
              /\ \A s \in objects[k].content.subjects :
                    s # Subject(req, wanted) => s \in object.content.subjects,
           NEW kind \in Kinds, Kept(kind, g)
    PROVE  Kept(kind, g)'
<1> DEFINE h == Home(kind, g)
<1>1. h \in Keys /\ h.kind = kind /\ StoredSpec(g) \in DefaultedSpecs(g)
  BY HomeFacts
<1>2. CASE objects'[h] = objects[h]
  <2>1. pending[h] \subseteq pending'[h]
    BY <1>1 DEF Lands
  <2> QED BY <1>2, <2>1, KeptStays
<1>3. CASE objects'[h] # objects[h]
  <2>1. h = k /\ kind = "ClusterRoleBinding" /\ objects'[h] = object /\ object # objects[h]
    BY <1>1, <1>3 DEF Lands
  <2> SUFFICES ASSUME Asked(kind, g)' PROVE UpToDate(kind, g)'
    BY DEF Kept
  <2>2. StoredSpec(g)' = StoredSpec(g)
    BY DEF StoredSpec
  <2>3. UpToDate(kind, g)
    BY <1>1, <2>1, <2>2 DEF Kept, Asked, Disturbed, WatchedKinds
  <2>4. Subject(g, StoredSpec(g)) \in objects[h].content.subjects
    BY <2>1, <2>3 DEF UpToDate, Describes, Home
  <2>5. Subject(g, StoredSpec(g)) # Subject(req, wanted)
    BY <1>1, WorkerFacts DEF SubjectsAreDistinct
  <2>6. Exists(object) /\ Subject(g, StoredSpec(g)) \in object.content.subjects
    BY <2>1, <2>4, <2>5
  <2> QED BY <2>1, <2>2, <2>6 DEF UpToDate, Describes, Home, Exists
<1> QED BY <1>2, <1>3

\* A Service but for its label.
LEMMA ServiceLabelled ==
    ASSUME NEW c \in ContentOf("Service"), NEW labelled
    PROVE  [c EXCEPT !.labelled = labelled] =
              [owner |-> c.owner, labelled |-> labelled, selector |-> c.selector,
               loadBalancerIP |-> c.loadBalancerIP, config |-> c.config]
<1>1. c = [owner |-> c.owner, labelled |-> c.labelled, selector |-> c.selector,
           loadBalancerIP |-> c.loadBalancerIP, config |-> c.config]
  BY DEF ContentOf
<1>2. PICK o, l, s, i, f :
        o = c.owner /\ l = c.labelled /\ s = c.selector /\ i = c.loadBalancerIP /\ f = c.config
  OBVIOUS
<1>3. c = [owner |-> o, labelled |-> l, selector |-> s, loadBalancerIP |-> i, config |-> f]
  BY <1>1, <1>2
<1>4. [c EXCEPT !.labelled = labelled] =
        [owner |-> o, labelled |-> labelled, selector |-> s, loadBalancerIP |-> i, config |-> f]
  BY <1>3
<1> QED BY <1>2, <1>4

\* What a pass over the stored spec leaves of a watched kind is what the spec
\* describes, if its owner is the stored incarnation.
LEMMA MadeIsDescribed ==
    ASSUME AddressesAreKept, TypeOK, Tidy, pc \in Kinds, pc # "idle", pc \in WatchedKinds,
           Exists(gateways[req]), wanted = StoredSpec(req),
           NEW object \in Object(ContentOf(pc)), Ensured(object),
           object.content.owner = Owner(req, gateways[req].content.uid)
    PROVE  Describes(wanted, pc, req, object.content)
<1> DEFINE before == objects[keyOf(pc)]
           c == object.content
           owner == Owner(req, gateways[req].content.uid)
<1>1. req \in Gateways /\ wanted \in DefaultedSpecs(req) /\ keyOf(pc) \in Keys
  BY WorkerFacts, KeyOfFacts
<1>2. c \in ContentOf(pc) /\ owner.uid = gateways[req].content.uid /\ owner.gateway = req
  BY DEF Object, Exists, Ensured, Owner
<1>3. CASE pc = "ServiceAccount"
  BY <1>2, <1>3 DEF Describes
<1>4. CASE pc = "Deployment"
  <2>1. PICK env \in Orderings(wanted.env) :
          c = updateDeploymentSpec(req, wanted, OwnerKept(before), env)
    BY <1>4 DEF Ensured, Makes
  <2>2. OwnerKept(before) = owner
    BY OwnerIsKept
  <2> QED BY <1>4, <2>1, <2>2 DEF Describes
<1>5. CASE pc = "Service"
  <2>1. Exists(before) => before.content \in ContentOf("Service")
    BY <1>1, <1>5, KeyOfFacts DEF TypeOK, Object, Exists
  <2>2. c.selector = wanted.selector /\ c.config = wanted.config
    <3>1. CASE Exists(before)
      <4>1. \A b \in ContentOf("Service") :
              /\ updateServiceSpec(b, wanted).selector = wanted.selector
              /\ updateServiceSpec(b, wanted).config = wanted.config
        BY DEF updateServiceSpec, ContentOf
      <4> QED BY <1>5, <2>1, <3>1, <4>1 DEF Ensured, Makes
    <3>2. CASE ~Exists(before)
      BY <1>5, <3>2 DEF Ensured, Makes, initService
    <3> QED BY <3>1, <3>2
  <2>3. c.loadBalancerIP = wanted.service.loadBalancerIP
    <3>1. c.loadBalancerIP =
            IF Exists(before) /\ wanted.service.loadBalancerIP = ""
            THEN before.content.loadBalancerIP ELSE wanted.service.loadBalancerIP
      BY <1>5, AddressIsKept
    <3>2. Exists(before) /\ wanted.service.loadBalancerIP = "" => before.content.loadBalancerIP = ""
      <4>1. keyOf(pc).kind = "Service" /\ keyOf(pc) = KeyOf("Service", req, wanted)
        BY <1>5, KeyOfFacts DEF keyOf
      <4> QED BY <1>1, <4>1 DEF Tidy, AddressesAreRight
    <3> QED BY <3>1, <3>2
  <2> DEFINE new == initService(req, owner.uid, wanted)
  <2>4. c \in ContentOf("Service") /\ new \in ContentOf("Service")
    <3>1. owner.uid \in Nat
      BY <1>2, HomeFacts DEF GatewayContent, Owner, TypeOK, Object, Exists
    <3> QED BY <1>1, <1>2, <1>5, <3>1, FreshTypes
  <2>5. /\ new.owner = owner /\ new.selector = wanted.selector /\ new.config = wanted.config
        /\ new.loadBalancerIP = wanted.service.loadBalancerIP
    BY DEF initService, Owner
  <2>6. [c EXCEPT !.labelled = FALSE] = [new EXCEPT !.labelled = FALSE]
    <3>1. c.owner = owner
      OBVIOUS
    <3> HIDE DEF c, owner, new
    <3>2. [c EXCEPT !.labelled = FALSE] =
            [owner |-> c.owner, labelled |-> FALSE, selector |-> c.selector,
             loadBalancerIP |-> c.loadBalancerIP, config |-> c.config]
      BY <2>4, ServiceLabelled
    <3>3. [new EXCEPT !.labelled = FALSE] =
            [owner |-> new.owner, labelled |-> FALSE, selector |-> new.selector,
             loadBalancerIP |-> new.loadBalancerIP, config |-> new.config]
      BY <2>4, ServiceLabelled
    <3> QED BY <2>2, <2>3, <2>5, <3>1, <3>2, <3>3
  <2>7. c.owner = owner
    OBVIOUS
  <2> QED BY <1>2, <1>5, <2>6, <2>7 DEF Describes
<1> QED BY <1>3, <1>4, <1>5 DEF WatchedKinds

\* A step that has done what it is for has kept its kind.
LEMMA KeptByOwn ==
    ASSUME SubjectsAreDistinct, AddressesAreKept, TypeOK, TypeOK', Tidy, Tidy',
           NEW kind \in Kinds, kind = pc, pc # "idle",
           NEW g \in Gateways, g = req, Exists(gateways[g]), gateways'[g] = gateways[g],
           wanted = StoredSpec(g), uid = gateways[g].content.uid,
           NEW object, Lands(keyOf(pc), object), Ensured(object)
    PROVE  Kept(kind, g)'
<1>0. PICK h \in Keys : h = keyOf(pc) /\ h.kind = pc
  BY KeyOfFacts
<1>1. g = req
  OBVIOUS
<1>2. kind = pc
  OBVIOUS
<1>3. StoredSpec(g)' = StoredSpec(g) /\ Home(kind, g)' = h /\ Home(kind, g) = h
  BY <1>0, <1>1, <1>2 DEF StoredSpec, Home, keyOf
<1>4. objects'[h] = object /\ object \in Object(ContentOf(kind)) /\ Exists(object)
  BY <1>0, <1>2 DEF Lands, TypeOK, Ensured
<1>5. Makes(kind, objects[h], object.content)
  BY <1>0, <1>2 DEF Ensured
<1>6. CASE kind \in RBACKinds \cup {"ConfigMap"}
  <2>0. GatewayConfigMap(req, wanted).mesh = WantedMesh(g, StoredSpec(g))
    BY <1>1, WorkerFacts, ConfigMapIsAddressed
  <2>1. Describes(StoredSpec(g), kind, g, object.content)
    BY <1>1, <1>5, <1>6, <2>0 DEF Makes, Describes, SubjectsOf, RBACKinds
  <2> QED BY <1>3, <1>4, <2>1, <1>6 DEF Kept, UpToDate, Describes, Home, Exists, RBACKinds
<1>7. CASE kind \in WatchedKinds
  <2>1. object.content \in ContentOf(kind)
    BY <1>4 DEF Object, Exists
  <2>2. object.content.owner \in Owners
    BY <1>7, <2>1 DEF ContentOf, WatchedKinds
  <2>3. object.content.owner.gateway = g
    <3>1. StoredSpec(g) \in DefaultedSpecs(g)
      BY <1>1, <1>2, HomeFacts
    <3>2. BelongsTo(h, g)
      BY <1>0, <1>2, <1>3, <1>7, <3>1 DEF BelongsTo, Home
    <3> QED BY <1>4, <3>2 DEF Tidy, OwnersAreRight, BelongsTo, Exists
  <2>4. CASE object.content.owner.uid = gateways[g].content.uid
    <3>1. object.content.owner = Owner(g, gateways[g].content.uid)
      BY <2>2, <2>3, <2>4 DEF Owners, Owner
    <3>2. Describes(StoredSpec(g), kind, g, object.content)
      BY <1>1, <1>2, <1>4, <1>7, <3>1, MadeIsDescribed
    <3> QED BY <1>1, <1>3, <1>4, <3>2 DEF Kept, UpToDate, Describes, Home, Exists
  <2>5. CASE object.content.owner.uid # gateways[g].content.uid
    <3>1. object.content.owner # Nil
      BY <2>2, NothingAssumption
    <3>2. Garbage(h)'
      BY <1>1, <1>4, <2>3, <2>5, <3>1 DEF Garbage, OwnerLives, Exists
    <3> QED BY <1>0, <1>2, <1>3, <1>7, <3>2 DEF Kept, Disturbed
  <2> QED BY <2>4, <2>5
<1> QED BY <1>6, <1>7, KindsAssumption DEF AllKinds, WatchedKinds, RBACKinds

-----------------------------------------------------------------------------
\* A step that leaves a gateway's pass alone.

\* Attention lasts until the worker takes the gateway off the queue.
LEMMA AttentionStays ==
    ASSUME TypeOK, TypeOK', Progress, NEW g \in Gateways, Attended(g),
           gatewayCache'[g] = gatewayCache[g], g \in queue => g \in queue'
    PROVE  Attended(g)'
<1>1. CASE g \in queue
  BY <1>1 DEF Attended
<1>2. CASE gatewayCache[g].version < gateways[g].version
  <2>1. /\ gatewayCache[g].version \in Nat /\ gateways[g].version \in Nat
        /\ gateways'[g].version \in Nat
    BY DEF TypeOK, Object
  <2>2. gateways[g].version <= gateways'[g].version
    BY DEF Progress, Advances
  <2>3. gatewayCache'[g].version < gateways'[g].version
    BY <1>2, <2>1, <2>2
  <2> QED BY <2>3 DEF Attended
<1> QED BY <1>1, <1>2 DEF Attended

\* Every change of a gateway draws attention to it.
LEMMA ChangeIsAttended ==
    ASSUME TypeOK, TypeOK', CachesFollow, Progress, NEW g \in Gateways,
           gatewayCache'[g] = gatewayCache[g], gateways'[g] # gateways[g]
    PROVE  Attended(g)'
<1> DEFINE V == GatewayContent(StoredSpecs(g))
<1>1. /\ gateways[g] \in Object(V) /\ gateways'[g] \in Object(V)
      /\ gatewayCache[g].version \in Nat /\ gateways[g].version \in Nat
      /\ gateways'[g].version \in Nat
  BY DEF TypeOK, Object
<1>2. gateways[g].version < gateways'[g].version
  <2>1. Advances(gateways[g], gateways'[g])
    BY DEF Progress
  <2> HIDE DEF V
  <2> QED BY <1>1, <2>1, ChangesAreNewer
<1>3. gatewayCache[g].version <= gateways[g].version
  BY DEF CachesFollow, Follows
<1>4. gatewayCache'[g].version < gateways'[g].version
  BY <1>1, <1>2, <1>3
<1> QED BY <1>4 DEF Attended

\* What the step of somebody else has to respect.
LEMMA ServedStays ==
    ASSUME TypeOK, TypeOK', CachesFollow, Progress, NEW g \in Gateways, Served(g),
           gatewayCache'[g] = gatewayCache[g], g \in queue => g \in queue',
           terminating \subseteq terminating',
           UNCHANGED workerVars \/ (~Working(g) /\ ~Working(g)'),
           \A kind \in Kinds :
              /\ Exists(gateways[g]) /\ gateways'[g] = gateways[g]
              /\ g.ns \notin terminating' /\ Kept(kind, g)
              => Kept(kind, g)'
    PROVE  Served(g)'
<1>1. CASE gateways'[g] # gateways[g]
  BY <1>1, ChangeIsAttended DEF Served
<1>2. CASE gateways'[g] = gateways[g]
  <2> SUFFICES ASSUME Exists(gateways[g]) PROVE Served(g)'
    BY <1>2 DEF Served, Exists
  <2>1. CASE Attended(g)
    BY <2>1, AttentionStays DEF Served
  <2>2. CASE Passing(g) /\ Progressed(g)
    <3>1. UNCHANGED workerVars
      BY <2>2 DEF Passing
    <3>2. Passing(g)'
      BY <1>2, <2>2, <3>1 DEF Passing, Working, workerVars
    <3>3. Progressed(g)'
      BY <1>2, <2>2, <3>1 DEF Progressed, workerVars
    <3> QED BY <3>2, <3>3 DEF Served
  <2>3. CASE ~Working(g) /\ Done(g)
    <3>1. ~Working(g)'
      BY <2>3 DEF Working, workerVars
    <3>2. Done(g)'
      BY <1>2, <2>3 DEF Done, Live, Exists
    <3> QED BY <3>1, <3>2 DEF Served
  <2> QED BY <2>1, <2>2, <2>3 DEF Served
<1> QED BY <1>1, <1>2

\* A step of others that moves no object.
LEMMA QuietServes ==
    ASSUME TypeOK, TypeOK', CachesFollow, Progress, Tidy, NEW g \in Gateways, Served(g),
           gatewayCache'[g] = gatewayCache[g], g \in queue => g \in queue',
           terminating \subseteq terminating',
           UNCHANGED workerVars \/ (~Working(g) /\ ~Working(g)'),
           \A k \in Keys : objects'[k] = objects[k] /\ (g \in pending[k] => g \in pending'[k])
    PROVE  Served(g)'
<1>1. ASSUME NEW kind \in Kinds, Exists(gateways[g]), gateways'[g] = gateways[g], Kept(kind, g)
      PROVE  Kept(kind, g)'
  <2>1. Home(kind, g) \in Keys
    BY <1>1, HomeFacts
  <2> QED BY <1>1, <2>1, KeptStays
<1> QED BY <1>1, ServedStays

\* An object that is deleted.
LEMMA RemovalServes ==
    ASSUME TypeOK, TypeOK', CachesFollow, Progress, Tidy, NEW g \in Gateways, Served(g),
           UNCHANGED <<gateways, gatewayCache, queue, terminating, workerVars>>,
           NEW k \in Keys, Exists(objects[k]), Lands(k, Removed(objects[k])),
           k.kind \in WatchedKinds \/ k.ns \in terminating
    PROVE  Served(g)'
<1>1. k.kind \in WatchedKinds \/ g.ns \in terminating \/ k.ns \notin {"", g.ns}
  <2>1. "" \notin terminating
    BY GatewaysAssumption DEF TypeOK, Name
  <2> QED BY <2>1
<1>2. ASSUME NEW kind \in Kinds, Exists(gateways[g]), g.ns \notin terminating', Kept(kind, g)
      PROVE  Kept(kind, g)'
  BY <1>1, <1>2, KeptIfRemoved
<1> QED BY <1>2, ServedStays

\* Only watched objects have an owner that may be gone.
LEMMA GarbageIsWatched ==
    ASSUME TypeOK, NEW k \in Keys, Garbage(k) PROVE k.kind \in WatchedKinds
<1>1. objects[k].content \in ContentOf(k.kind) /\ objects[k].content.owner # Nil
  BY DEF TypeOK, Object, Exists, Garbage
<1>2. k.kind \in AllKinds
  BY KeysAreNamed
<1> QED BY <1>1, <1>2 DEF ContentOf, WatchedKinds, AllKinds

\* DeleteObject, CollectGarbage and EvictObject delete.
LEMMA RemovalFacts ==
    ASSUME DriftIsWatched, TypeOK, NEW k \in Keys,
           DeleteObject(k) \/ CollectGarbage(k) \/ EvictObject(k)
    PROVE  /\ Exists(objects[k]) /\ Lands(k, Removed(objects[k]))
           /\ k.kind \in WatchedKinds \/ k.ns \in terminating
           /\ UNCHANGED <<gateways, gatewayCache, objectCache, queue, terminating, workerVars>>
<1>1. RemoveObject(k) /\ Exists(objects[k])
  BY DEF DeleteObject, CollectGarbage, EvictObject, Garbage
<1>2. Lands(k, Removed(objects[k]))
  BY <1>1, StoreLands DEF RemoveObject
<1>3. k.kind \in WatchedKinds \/ k.ns \in terminating
  BY GarbageIsWatched DEF DeleteObject, CollectGarbage, EvictObject, DriftIsWatched
<1>4. UNCHANGED <<gateways, gatewayCache, objectCache, queue, terminating, workerVars>>
  BY <1>1 DEF DeleteObject, CollectGarbage, EvictObject, Change, RemoveObject
<1> QED BY <1>1, <1>2, <1>3, <1>4

\* A restart queues every gateway there is.
LEMMA RestartServes ==
    ASSUME TypeOK, Restart, UNCHANGED serverVars, NEW g \in Gateways
    PROVE  Served(g)'
BY DEF Restart, serverVars, Served, Attended

\* The users and the rest of the cluster.
LEMMA EnvironmentServes ==
    ASSUME DriftIsWatched, TypeOK, TypeOK', CachesFollow, Progress, Tidy,
           NEW g \in Gateways, Served(g), User \/ Cluster \/ Crash
    PROVE  Served(g)'
<1>1. CASE \E k \in Keys : DeleteObject(k) \/ CollectGarbage(k) \/ EvictObject(k)
  BY <1>1, RemovalFacts, RemovalServes
<1>2. CASE \E k \in Keys : DeliverObject(k)
  <2>1. PICK k \in Keys : DeliverObject(k)
    BY <1>2
  <2>2. CASE g \in pending[k]
    BY <2>1, <2>2 DEF DeliverObject, Served, Attended
  <2>3. CASE g \notin pending[k]
    <3>1. UNCHANGED <<gatewayCache, terminating, workerVars, objects>> /\ queue \subseteq queue'
      BY <2>1 DEF DeliverObject, serverVars
    <3>2. \A l \in Keys : g \in pending[l] => g \in pending'[l]
      BY <2>1, <2>3 DEF DeliverObject, TypeOK
    <3> QED BY <3>1, <3>2, QuietServes
  <2> QED BY <2>2, <2>3
<1>3. CASE \E f \in Gateways : DeliverGateway(f)
  <2>1. PICK f \in Gateways : DeliverGateway(f)
    BY <1>3
  <2>2. CASE f = g
    BY <2>1, <2>2 DEF DeliverGateway, Served, Attended
  <2>3. CASE f # g
    <3>1. /\ gatewayCache'[g] = gatewayCache[g] /\ queue \subseteq queue'
          /\ UNCHANGED <<terminating, workerVars, objects, pending>>
      BY <2>1, <2>3 DEF DeliverGateway, serverVars, TypeOK
    <3> QED BY <3>1, QuietServes
  <2> QED BY <2>2, <2>3
<1>4. CASE Crash
  BY <1>4, RestartServes DEF Crash
<1>5. CASE \E f \in Gateways : DeleteGateway(f) \/ TerminateNamespace(f.ns) \/ EvictGateway(f)
  <2>1. /\ UNCHANGED <<gatewayCache, queue, workerVars, objects, pending>>
        /\ terminating \subseteq terminating'
    BY <1>5 DEF DeleteGateway, TerminateNamespace, EvictGateway, Change, SetGateway
  <2> QED BY <2>1, QuietServes
<1>6. CASE \E f \in Gateways, manifest \in Specs :
             CreateGateway(f, manifest) \/ UpdateGateway(f, manifest)
  <2>1. UNCHANGED <<gatewayCache, queue, workerVars, objects, pending, terminating>>
    BY <1>6 DEF CreateGateway, UpdateGateway, Change, SetGateway
  <2> QED BY <2>1, QuietServes
<1> QED BY <1>1, <1>2, <1>3, <1>4, <1>5, <1>6 DEF User, Cluster

-----------------------------------------------------------------------------
\* The steps of the worker, by what they leave to be proved.

\* The process dies of a panic; createConfigMap gives up.
Panics == Restart /\ UNCHANGED serverVars
GivesUp == Retry /\ UNCHANGED <<serverVars, cacheVars>>

\* The calls for an object have in common what they ensure.
LEMMA WorkerCases ==
    ASSUME StaleReadsAreWatched, TypeOK, CachesFollow, Worker
    PROVE  /\ pc # "idle"
           /\ \/ checkNamespace \/ addFinalizer
              \/ finalizeHigressGateway \/ removeFinalizer
              \/ Ensures \/ Panics \/ GivesUp
              \/ updateStatus
<1>1. pc # "idle"
  BY DEF Worker, checkNamespace, addFinalizer, finalizeHigressGateway, removeFinalizer,
         createServiceAccount, createClusterRole, createClusterRoleBinding, createRole,
         createRoleBinding, createConfigMap, createSkywalkingConfigMap, createDeployment,
         createService, updateStatus
<1>0. ReadIsWatched
  BY DEF StaleReadsAreWatched, ReadIsWatched
<1>2. createSkywalkingConfigMap => Panics \/ GivesUp
  BY DEF createSkywalkingConfigMap, Panics, GivesUp
<1>3. createService => Ensures \/ Panics
  BY <1>0, ServiceEnsures DEF Panics
<1>4. \/ createServiceAccount \/ createClusterRole \/ createClusterRoleBinding
      \/ createRole \/ createRoleBinding \/ createConfigMap \/ createDeployment
      => Ensures
  BY <1>0, AccountEnsures, RulesEnsure, ClusterRoleBindingEnsures, RoleBindingEnsures,
     ConfigMapEnsures, DeploymentEnsures
<1> QED BY <1>1, <1>2, <1>3, <1>4 DEF Worker

-----------------------------------------------------------------------------
\* Events, owners and addresses, step by step.

\* A restart forgets the events; the successor has seen everything.
LEMMA RestartTidies ==
    ASSUME TypeOK, Tidy, Restart, UNCHANGED serverVars PROVE Tidy'
<1>1. \A k \in Keys : objects'[k] = objects[k] /\ pending'[k] = {}
  BY DEF Restart, serverVars
<1> QED BY <1>1, TidyStays

\* The worker keeps them in order.
LEMMA WorkerTidies ==
    ASSUME SubjectsAreDistinct, AddressesAreKept, StaleReadsAreWatched,
           TypeOK, CachesFollow, TypeOK', Progress, Tidy, Worker
    PROVE  Tidy'
<1>1. CASE Ensures
  <2>1. PICK object : Lands(keyOf(pc), object) /\ (object = objects[keyOf(pc)] \/ Ensured(object))
    BY <1>1 DEF Ensures
  <2>2. pc \in Kinds /\ pc # "idle" /\ UNCHANGED objectCache
    BY <1>1, WorkerCases DEF Ensures
  <2>3. keyOf(pc) \in Keys /\ MayLand(keyOf(pc), object)
    BY <2>1, <2>2, KeyOfFacts DEF MayLand
  <2> QED BY <2>1, <2>2, <2>3, TidyLands
<1>2. CASE finalizeHigressGateway
  <2>1. PICK k \in Keys : \E object : k.kind = "ClusterRoleBinding" /\ Lands(k, object)
    BY <1>2, FinalizeLands
  <2>2. PICK object : Lands(k, object)
    BY <2>1
  <2>3. UNCHANGED objectCache
    BY <1>2 DEF finalizeHigressGateway
  <2> QED BY <2>1, <2>2, <2>3, TidyLands DEF MayLand
<1>3. CASE UNCHANGED <<objects, pending, objectCache>>
  BY <1>3, TidyStays
<1>4. CASE Panics
  BY <1>4, RestartTidies DEF Panics
<1>5. checkNamespace \/ addFinalizer \/ removeFinalizer \/ GivesUp \/ updateStatus
      => UNCHANGED <<objects, pending, objectCache>>
  BY DEF checkNamespace, addFinalizer, removeFinalizer, GivesUp, updateStatus, CallForGateway,
         serverVars, cacheVars
<1> QED BY <1>1, <1>2, <1>3, <1>4, <1>5, WorkerCases

\* So does everybody else.
LEMMA StepTidies ==
    ASSUME Hypotheses, TypeOK, CachesFollow, TypeOK', Progress, Tidy, [Next]_vars
    PROVE  Tidy'
<1>0. SubjectsAreDistinct /\ AddressesAreKept /\ StaleReadsAreWatched /\ DriftIsWatched
  BY DEF Hypotheses
<1>1. CASE Worker
  BY <1>0, <1>1, WorkerTidies
<1>2. CASE \E k \in Keys : DeleteObject(k) \/ CollectGarbage(k) \/ EvictObject(k)
  <2>1. PICK k \in Keys : /\ Exists(objects[k]) /\ Lands(k, Removed(objects[k]))
                          /\ UNCHANGED objectCache
    BY <1>0, <1>2, RemovalFacts
  <2>2. MayLand(k, Removed(objects[k]))
    <3>1. Removed(objects[k]).content = Nothing
      BY DEF Removed, Written
    <3> QED BY <3>1 DEF MayLand, Exists
  <2> QED BY <1>0, <2>1, <2>2, TidyLands
<1>3. CASE \E k \in Keys : DeliverObject(k)
  <2>1. PICK k \in Keys : DeliverObject(k)
    BY <1>3
  <2>2. \A l \in Keys : \/ pending'[l] = {}
                        \/ pending'[l] = pending[l] /\ objectCache'[l] = objectCache[l]
    BY <2>1 DEF DeliverObject, TypeOK
  <2>3. objects' = objects
    BY <2>1 DEF DeliverObject, serverVars
  <2> QED BY <2>2, <2>3, TidyStays
<1>4. CASE Crash
  BY <1>4, RestartTidies DEF Crash
<1>5. CASE UNCHANGED <<objects, pending, objectCache>>
  BY <1>5, TidyStays
<1>6. ASSUME NEW g \in Gateways, \/ Reconcile(g) \/ DeliverGateway(g) \/ EvictGateway(g)
                                 \/ DeleteGateway(g) \/ TerminateNamespace(g.ns)
      PROVE  UNCHANGED <<objects, pending, objectCache>>
  BY <1>6 DEF Reconcile, DeliverGateway, EvictGateway, DeleteGateway, TerminateNamespace,
              Change, SetGateway, serverVars, cacheVars
<1>7. ASSUME NEW g \in Gateways, NEW manifest \in Specs,
             CreateGateway(g, manifest) \/ UpdateGateway(g, manifest)
      PROVE  UNCHANGED <<objects, pending, objectCache>>
  BY <1>7 DEF CreateGateway, UpdateGateway, Change, SetGateway
<1>8. UNCHANGED vars => UNCHANGED <<objects, pending, objectCache>>
  BY DEF vars, serverVars, cacheVars
<1> QED BY <1>1, <1>2, <1>3, <1>4, <1>5, <1>6, <1>7, <1>8 DEF Next, User, Cluster

-----------------------------------------------------------------------------
\* Deletions.

\* One gateway is written; a content marked for deletion has the finalizer.
LEMMA DeletionStays ==
    ASSUME TypeOK, DeletionIsGuarded, NEW f \in Gateways, NEW content,
           content # Nothing /\ content.deleting => content.finalizer,
           gateways'[f] \in {gateways[f], Written(gateways[f], content)},
           \A g \in Gateways : g # f => gateways'[g] = gateways[g]
    PROVE  DeletionIsGuarded'
<1> SUFFICES ASSUME NEW g \in Gateways, Exists(gateways'[g]), gateways'[g].content.deleting
             PROVE  gateways'[g].content.finalizer
  BY DEF DeletionIsGuarded, Registered, Exists
<1>1. CASE gateways'[g] = gateways[g]
  BY <1>1 DEF DeletionIsGuarded, Registered, Exists
<1>2. CASE gateways'[g] # gateways[g]
  <2>1. Written(gateways[f], content).content = content
    BY DEF Written
  <2> QED BY <1>2, <2>1 DEF Exists
<1> QED BY <1>1, <1>2

\* One update of the gateway under way, carried out or refused.
LEMMA UpdateKeepsDeletion ==
    ASSUME TypeOK, DeletionIsGuarded, req \in Gateways, NEW content,
           content # Nothing /\ content.deleting => content.finalizer,
           \/ gateways' = gateways
           \/ gateways' = [gateways EXCEPT ![req] = Update(gateways[req], instance, content).object]
    PROVE  DeletionIsGuarded'
<1>1. Update(gateways[req], instance, content).object
        \in {gateways[req], Written(gateways[req], content)}
  BY DEF Update, Answer
<1>2. /\ gateways'[req] \in {gateways[req], Written(gateways[req], content)}
      /\ \A g \in Gateways : g # req => gateways'[g] = gateways[g]
  BY <1>1 DEF TypeOK
<1> QED BY <1>2, DeletionStays

\* The worker marks nothing for deletion, and takes the finalizer off at the end.
LEMMA WorkerKeepsDeletion ==
    ASSUME StaleReadsAreWatched, Guarded, DeletionIsGuarded, Worker
    PROVE  DeletionIsGuarded'
<1>0. TypeOK /\ CachesFollow /\ req \in Gateways
  BY WorkerCases, WorkerFacts DEF Guarded
<1>1. CASE gateways' = gateways
  BY <1>1 DEF DeletionIsGuarded, Registered
<1>2. CASE addFinalizer
  <2> DEFINE content == [instance.content EXCEPT !.finalizer = TRUE]
  <2>1. content.finalizer
    BY <1>0, <1>2 DEF addFinalizer, TypeOK, GatewayContent
  <2>2. \/ gateways' = gateways
        \/ gateways' = [gateways EXCEPT ![req] = Update(gateways[req], instance, content).object]
    BY <1>2 DEF addFinalizer, CallForGateway
  <2> HIDE DEF content
  <2> QED BY <1>0, <2>1, <2>2, UpdateKeepsDeletion
<1>3. CASE removeFinalizer
  <2>1. WritesGateway(Nothing)
    BY <1>0, <1>3, RemoveFinalizerTypes
  <2> QED BY <1>0, <2>1, UpdateKeepsDeletion DEF WritesGateway
<1>4. CASE updateStatus
  <2> DEFINE content == [gateways[req].content EXCEPT !.deployed = TRUE]
  <2>1. WritesGateway(content)
    BY <1>0, <1>4, StatusTypes
  <2>2. CASE Exists(gateways[req])
    <3>1. gateways[req].content \in GatewayContent(StoredSpecs(req))
      BY <1>0, <2>2 DEF TypeOK, Object, Exists
    <3>2. content.deleting => content.finalizer
      BY <1>0, <2>2, <3>1 DEF DeletionIsGuarded, Registered, GatewayContent
    <3> HIDE DEF content
    <3> QED BY <1>0, <2>1, <3>2, UpdateKeepsDeletion DEF WritesGateway
  <2>3. CASE ~Exists(gateways[req])
    <3>1. Update(gateways[req], instance, content).object = gateways[req]
      BY <2>3 DEF Update, Answer
    <3> HIDE DEF content
    <3>2. \A g \in Gateways : gateways'[g] = gateways[g]
      BY <1>0, <2>1, <3>1 DEF WritesGateway, TypeOK
    <3> QED BY <3>2 DEF DeletionIsGuarded, Registered
  <2> QED BY <2>2, <2>3
<1>5. checkNamespace \/ finalizeHigressGateway \/ Ensures \/ Panics \/ GivesUp
      => gateways' = gateways
  BY DEF checkNamespace, finalizeHigressGateway, Ensures, Panics, GivesUp, serverVars
<1> QED BY <1>0, <1>1, <1>2, <1>3, <1>4, <1>5, WorkerCases

\* Users and the namespace controller mark only what has the finalizer.
LEMMA StepKeepsDeletion ==
    ASSUME StaleReadsAreWatched, Guarded, DeletionIsGuarded, [Next]_vars
    PROVE  DeletionIsGuarded'
<1>0. TypeOK
  BY DEF Guarded
<1>1. CASE Worker
  BY <1>1, WorkerKeepsDeletion
<1>2. CASE gateways' = gateways
  BY <1>2 DEF DeletionIsGuarded, Registered
<1>3. ASSUME NEW f \in Gateways, NEW content, SetGateway(f, content),
             content # Nothing /\ content.deleting => content.finalizer
      PROVE  DeletionIsGuarded'
  <2>1. /\ gateways'[f] = Written(gateways[f], content)
        /\ \A g \in Gateways : g # f => gateways'[g] = gateways[g]
    BY <1>0, <1>3 DEF SetGateway, TypeOK
  <2> QED BY <1>0, <1>3, <2>1, DeletionStays
<1>4. ASSUME NEW f \in Gateways, DeleteGateway(f) \/ EvictGateway(f)
      PROVE  DeletionIsGuarded'
  <2> DEFINE content == Deletion(gateways[f].content)
  <2>1. SetGateway(f, content) /\ Exists(gateways[f])
    BY <1>4 DEF DeleteGateway, EvictGateway, Live
  <2>2. gateways[f].content \in GatewayContent(StoredSpecs(f))
    BY <1>0, <2>1 DEF TypeOK, Object, Exists
  <2>3. content # Nothing => content.finalizer
    BY <2>2 DEF Deletion, GatewayContent
  <2> HIDE DEF content
  <2> QED BY <1>3, <2>1, <2>3
<1>5. ASSUME NEW f \in Gateways, NEW manifest \in Specs, CreateGateway(f, manifest)
      PROVE  DeletionIsGuarded'
  BY <1>3, <1>5 DEF CreateGateway
<1>6. ASSUME NEW f \in Gateways, NEW manifest \in Specs, UpdateGateway(f, manifest)
      PROVE  DeletionIsGuarded'
  <2> DEFINE content == [gateways[f].content EXCEPT !.spec = manifest]
  <2>1. SetGateway(f, content) /\ Exists(gateways[f])
    BY <1>6 DEF UpdateGateway
  <2>2. gateways[f].content \in GatewayContent(StoredSpecs(f))
    BY <1>0, <2>1 DEF TypeOK, Object, Exists
  <2>3. content.deleting => content.finalizer
    BY <2>1, <2>2 DEF DeletionIsGuarded, Registered, GatewayContent
  <2> HIDE DEF content
  <2> QED BY <1>3, <2>1, <2>3
<1>7. ASSUME NEW g \in Gateways, Reconcile(g) \/ DeliverGateway(g) \/ TerminateNamespace(g.ns)
      PROVE  gateways' = gateways
  BY <1>7 DEF Reconcile, DeliverGateway, TerminateNamespace, serverVars
<1>8. ASSUME NEW k \in Keys,
             DeliverObject(k) \/ DeleteObject(k) \/ CollectGarbage(k) \/ EvictObject(k)
      PROVE  gateways' = gateways
  BY <1>8 DEF DeliverObject, DeleteObject, CollectGarbage, EvictObject, RemoveObject, serverVars
<1>9. Crash \/ UNCHANGED vars => gateways' = gateways
  BY DEF Crash, vars, serverVars
<1> QED BY <1>1, <1>2, <1>4, <1>5, <1>6, <1>7, <1>8, <1>9 DEF Next, User, Cluster

-----------------------------------------------------------------------------
\* The worker's instance.

\* The pass goes on with the instance it has, or ends.
LEMMA MirrorStays ==
    ASSUME Guarded, TypeOK', Progress, InstanceMirrors,
           UNCHANGED workerVars \/ Idle \/ (pc # "idle" /\ UNCHANGED <<req, instance>>)
    PROVE  InstanceMirrors'
<1> SUFFICES ASSUME pc' # "idle", instance'.version = gateways'[req'].version
             PROVE  /\ Exists(gateways'[req'])
                    /\ instance'.content.spec = StoredSpec(req)'
                    /\ instance'.content.uid = gateways'[req'].content.uid
                    /\ instance'.content.deployed = gateways'[req'].content.deployed
  BY DEF InstanceMirrors
<1>1. pc # "idle" /\ req' = req /\ instance' = instance
  BY DEF Idle, workerVars
<1>2. /\ req \in Gateways /\ instance.version \in Nat
      /\ gateways[req].version \in Nat /\ gateways'[req].version \in Nat
  BY <1>1 DEF Guarded, TypeOK, Object
<1>3. instance.version <= gateways[req].version
  BY <1>1 DEF Guarded, InstanceFollows
<1>4. /\ gateways[req].version <= gateways'[req].version
      /\ gateways[req].version = gateways'[req].version =>
            gateways[req].content = gateways'[req].content
  BY <1>2 DEF Progress, Advances
<1>5. instance.version = gateways[req].version /\ gateways[req].content = gateways'[req].content
  BY <1>1, <1>2, <1>3, <1>4
<1>6. StoredSpec(req)' = StoredSpec(req)
  BY <1>1, <1>5 DEF StoredSpec
<1> QED BY <1>1, <1>5, <1>6 DEF InstanceMirrors, Exists

\* Reconcile fills in the defaults of what it has read.
LEMMA ReconcileMirrors ==
    ASSUME Guarded, TypeOK', Progress, InstanceMirrors, NEW g \in Gateways, Reconcile(g)
    PROVE  InstanceMirrors'
<1> DEFINE read == gatewayCache[g]
           ready == [read EXCEPT !.content.spec = setDefaultValues(g, @)]
<1>1. CASE UNCHANGED workerVars
  BY <1>1, MirrorStays
<1>2. CASE Exists(read) /\ req' = g /\ instance' = ready
  <2>1. gateways' = gateways
    BY DEF Reconcile, serverVars
  <2>2. read.content \in GatewayContent(StoredSpecs(g))
    BY <1>2 DEF Guarded, TypeOK, Object, Exists
  <2>3. /\ ready.version = read.version
        /\ ready.content.spec = setDefaultValues(g, read.content.spec)
        /\ ready.content.uid = read.content.uid
        /\ ready.content.deployed = read.content.deployed
    BY <2>2 DEF Guarded, TypeOK, Object, GatewayContent
  <2>4. read.version = gateways[g].version => read.content = gateways[g].content
    BY DEF Guarded, CachesFollow, Follows
  <2> HIDE DEF ready
  <2> QED BY <1>2, <2>1, <2>3, <2>4 DEF InstanceMirrors, StoredSpec, Exists
<1> QED BY <1>1, <1>2 DEF Reconcile

\* The answer of AddFinalizer is the stored resource, with its defaults.
LEMMA AddFinalizerMirrors ==
    ASSUME Guarded, TypeOK', Progress, InstanceMirrors, addFinalizer
    PROVE  InstanceMirrors'
<1> DEFINE content == [instance.content EXCEPT !.finalizer = TRUE]
           answer == Update(gateways[req], instance, content)
           V == GatewayContent(StoredSpecs(req))
<1>1. \/ Retry
      \/ answer.ok /\ Continue /\ instance' = answer.object
         /\ gateways' = [gateways EXCEPT ![req] = answer.object]
  BY DEF addFinalizer, CallForGateway
<1>2. CASE Retry
  BY <1>2, MirrorStays DEF Retry
<1>3. CASE answer.ok /\ Continue /\ instance' = answer.object
           /\ gateways' = [gateways EXCEPT ![req] = answer.object]
  <2>1. /\ req \in Gateways /\ gateways[req] \in Object(V)
        /\ content \in GatewayContent(DefaultedSpecs(req)) /\ content \in V
    BY DEF addFinalizer, Guarded, TypeOK, GatewayContent, StoredSpecs
  <2>2. answer.object.content = content
    <3>1. answer.object = Written(gateways[req], content)
      BY <1>3 DEF Update, Answer
    <3> HIDE DEF answer, content
    <3> QED BY <3>1 DEF Written
  <2>3. gateways'[req] = instance' /\ req' = req
    BY <1>3, <2>1, ContinueFacts DEF Guarded, TypeOK
  <2>4. Exists(instance')
    BY <1>3, <2>1, <2>2, NothingAssumption DEF Exists
  <2>5. setDefaultValues(req, content.spec) = content.spec
    <3>1. content.spec \in DefaultedSpecs(req)
      BY <2>1 DEF GatewayContent
    <3> HIDE DEF content
    <3> QED BY <2>1, <3>1, DefaultsAreComplete
  <2> HIDE DEF answer, content
  <2>6. instance'.content.spec = StoredSpec(req)'
    BY <1>3, <2>2, <2>3, <2>5 DEF StoredSpec
  <2> QED BY <2>3, <2>4, <2>6 DEF InstanceMirrors
<1> QED BY <1>1, <1>2, <1>3

\* Only addFinalizer changes the instance of a pass.
LEMMA InstanceIsKept ==
    ASSUME TypeOK, CachesFollow, Worker
    PROVE  pc # "idle" /\ (addFinalizer \/ Idle \/ UNCHANGED <<req, instance>>)
<1>1. pc # "idle"
  BY DEF Worker, checkNamespace, addFinalizer, finalizeHigressGateway, removeFinalizer,
         createServiceAccount, createClusterRole, createClusterRoleBinding, createRole,
         createRoleBinding, createConfigMap, createSkywalkingConfigMap, createDeployment,
         createService, updateStatus
<1>2. removeFinalizer \/ updateStatus => Idle
  BY RemoveFinalizerTypes, StatusTypes DEF WritesGateway
<1>3. checkNamespace => Idle \/ UNCHANGED <<req, instance>>
  BY ContinueFacts DEF checkNamespace, Finish, GoTo
<1>4. finalizeHigressGateway => Idle \/ UNCHANGED <<req, instance>>
  BY DEF finalizeHigressGateway, Retry, GoTo, BindingNotFound
<1>5. createSkywalkingConfigMap => Idle
  BY SkywalkingTypes
<1>6. EnsureEffect => Idle \/ UNCHANGED <<req, instance>>
  BY DEF EnsureEffect
<1>7. createService => EnsureEffect \/ Idle
  BY EnsuresService DEF Restart
<1> QED BY <1>1, <1>2, <1>3, <1>4, <1>5, <1>6, <1>7,
           EnsuresServiceAccount, EnsuresRules, EnsuresClusterRoleBinding,
           EnsuresRoleBinding, EnsuresConfigMap, EnsuresDeployment DEF Worker

\* Nobody else touches it.
LEMMA StepMirrors ==
    ASSUME Guarded, TypeOK', Progress, InstanceMirrors, [Next]_vars
    PROVE  InstanceMirrors'
<1>1. CASE Worker
  BY <1>1, InstanceIsKept, AddFinalizerMirrors, MirrorStays DEF Guarded
<1>2. CASE User \/ Cluster \/ Crash
  BY <1>2, EnvironmentKeeps, MirrorStays DEF Bystander
<1>3. CASE \E g \in Gateways : Reconcile(g)
  BY <1>3, ReconcileMirrors
<1>4. CASE UNCHANGED vars
  BY <1>4, MirrorStays DEF vars
<1> QED BY <1>1, <1>2, <1>3, <1>4 DEF Next

-----------------------------------------------------------------------------
\* The pass over the stored gateway.

\* A pass over the stored gateway works with its spec and its uid.
LEMMA PassFacts ==
    ASSUME Guarded, InstanceMirrors, NEW g \in Gateways, Passing(g)
    PROVE  /\ pc # "idle" /\ req = g /\ Exists(gateways[g])
           /\ wanted = StoredSpec(g)
           /\ uid = gateways[g].content.uid
           /\ instance.content.deployed = gateways[g].content.deployed
           /\ pc \in Entering => Live(g)
<1>1. pc # "idle" /\ req = g /\ instance.version = gateways[req].version
  BY DEF Passing, Working
<1>2. pc \in Entering => ~instance.content.deleting
  BY DEF Guarded, WorkerIsEntitled
<1>3. gateways[req].content.deleting = instance.content.deleting
  BY <1>1 DEF Guarded, InstanceFollows
<1>4. /\ Exists(gateways[g]) /\ wanted = StoredSpec(g) /\ uid = gateways[g].content.uid
      /\ instance.content.deployed = gateways[g].content.deployed
  BY <1>1 DEF InstanceMirrors, wanted, uid
<1>5. pc \in Entering => Live(g)
  BY <1>1, <1>2, <1>3, <1>4 DEF Live
<1> QED BY <1>1, <1>4, <1>5

\* Of the pass under way only what happens without an error and without a change
\* of the gateway is left to be shown.
LEMMA PassServes ==
    ASSUME Guarded, TypeOK', Progress, NEW g \in Gateways, g = req, pc # "idle", Served(g),
           gatewayCache'[g] = gatewayCache[g], queue \subseteq queue',
           /\ Exists(gateways[g]) /\ gateways'[g] = gateways[g]
           /\ Passing(g) /\ Progressed(g)
           => Served(g)'
    PROVE  Served(g)'
<1>0. TypeOK /\ CachesFollow
  BY DEF Guarded
<1>1. CASE gateways'[g] # gateways[g]
  BY <1>0, <1>1, ChangeIsAttended DEF Served
<1>2. CASE ~Exists(gateways[g]) /\ gateways'[g] = gateways[g]
  BY <1>2 DEF Served, Exists
<1>3. CASE Attended(g)
  BY <1>0, <1>3, AttentionStays DEF Served
<1>4. Working(g)
  BY DEF Working
<1> QED BY <1>1, <1>2, <1>3, <1>4 DEF Served

\* Orders are numbers, each kind has its own.
LEMMA OrderFacts ==
    ASSUME NEW step \in EnsureSteps, NEW other \in EnsureSteps
    PROVE  /\ Order[step] \in 1 .. 10
           /\ Order[step] = Order[other] => step = other
BY DEF EnsureSteps, Order

\* Continue skips only what the instance does not ask for.
LEMMA SkippedIsNotWanted ==
    ASSUME Continue, NEW kind \in Kinds, Order[kind] > Position(pc),
           NEW next, next = pc', Order[kind] < Order[next]
    PROVE  kind \in RBACKinds /\ ~(wanted.rbac /\ wanted.serviceAccount.enable)
<1>1. kind \in EnsureSteps /\ kind \notin {"Status", "Skywalking"}
  BY KindsAssumption DEF AllKinds, EnsureSteps, Order
<1>2. PICK q \in Later(pc) : q = next /\ \A other \in Later(pc) : Order[q] <= Order[other]
  BY DEF Continue, GoTo
<1>3. q \in EnsureSteps
  BY <1>2 DEF Later
<1>4. Order[kind] \in Nat /\ Order[q] \in Nat
  BY <1>1, <1>3, OrderFacts
<1>5. kind \notin Later(pc)
  BY <1>2, <1>4
<1>6. ~Applies(kind)
  BY <1>1, <1>5 DEF Later
<1> QED BY <1>1, <1>6 DEF Applies

\* A pass that goes on after a step that kept its kind.
LEMMA ContinueServes ==
    ASSUME Guarded, TypeOK', InstanceMirrors, NEW g \in Gateways, Passing(g),
           gateways'[g] = gateways[g], UNCHANGED terminating,
           Continue, instance'.version = gateways[g].version,
           NEW before, before = Position(pc),
           g.ns \notin terminating =>
              \A kind \in Kinds : Order[kind] <= before => Kept(kind, g)'
    PROVE  Served(g)'
<1>1. pc # "idle" /\ req = g /\ wanted = StoredSpec(g)
  BY PassFacts
<1>2. pc' \in EnsureSteps /\ req' = g /\ pc' # "idle"
  BY <1>1, ContinueFacts DEF EnsureSteps, Order
<1>3. Passing(g)'
  BY <1>2 DEF Passing, Working
<1>4. PICK next \in EnsureSteps : next = pc'
  BY <1>2
<1>5. ASSUME NEW kind \in Kinds, g.ns \notin terminating, Order[kind] < Order[next]
      PROVE  Kept(kind, g)'
  <2>1. CASE Order[kind] <= before
    BY <1>5, <2>1
  <2>2. CASE ~(Order[kind] <= before)
    <3>1. Order[kind] \in Nat /\ before \in Nat
      <4>1. kind \in EnsureSteps
        BY KindsAssumption DEF AllKinds, EnsureSteps, Order
      <4> QED BY <4>1, OrderFacts DEF Position
    <3>2. ~Asked(kind, g)
      BY <1>1, <1>4, <1>5, <2>2, <3>1, SkippedIsNotWanted DEF Asked
    <3>3. Asked(kind, g)' <=> Asked(kind, g)
      BY DEF Asked, StoredSpec
    <3> QED BY <3>2, <3>3 DEF Kept
  <2> QED BY <2>1, <2>2
<1>6. Progressed(g)'
  BY <1>4, <1>5 DEF Progressed
<1> QED BY <1>3, <1>6 DEF Served

-----------------------------------------------------------------------------
\* Step by step: the gateway of the pass.

\* checkNamespace ends the pass only for a namespace that terminates.
LEMMA NamespaceServes ==
    ASSUME NamespaceReadsSucceed, Guarded, TypeOK', Progress, InstanceMirrors,
           NEW g \in Gateways, g = req, Served(g), checkNamespace
    PROVE  Served(g)'
<1>1. /\ pc = "namespace" /\ pc # "idle" /\ pc \in Entering /\ queue \subseteq queue'
      /\ UNCHANGED <<gatewayCache, gateways, terminating>>
  BY ContinueFacts
     DEF checkNamespace, Entering, cacheVars, serverVars, Finish, GoTo
<1> SUFFICES ASSUME Exists(gateways[g]), gateways'[g] = gateways[g],
                    Passing(g), Progressed(g)
             PROVE  Served(g)'
  BY <1>1, PassServes
<1>2. Live(g)
  BY <1>1, PassFacts
<1>3. CASE req.ns \in terminating /\ Finish
  <2>1. Done(g)'
    BY <1>1, <1>2, <1>3 DEF Done, Live, Exists
  <2>2. ~Working(g)'
    BY <1>3 DEF Working, Finish, Idle
  <2> QED BY <2>1, <2>2 DEF Served
<1>4. CASE GoTo("addFinalizer") /\ UNCHANGED instance
  <2>1. Passing(g)' /\ Progressed(g)'
    BY <1>1, <1>4 DEF Passing, Working, Progressed, GoTo, EnsureSteps, Order
  <2> QED BY <2>1 DEF Served
<1>5. CASE Continue /\ UNCHANGED instance
  <2>1. Position(pc) = 0 /\ \A kind \in Kinds : ~(Order[kind] <= 0)
    <3>1. Kinds \subseteq EnsureSteps
      BY KindsAssumption DEF AllKinds, EnsureSteps, Order
    <3>2. \A kind \in EnsureSteps : Order[kind] \in 1 .. 10
      BY OrderFacts
    <3>3. "namespace" \notin EnsureSteps
      BY DEF EnsureSteps, Order
    <3> QED BY <1>1, <3>1, <3>2, <3>3 DEF Position
  <2>2. instance'.version = gateways[g].version
    BY <1>5 DEF Passing
  <2> QED BY <1>1, <1>5, <2>1, <2>2, ContinueServes
<1> QED BY <1>3, <1>4, <1>5 DEF checkNamespace, NamespaceReadsSucceed, Fault

\* addFinalizer changes the gateway, or finds it as it wants it.
LEMMA AddFinalizerServes ==
    ASSUME Guarded, TypeOK', Progress, InstanceMirrors,
           NEW g \in Gateways, g = req, Served(g), addFinalizer
    PROVE  Served(g)'
<1> DEFINE answer == Update(gateways[req], instance, [instance.content EXCEPT !.finalizer = TRUE])
<1>1. /\ pc = "addFinalizer" /\ pc # "idle" /\ queue \subseteq queue'
      /\ UNCHANGED <<gatewayCache, terminating>>
      /\ \/ Retry
         \/ /\ Continue /\ instance' = answer.object
            /\ gateways' = [gateways EXCEPT ![req] = answer.object]
  BY ContinueFacts DEF addFinalizer, CallForGateway, cacheVars, Retry
<1> SUFFICES ASSUME Exists(gateways[g]), gateways'[g] = gateways[g],
                    Passing(g), Progressed(g)
             PROVE  Served(g)'
  BY <1>1, PassServes
<1>2. CASE Retry
  BY <1>2 DEF Retry, Served, Attended
<1>3. CASE /\ Continue /\ instance' = answer.object
           /\ gateways' = [gateways EXCEPT ![req] = answer.object]
  <2>1. instance' = gateways[g]
    BY <1>3 DEF Guarded, TypeOK
  <2>2. Position(pc) = 0 /\ \A kind \in Kinds : ~(Order[kind] <= 0)
    <3>1. Kinds \subseteq EnsureSteps
      BY KindsAssumption DEF AllKinds, EnsureSteps, Order
    <3>2. \A kind \in EnsureSteps : Order[kind] \in 1 .. 10
      BY OrderFacts
    <3>3. "addFinalizer" \notin EnsureSteps
      BY DEF EnsureSteps, Order
    <3> QED BY <1>1, <3>1, <3>2, <3>3 DEF Position
  <2> QED BY <1>1, <1>3, <2>1, <2>2, ContinueServes
<1> QED BY <1>1, <1>2, <1>3

\* A call for an object is tried again, or has kept what it is for.
LEMMA EnsureServes ==
    ASSUME SubjectsAreDistinct, AddressesAreKept, Guarded, TypeOK', Progress, InstanceMirrors,
           Tidy, Tidy', NEW g \in Gateways, g = req, pc # "idle", Served(g), Ensures
    PROVE  Served(g)'
<1>0. TypeOK /\ queue \subseteq queue'
      /\ UNCHANGED <<gateways, terminating, gatewayCache, objectCache>>
  BY ContinueFacts DEF Guarded, Ensures, Retry
<1> SUFFICES ASSUME Exists(gateways[g]), gateways'[g] = gateways[g],
                    Passing(g), Progressed(g)
             PROVE  Served(g)'
  BY <1>0, PassServes
<1>1. CASE Retry
  BY <1>1 DEF Retry, Served, Attended
<1>2. CASE ~Retry
  <2>1. PICK object : /\ Lands(keyOf(pc), object) /\ Ensured(object)
                      /\ Continue /\ UNCHANGED instance
    BY <1>2 DEF Ensures
  <2>2. PICK own \in Kinds : own = pc
    BY DEF Ensures
  <2>3. own \in EnsureSteps /\ Kinds \subseteq EnsureSteps
    BY KindsAssumption DEF AllKinds, EnsureSteps, Order
  <2>4. wanted = StoredSpec(g) /\ uid = gateways[g].content.uid
    BY PassFacts
  <2>5. Kept(own, g)'
    BY <1>0, <2>1, <2>2, <2>4, KeptByOwn
  <2>6. ASSUME g.ns \notin terminating, NEW kind \in Kinds, Order[kind] <= Order[own],
               kind # own
        PROVE  Kept(kind, g)'
    <3>1. Order[kind] < Order[own]
      BY <2>3, <2>6, OrderFacts
    <3>2. Kept(kind, g)
      BY <2>2, <2>3, <2>6, <3>1 DEF Progressed
    <3>3. Home(kind, g) \in Keys /\ Home(kind, g).kind = kind
      BY <1>0, HomeFacts
    <3>4. keyOf(pc) # Home(kind, g)
      BY <1>0, <2>2, <2>6, <3>3, KeyOfFacts
    <3>5. objects'[Home(kind, g)] = objects[Home(kind, g)]
          /\ pending'[Home(kind, g)] = pending[Home(kind, g)]
      BY <2>1, <3>3, <3>4 DEF Lands
    <3> QED BY <1>0, <3>2, <3>5, KeptStays
  <2>7. Position(pc) = Order[own]
    BY <2>2, <2>3 DEF Position
  <2>8. instance'.version = gateways[g].version
    BY <2>1 DEF Passing
  <2> QED BY <1>0, <2>1, <2>5, <2>6, <2>7, <2>8, ContinueServes
<1> QED BY <1>1, <1>2

\* finalizeHigressGateway goes on to removeFinalizer.
LEMMA FinalizeServes ==
    ASSUME Guarded, TypeOK', Progress, NEW g \in Gateways, g = req, Served(g),
           finalizeHigressGateway
    PROVE  Served(g)'
<1>1. /\ pc # "idle" /\ UNCHANGED gatewayCache
      /\ Retry \/ (GoTo("removeFinalizer") /\ UNCHANGED instance)
  BY DEF finalizeHigressGateway, BindingNotFound
<1>2. queue \subseteq queue'
  BY <1>1 DEF Retry, GoTo
<1> SUFFICES ASSUME Exists(gateways[g]), gateways'[g] = gateways[g],
                    Passing(g), Progressed(g)
             PROVE  Served(g)'
  BY <1>1, <1>2, PassServes
<1>3. CASE Retry
  BY <1>3 DEF Retry, Served, Attended
<1>4. CASE GoTo("removeFinalizer") /\ UNCHANGED instance
  <2>1. Passing(g)' /\ Progressed(g)'
    BY <1>4 DEF Passing, Working, Progressed, GoTo, EnsureSteps, Order
  <2> QED BY <2>1 DEF Served
<1> QED BY <1>1, <1>3, <1>4

\* removeFinalizer deletes the gateway, or tries again.
LEMMA RemoveFinalizerServes ==
    ASSUME Guarded, TypeOK', Progress, NEW g \in Gateways, g = req, Served(g), removeFinalizer
    PROVE  Served(g)'
<1> DEFINE answer == Update(gateways[req], instance, Nothing)
<1>1. /\ pc # "idle" /\ UNCHANGED gatewayCache /\ queue \subseteq queue'
      /\ \/ Retry
         \/ answer.ok /\ gateways' = [gateways EXCEPT ![req] = answer.object]
  BY DEF removeFinalizer, CallForGateway, cacheVars, Retry, Finish
<1>2. CASE Retry
  BY <1>2 DEF Retry, Served, Attended
<1>3. CASE answer.ok /\ gateways' = [gateways EXCEPT ![req] = answer.object]
  <2>1. gateways'[g] = Written(gateways[g], Nothing)
    BY <1>3 DEF Update, Answer, Guarded, TypeOK
  <2>2. gateways'[g].content = Nothing
    BY <2>1 DEF Written
  <2> QED BY <2>2 DEF Served, Exists
<1> QED BY <1>1, <1>2, <1>3

\* updateStatus reports a pass that has kept every kind.
LEMMA StatusServes ==
    ASSUME Guarded, TypeOK', Progress, InstanceMirrors, Tidy,
           NEW g \in Gateways, g = req, Served(g), updateStatus
    PROVE  Served(g)'
<1> DEFINE content == [gateways[req].content EXCEPT !.deployed = TRUE]
           answer == Update(gateways[req], instance, content)
<1>0. TypeOK
  BY DEF Guarded
<1>1. /\ pc = "Status" /\ pc # "idle" /\ UNCHANGED <<gatewayCache, objects, pending, terminating>>
      /\ queue \subseteq queue'
      /\ \/ Retry
         \/ Finish /\ instance.content.deployed
         \/ /\ ~instance.content.deployed /\ answer.ok
            /\ gateways' = [gateways EXCEPT ![req] = answer.object]
  BY DEF updateStatus, CallForGateway, cacheVars, serverVars, Retry, Finish
<1> SUFFICES ASSUME Exists(gateways[g]), gateways'[g] = gateways[g],
                    Passing(g), Progressed(g)
             PROVE  Served(g)'
  BY <1>1, PassServes
<1>2. CASE Retry
  BY <1>2 DEF Retry, Served, Attended
<1>3. CASE Finish /\ instance.content.deployed
  <2>1. pc \in Entering /\ pc \in EnsureSteps /\ Order[pc] = 10
    BY <1>1 DEF Entering, EnsureSteps, Order
  <2>2. Live(g) /\ gateways[g].content.deployed
    BY <1>3, <2>1, PassFacts
  <2>3. ASSUME g.ns \notin terminating, NEW kind \in Kinds PROVE Kept(kind, g)'
    <3>1. Order[kind] < 10
      BY KindsAssumption DEF AllKinds, Order
    <3>2. Kept(kind, g)
      BY <2>1, <2>3, <3>1 DEF Progressed
    <3> QED BY <1>0, <1>1, <3>2, KeptStays
  <2>4. Done(g)'
    BY <1>1, <2>2, <2>3 DEF Done, Live, Exists
  <2>5. ~Working(g)'
    BY <1>3 DEF Finish, Idle, Working
  <2> QED BY <2>4, <2>5 DEF Served
<1>4. CASE /\ ~instance.content.deployed /\ answer.ok
           /\ gateways' = [gateways EXCEPT ![req] = answer.object]
  <2>1. ~gateways[g].content.deployed
    BY <1>4, PassFacts
  <2>2. content.deployed
    <3>1. gateways[g].content \in GatewayContent(StoredSpecs(g))
      BY <1>0 DEF TypeOK, Object, Exists
    <3> QED BY <3>1 DEF GatewayContent
  <2> HIDE DEF content
  <2>3. gateways'[g] = Written(gateways[g], content)
    BY <1>0, <1>4 DEF Update, Answer, TypeOK
  <2>4. gateways'[g].content = content
    BY <2>3 DEF Written
  <2> QED BY <2>1, <2>2, <2>4
<1> QED BY <1>1, <1>2, <1>3, <1>4

-----------------------------------------------------------------------------
\* Step by step: the other gateways.

\* A pass writes its own gateway, and what it writes of objects keeps the others'.
LEMMA OthersAreServed ==
    ASSUME SubjectsAreDistinct, StaleReadsAreWatched, Guarded, TypeOK', Progress, Tidy,
           NEW g \in Gateways, g # req, Served(g), Worker
    PROVE  Served(g)'
<1>0. TypeOK /\ CachesFollow /\ pc # "idle" /\ ~Working(g)
  BY WorkerCases DEF Guarded, Working
<1>1. CASE Ensures
  <2>1. /\ UNCHANGED <<gateways, gatewayCache, terminating>> /\ queue \subseteq queue'
        /\ Idle \/ req' = req
    BY <1>1, ContinueFacts DEF Ensures, Retry
  <2>2. ~Working(g)'
    BY <2>1 DEF Working, Idle
  <2>3. PICK object : /\ Lands(keyOf(pc), object)
                      /\ object = objects[keyOf(pc)] \/ Ensured(object)
    BY <1>1 DEF Ensures
  <2>4. ASSUME NEW kind \in Kinds, Exists(gateways[g]), Kept(kind, g) PROVE Kept(kind, g)'
    <3>1. CASE object = objects[keyOf(pc)]
      <4>1. Home(kind, g) \in Keys
        BY <1>0, <2>4, HomeFacts
      <4>2. objects'[Home(kind, g)] = objects[Home(kind, g)]
            /\ pending'[Home(kind, g)] = pending[Home(kind, g)]
        BY <2>3, <3>1, <4>1 DEF Lands
      <4> QED BY <1>0, <2>1, <2>4, <4>2, KeptStays
    <3>2. CASE Ensured(object)
      <4>1. pc \in Kinds
        BY <1>1 DEF Ensures
      <4> QED BY <1>0, <2>1, <2>3, <2>4, <3>2, <4>1, KeptByOthers
    <3> QED BY <2>3, <3>1, <3>2
  <2> QED BY <1>0, <2>1, <2>2, <2>4, ServedStays
<1>2. CASE finalizeHigressGateway
  <2>1. /\ UNCHANGED <<gateways, gatewayCache, terminating>> /\ queue \subseteq queue'
        /\ Idle \/ req' = req
    BY <1>2 DEF finalizeHigressGateway, BindingNotFound, Retry, GoTo
  <2>2. ~Working(g)'
    BY <2>1 DEF Working, Idle
  <2>3. PICK k \in Keys : \E object :
              /\ k.kind = "ClusterRoleBinding"
              /\ Lands(k, object)
              /\ \/ object = objects[k]
                 \/ /\ Exists(objects[k]) /\ Exists(object)
                    /\ \A s \in objects[k].content.subjects :
                          s # Subject(req, wanted) => s \in object.content.subjects
    BY <1>0, <1>2, FinalizeLands
  <2>4. ASSUME NEW kind \in Kinds, Exists(gateways[g]), Kept(kind, g) PROVE Kept(kind, g)'
    BY <1>0, <2>1, <2>3, <2>4, KeptByFinalizers
  <2> QED BY <1>0, <2>1, <2>2, <2>4, ServedStays
<1>3. CASE Panics
  BY <1>0, <1>3, RestartServes DEF Panics
<1>4. CASE /\ UNCHANGED <<gatewayCache, terminating, objects, pending>>
           /\ queue \subseteq queue' /\ (Idle \/ req' = req)
  <2>1. ~Working(g)'
    BY <1>4 DEF Working, Idle
  <2> QED BY <1>0, <1>4, <2>1, QuietServes
<1>5. ASSUME checkNamespace \/ GivesUp
      PROVE  /\ UNCHANGED <<gatewayCache, terminating, objects, pending>>
             /\ queue \subseteq queue' /\ (Idle \/ req' = req)
  BY <1>5, ContinueFacts
     DEF checkNamespace, GivesUp, serverVars, cacheVars, Finish, Retry, GoTo
<1>6. ASSUME addFinalizer \/ removeFinalizer
      PROVE  /\ UNCHANGED <<gatewayCache, terminating, objects, pending>>
             /\ queue \subseteq queue' /\ (Idle \/ req' = req)
  BY <1>6, ContinueFacts
     DEF addFinalizer, removeFinalizer, CallForGateway, cacheVars, Finish, Retry
<1>7. ASSUME updateStatus
      PROVE  /\ UNCHANGED <<gatewayCache, terminating, objects, pending>>
             /\ queue \subseteq queue' /\ (Idle \/ req' = req)
  BY <1>7 DEF updateStatus, CallForGateway, serverVars, cacheVars, Finish, Retry
<1> QED BY <1>0, <1>1, <1>2, <1>3, <1>4, <1>5, <1>6, <1>7, WorkerCases

\* The worker serves the gateway of its pass, and leaves the others served.
LEMMA WorkerServes ==
    ASSUME Hypotheses, Guarded, TypeOK', Progress, InstanceMirrors, Tidy, Tidy',
           NEW g \in Gateways, Served(g), Worker
    PROVE  Served(g)'
<1>0. /\ NamespaceReadsSucceed /\ SubjectsAreDistinct /\ AddressesAreKept
      /\ StaleReadsAreWatched
  BY DEF Hypotheses
<1>1. TypeOK /\ CachesFollow /\ pc # "idle"
  BY <1>0, WorkerCases DEF Guarded
<1>2. CASE g # req
  BY <1>0, <1>2, OthersAreServed
<1>3. CASE g = req
  <2>1. Panics => Served(g)'
    BY <1>1, RestartServes DEF Panics
  <2>2. GivesUp => Served(g)'
    BY <1>3 DEF GivesUp, Retry, Served, Attended
  <2> QED BY <1>0, <1>1, <1>3, <2>1, <2>2, WorkerCases, NamespaceServes, AddFinalizerServes,
             FinalizeServes, RemoveFinalizerServes, EnsureServes, StatusServes
<1> QED BY <1>2, <1>3

\* Reconcile starts a pass over the stored gateway, or the event of the change it
\* has missed is still to come.
LEMMA ReconcileServes ==
    ASSUME Guarded, DeletionIsGuarded, TypeOK', Progress, Tidy,
           NEW f \in Gateways, Reconcile(f), NEW g \in Gateways, Served(g)
    PROVE  Served(g)'
<1> DEFINE read == gatewayCache[f]
           ready == [read EXCEPT !.content.spec = setDefaultValues(f, @)]
<1>0. /\ TypeOK /\ CachesFollow /\ pc = "idle" /\ ~Working(g)
      /\ UNCHANGED <<gateways, objects, terminating, gatewayCache, pending>>
  BY DEF Reconcile, Guarded, Working, serverVars, cacheVars
<1>1. CASE UNCHANGED workerVars /\ UNCHANGED queue
  BY <1>0, <1>1, QuietServes
<1>2. CASE /\ queue' = queue \ {f}
           /\ IF Exists(read) /\ (read.content.deleting => read.content.finalizer)
              THEN /\ req' = f
                   /\ instance' = ready
                   /\ pc' = IF read.content.deleting THEN "finalize" ELSE "namespace"
              ELSE UNCHANGED workerVars
  <2>1. CASE g # f
    <3>1. ~Working(g)'
      BY <1>0, <1>2, <2>1 DEF Working, workerVars
    <3> QED BY <1>0, <1>2, <2>1, <3>1, QuietServes
  <2>2. CASE g = f
    <3> SUFFICES ASSUME Exists(gateways[g]), ~(gatewayCache[g].version < gateways[g].version)
                 PROVE  Served(g)'
      BY <1>0 DEF Served, Attended, Exists
    <3>1. /\ gatewayCache[g].version \in Nat /\ gateways[g].version \in Nat
          /\ gatewayCache[g].version <= gateways[g].version
      BY <1>0 DEF TypeOK, Object, CachesFollow, Follows
    <3>2. read.version = gateways[g].version /\ read.content = gateways[g].content
      BY <1>0, <2>2, <3>1 DEF CachesFollow, Follows
    <3>3. Exists(read) /\ (read.content.deleting => read.content.finalizer)
      BY <3>2 DEF Exists, DeletionIsGuarded, Registered
    <3>4. /\ req' = f /\ instance' = ready /\ pc' \in {"finalize", "namespace"}
      BY <1>2, <3>3
    <3>5. ready.version = read.version
      BY <1>0 DEF TypeOK, Object
    <3> HIDE DEF ready
    <3>6. Passing(g)' /\ Progressed(g)'
      BY <1>0, <2>2, <3>2, <3>4, <3>5
         DEF Passing, Working, Progressed, EnsureSteps, Order
    <3> QED BY <3>6 DEF Served
  <2> QED BY <2>1, <2>2
<1> QED BY <1>1, <1>2 DEF Reconcile

-----------------------------------------------------------------------------
\* The invariant and the theorem.

\* At first there is nothing.
LEMMA InitServes ==
    ASSUME Init PROVE Serving
<1>1. Guarded
  BY InitGuard
<1>2. \A g \in Gateways : ~Exists(gateways[g])
  BY DEF Init, NeverStored, Exists
<1>3. \A k \in Keys : ~Exists(objects[k]) /\ pending[k] = {}
  BY DEF Init, NeverStored, Exists
<1>4. DeletionIsGuarded /\ (\A g \in Gateways : Served(g)) /\ InstanceMirrors
  BY <1>2 DEF DeletionIsGuarded, Served, InstanceMirrors, Init
<1>5. Tidy
  BY <1>3 DEF Tidy, EventsAreDue, OwnersAreRight, AddressesAreRight
<1> QED BY <1>1, <1>4, <1>5 DEF Serving

\* Every step keeps the invariant.
LEMMA StepServes ==
    ASSUME Hypotheses, Serving, [Next]_vars PROVE Serving'
<1>0. TypeOK /\ CachesFollow /\ Guarded /\ DeletionIsGuarded /\ InstanceMirrors /\ Tidy
  BY DEF Serving, Guarded
<1>1. StaleReadsAreWatched /\ DriftIsWatched
  BY DEF Hypotheses
<1>2. TypeOK' /\ Progress
  BY <1>0, StepTypes
<1>3. Guarded' /\ DeletionIsGuarded' /\ InstanceMirrors' /\ Tidy'
  BY <1>0, <1>1, <1>2, StepGuard, StepKeepsDeletion, StepMirrors, StepTidies
<1>4. ASSUME NEW g \in Gateways PROVE Served(g)'
  <2>0. Served(g)
    BY DEF Serving
  <2>1. CASE Worker
    BY <1>0, <1>2, <1>3, <2>0, <2>1, WorkerServes
  <2>2. CASE \E f \in Gateways : Reconcile(f)
    BY <1>0, <1>2, <2>0, <2>2, ReconcileServes
  <2>3. CASE User \/ Cluster \/ Crash
    BY <1>0, <1>1, <1>2, <2>0, <2>3, EnvironmentServes
  <2>4. CASE UNCHANGED vars
    <3>1. UNCHANGED <<gatewayCache, queue, terminating, workerVars, objects, pending>>
      BY <2>4 DEF vars, serverVars, cacheVars
    <3> QED BY <1>0, <1>2, <2>0, <3>1, QuietServes
  <2> QED BY <2>1, <2>2, <2>3, <2>4 DEF Next
<1> QED BY <1>3, <1>4 DEF Serving

\* Where nothing is left to do, nobody but the spec is to be looked at.
LEMMA ServedIsConverged ==
    ASSUME Serving PROVE SettledIsConverged
<1> SUFFICES ASSUME Settled, NEW g \in Gateways, Exists(gateways[g])
             PROVE  Live(g) /\ (g.ns \notin terminating => Converged(g))
  BY DEF SettledIsConverged, Live
<1>0. TypeOK
  BY DEF Serving, Guarded
<1>1. ~Working(g) /\ ~Attended(g)
  <2>1. gatewayCache[g].version = gateways[g].version /\ gateways[g].version \in Nat
    BY <1>0 DEF Settled, TypeOK, Object
  <2> QED BY <2>1 DEF Settled, Working, Attended
<1>2. Done(g)
  BY <1>1 DEF Serving, Served, Passing
<1>3. ASSUME NEW kind \in Kinds PROVE ~Disturbed(Home(kind, g), g)
  <2>1. PICK h \in Keys : h = Home(kind, g)
    BY <1>0, HomeFacts
  <2>2. ~Garbage(h)
    BY DEF Settled
  <2>3. h.kind \in WatchedKinds => pending[h] = {}
    <3>1. h.kind \in WatchedKinds => objectCache[h] = objects[h] /\ objects[h].version \in Nat
      BY <1>0 DEF Settled, Followed, TypeOK, Object
    <3> QED BY <3>1 DEF Serving, Tidy, EventsAreDue
  <2> QED BY <2>1, <2>2, <2>3 DEF Disturbed
<1>4. Live(g)
  BY <1>2 DEF Done
<1>5. ASSUME g.ns \notin terminating PROVE Converged(g)
  BY <1>2, <1>3, <1>5 DEF Done, Kept, Converged
<1> QED BY <1>4, <1>5

\* The operator is level triggered.  Whatever users edit and delete, whatever the
\* cluster collects and evicts, whichever calls fail, and however often the process
\* dies: once nothing is queued, running, undelivered or to be collected, every
\* gateway that is not leaving has the objects its spec describes.
THEOREM SettledConverges ==
    ASSUME Hypotheses PROVE Spec => []SettledIsConverged
<1>1. Init => Serving
  BY InitServes
<1>2. Serving /\ [Next]_vars => Serving'
  BY StepServes
<1>3. Serving => SettledIsConverged
  BY ServedIsConverged
<1> QED BY <1>1, <1>2, <1>3, PTL DEF Spec
=============================================================================
