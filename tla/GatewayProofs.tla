---------------------------- MODULE GatewayProofs ----------------------------
(***************************************************************************)
(* Type correctness of the HigressGateway controller, for any number of    *)
(* gateways, specs, kinds, faults and crashes, and the effect of every     *)
(* action on which the proofs about access build.                          *)
(***************************************************************************)
EXTENDS GatewayProperties, TLAPS

-----------------------------------------------------------------------------
\* Values.

\* A write keeps an object an object; if the version stays so does the content.
LEMMA WrittenFacts ==
    ASSUME NEW V, NEW object \in Object(V), NEW content \in V \cup {Nothing}
    PROVE  /\ Written(object, content) \in Object(V)
           /\ Written(object, content).content = content
           /\ object.version <= Written(object, content).version
           /\ object.version = Written(object, content).version => content = object.content
BY DEF Written, Object

\* An object that was never stored has its type.
LEMMA NeverStoredType == ASSUME NEW V PROVE NeverStored \in Object(V)
BY DEF NeverStored, Object

\* setDefaultValues returns a spec, with the pointers that Reconcile follows set.
LEMMA DefaultedFacts ==
    ASSUME NEW g \in Gateways, NEW d \in DefaultedSpecs(g)
    PROVE  /\ d.serviceAccount \in ServiceAccountSpec
           /\ d.service \in ServiceSpec
           /\ d.selector \in Text
           /\ d.config \in Text
           /\ d.discoveryAddress \in Text
           /\ d.labelled \in BOOLEAN
           /\ \E s \in Specs : d.env = s.env
<1>1. PICK s \in Specs : d = setDefaultValues(g, s)
  BY DEF DefaultedSpecs
<1>2. s \in GatewaySpec /\ g.name \in Text
  BY GatewaysAssumption, SpecsAssumption DEF Name, Text
<1>3. d.serviceAccount \in ServiceAccountSpec
  BY <1>1, <1>2 DEF setDefaultValues, GatewaySpec, ServiceAccountSpec
<1>4. d.service \in ServiceSpec
  <2>1. d.service = IF s.service = Nil THEN [loadBalancerIP |-> ""] ELSE s.service
    BY <1>1, <1>2 DEF setDefaultValues, GatewaySpec
  <2>2. s.service \in ServiceSpec \cup {Nil}
    BY <1>2 DEF GatewaySpec
  <2>3. [loadBalancerIP |-> ""] \in ServiceSpec
    BY DEF ServiceSpec, Text
  <2> QED BY <2>1, <2>2, <2>3
<1>5. d.selector \in Text
  BY <1>1, <1>2 DEF setDefaultValues, GatewaySpec
<1>6. d.config \in Text /\ d.discoveryAddress \in Text /\ d.env = s.env
  BY <1>1, <1>2 DEF setDefaultValues, GatewaySpec
<1>7. d.labelled \in BOOLEAN
  BY <1>1, <1>2 DEF setDefaultValues, GatewaySpec
<1> QED BY <1>3, <1>4, <1>5, <1>6, <1>7

\* Defaults are filled in once: what has them all is left as it is.
LEMMA DefaultsAreComplete ==
    ASSUME NEW g \in Gateways, NEW s \in DefaultedSpecs(g)
    PROVE  setDefaultValues(g, s) = s
<1>0. PICK u \in Specs : s = setDefaultValues(g, u)
  BY DEF DefaultedSpecs
<1>1. u \in GatewaySpec /\ g.name \in Name
  BY GatewaysAssumption, SpecsAssumption
<1>2. s \in GatewaySpec
  <2>1. [enable |-> TRUE, name |-> g.name] \in ServiceAccountSpec
    BY <1>1 DEF ServiceAccountSpec, Name
  <2>2. [loadBalancerIP |-> ""] \in ServiceSpec
    BY DEF ServiceSpec, Text
  <2>3. [enable |-> FALSE, scripted |-> FALSE] \in SkywalkingSpec
    BY DEF SkywalkingSpec
  <2> DEFINE r == IF u.rbac = Nil THEN TRUE ELSE u.rbac
             a == IF u.serviceAccount = Nil
                  THEN [enable |-> TRUE, name |-> g.name] ELSE u.serviceAccount
             l == IF u.selector = "" THEN g.name ELSE u.selector
             v == IF u.service = Nil THEN [loadBalancerIP |-> ""] ELSE u.service
             w == IF u.skywalking = Nil
                  THEN [enable |-> FALSE, scripted |-> FALSE] ELSE u.skywalking
  <2>4. r \in BOOLEAN \cup {Nil}
    BY <1>1 DEF GatewaySpec
  <2>5. a \in ServiceAccountSpec \cup {Nil}
    BY <1>1, <2>1 DEF GatewaySpec
  <2>6. l \in Text
    BY <1>1 DEF GatewaySpec, Name
  <2>7. v \in ServiceSpec \cup {Nil}
    BY <1>1, <2>2 DEF GatewaySpec
  <2>8. w \in SkywalkingSpec \cup {Nil}
    BY <1>1, <2>3 DEF GatewaySpec
  <2>9. s = [u EXCEPT !.rbac = r, !.serviceAccount = a, !.selector = l,
                      !.service = v, !.skywalking = w]
    BY <1>0 DEF setDefaultValues
  <2> HIDE DEF r, a, l, v, w
  <2> QED BY <1>1, <2>4, <2>5, <2>6, <2>7, <2>8, <2>9 DEF GatewaySpec
<1>3. (IF s.rbac = Nil THEN TRUE ELSE s.rbac) = s.rbac
  BY <1>0, <1>1 DEF setDefaultValues, GatewaySpec
<1>4. (IF s.serviceAccount = Nil THEN [enable |-> TRUE, name |-> g.name]
       ELSE s.serviceAccount) = s.serviceAccount
  BY <1>0, <1>1 DEF setDefaultValues, GatewaySpec
<1>5. (IF s.selector = "" THEN g.name ELSE s.selector) = s.selector
  BY <1>0, <1>1 DEF setDefaultValues, GatewaySpec, Name
<1>6. (IF s.service = Nil THEN [loadBalancerIP |-> ""] ELSE s.service) = s.service
  BY <1>0, <1>1 DEF setDefaultValues, GatewaySpec
<1>7. (IF s.skywalking = Nil THEN [enable |-> FALSE, scripted |-> FALSE]
       ELSE s.skywalking) = s.skywalking
  BY <1>0, <1>1 DEF setDefaultValues, GatewaySpec
<1>8. setDefaultValues(g, s) = [s EXCEPT !.rbac = s.rbac,
         !.serviceAccount = s.serviceAccount, !.selector = s.selector,
         !.service = s.service, !.skywalking = s.skywalking]
  BY <1>3, <1>4, <1>5, <1>6, <1>7 DEF setDefaultValues
<1>9. [s EXCEPT !.rbac = s.rbac, !.serviceAccount = s.serviceAccount,
         !.selector = s.selector, !.service = s.service,
         !.skywalking = s.skywalking] = s
  BY <1>2 DEF GatewaySpec
<1> QED BY <1>8, <1>9

\* Filling in the defaults a second time changes nothing.
LEMMA DefaultsAreIdempotent ==
    ASSUME NEW g \in Gateways, NEW s \in StoredSpecs(g)
    PROVE  setDefaultValues(g, s) \in DefaultedSpecs(g)
BY DefaultsAreComplete DEF StoredSpecs, DefaultedSpecs

\* The second call of updateGatewayConfigMapSpec writes the address that the first
\* one filled in, so the ConfigMap names an address whatever the spec says.
LEMMA ConfigMapIsAddressed ==
    ASSUME NEW g \in Gateways, NEW d \in DefaultedSpecs(g)
    PROVE  /\ GatewayConfigMap(g, d) = [owner |-> Nil, mesh |-> WantedMesh(g, d)]
           /\ GatewayConfigMap(g, d) \in ContentOf("ConfigMap")
<1> DEFINE first == updateGatewayConfigMapSpec(g, d).spec
<1>1. PICK s \in Specs : d = setDefaultValues(g, s)
  BY DEF DefaultedSpecs
<1>2. s \in GatewaySpec
  BY SpecsAssumption
<1>3. /\ first.config = d.config
      /\ first.discoveryAddress =
            IF d.discoveryAddress # "" THEN d.discoveryAddress
            ELSE IF d.enableHigressIstio THEN "istiod" ELSE g.name
  BY <1>1, <1>2 DEF updateGatewayConfigMapSpec, setDefaultValues, GatewaySpec
<1>4. GatewayConfigMap(g, d) =
        [owner |-> Nil, mesh |-> [discoveryAddress |-> first.discoveryAddress,
                                  config |-> first.config]]
  BY DEF GatewayConfigMap, updateGatewayConfigMapSpec
<1>5. WantedMesh(g, d) = [discoveryAddress |-> first.discoveryAddress, config |-> first.config]
  BY <1>3 DEF WantedMesh
<1>6. d.discoveryAddress \in Text /\ d.config \in Text /\ g.name \in Text
  BY DefaultedFacts, GatewaysAssumption DEF Name
<1>7. first.discoveryAddress \in Text /\ first.config \in Text
  BY <1>3, <1>6 DEF Text
<1> QED BY <1>4, <1>5, <1>7 DEF ContentOf

\* The key of an object built for a gateway is a key of the instance; the key of a
\* cluster-scoped one has no namespace.
LEMMA KeyFacts ==
    ASSUME NEW g \in Gateways, NEW d \in DefaultedSpecs(g), NEW kind \in Kinds
    PROVE  /\ KeyOf(kind, g, d) \in Keys
           /\ KeyOf(kind, g, d).kind = kind
           /\ kind = "ClusterRoleBinding" =>
                KeyOf(kind, g, d) = Key(kind, "", getServiceAccount(g, d))
<1>1. KeyOf(kind, g, d) \in KeysOf(g, Kinds)
  BY DEF KeysOf
<1>2. KeyOf(kind, g, d) \in Keys
  BY <1>1 DEF Keys
<1>3. KeyOf(kind, g, d).kind = kind
  BY DEF KeyOf, Key
<1>4. kind = "ClusterRoleBinding" =>
        KeyOf(kind, g, d) = Key(kind, "", getServiceAccount(g, d))
  BY DEF KeyOf
<1> QED BY <1>2, <1>3, <1>4

\* Every key has a known kind; a ClusterRoleBinding has a name and no namespace.
LEMMA KeysAreNamed ==
    ASSUME NEW k \in Keys
    PROVE  /\ k.kind \in AllKinds
           /\ k.kind = "ClusterRoleBinding" => k = Key(k.kind, "", k.name)
<1>0. PICK g \in Gateways : k \in KeysOf(g, Kinds)
  BY DEF Keys
<1>1. PICK kind \in Kinds, d \in DefaultedSpecs(g) : k = KeyOf(kind, g, d)
  BY <1>0 DEF KeysOf
<1>2. k.kind = kind
  BY <1>1, KeyFacts
<1>3. kind = "ClusterRoleBinding" => k = Key(kind, "", getServiceAccount(g, d))
  BY <1>1 DEF KeyOf
<1>4. Key(kind, "", getServiceAccount(g, d)).name = getServiceAccount(g, d)
  BY DEF Key
<1> QED BY <1>1, <1>2, <1>3, <1>4, KindsAssumption

-----------------------------------------------------------------------------
\* Copies.

\* A copy is the object itself or an older version of it.
Follows(copy, object) ==
    /\ copy.version <= object.version
    /\ copy.version = object.version => copy.content = object.content

CachesFollow ==
    /\ \A g \in Gateways : Follows(gatewayCache[g], gateways[g])
    /\ \A k \in Keys : Follows(objectCache[k], objects[k])

-----------------------------------------------------------------------------
\* One write of an object.

Advances(before, after) ==
    /\ before.version <= after.version
    /\ before.version = after.version => before.content = after.content

\* A copy that follows an object follows it after the object has advanced.
LEMMA FollowsAdvances ==
    ASSUME NEW V, NEW a \in Object(V), NEW b \in Object(V), NEW c \in Object(V),
           Follows(a, b), Advances(b, c)
    PROVE  Follows(a, c)
BY DEF Object, Follows, Advances

\* CreateOrUpdate leaves the object as it was, or one version on with one of its contents.
LEMMA CreateOrUpdateFacts ==
    ASSUME NEW V, NEW object \in Object(V), NEW seen \in Object(V),
           NEW fresh \in V, NEW mutated \in V, NEW forced \in BOOLEAN
    PROVE  LET after == CreateOrUpdate(object, seen, fresh, mutated, forced).object
           IN  /\ after \in Object(V)
               /\ Advances(object, after)
               /\ \/ after = object
                  \/ ~Exists(object) /\ after.content = fresh
                  \/ Exists(object) /\ seen.version = object.version /\ after.content = mutated
<1> DEFINE after == CreateOrUpdate(object, seen, fresh, mutated, forced).object
<1>1. CASE ~Exists(seen)
  <2>1. after = IF ~Exists(object) THEN Written(object, fresh) ELSE object
    BY <1>1 DEF CreateOrUpdate, Create, Answer
  <2> QED BY <2>1, WrittenFacts DEF Advances, Object
<1>2. CASE Exists(seen) /\ (forced \/ mutated # seen.content)
  <2>1. after = IF Exists(object) /\ object.version = seen.version
                THEN Written(object, mutated) ELSE object
    BY <1>2 DEF CreateOrUpdate, Update, Answer, AcceptsVersion
  <2> QED BY <2>1, WrittenFacts DEF Advances, Object
<1>3. CASE Exists(seen) /\ ~(forced \/ mutated # seen.content)
  <2>1. after = object
    BY <1>3 DEF CreateOrUpdate
  <2> QED BY <2>1 DEF Advances, Object
<1> QED BY <1>1, <1>2, <1>3

IsBinding(k) == k.kind = "ClusterRoleBinding" /\ Exists(objects[k])

\* What a call for an object may do to the subjects of a binding: keep some of
\* them and add the subject of the gateway being reconciled.
AddsOnlyOwnSubject(k, object) ==
    k.kind = "ClusterRoleBinding" /\ Exists(object) =>
        \A s \in object.content.subjects :
            \/ IsBinding(k) /\ s \in objects[k].content.subjects
            \/ s = Subject(req, wanted) /\ s.name = k.name

\* What they create belongs to nobody or to the worker's own gateway.
OwnOwner == {Nil, Owner(req, uid)}
CreatesOwn(k, object) ==
    ~Exists(objects[k]) /\ Exists(object) => object.content.owner \in OwnOwner

\* All that the calls after the finalizer have in common.
EnsureEffect ==
    /\ pc \in EnsureSteps
    /\ UNCHANGED <<gateways, terminating, gatewayCache, objectCache, changes, crashes>>
    /\ \/ objects' = objects
       \/ \E k \in Keys : \E object \in Object(ContentOf(k.kind)) :
            /\ objects' = [objects EXCEPT ![k] = object]
            /\ Advances(objects[k], object)
            /\ AddsOnlyOwnSubject(k, object)
            /\ CreatesOwn(k, object)
    /\ pending' \in [Keys -> SUBSET Gateways]
    /\ queue' \subseteq Gateways
    /\ faults' \in 0 .. MaxFaults
    /\ (pc' \in EnsureSteps \ (AllKinds \ Kinds) /\ UNCHANGED <<req, instance>>) \/ Idle

\* The events of an object enqueue gateways.
LEMMA OwnersAreGateways ==
    ASSUME NEW k \in Keys, NEW object \in Object(ContentOf(k.kind))
    PROVE  OwnersOf(k, object) \subseteq Gateways
<1>1. CASE k.kind \in WatchedKinds /\ Exists(object) /\ object.content.owner # Nil
  <2>1. object.content \in ContentOf(k.kind)
    BY <1>1 DEF Object, Exists
  <2>2. object.content.owner \in Owners
    BY <2>1, <1>1 DEF ContentOf, WatchedKinds
  <2> QED BY <2>2, <1>1 DEF OwnersOf, Owners
<1>2. CASE ~(k.kind \in WatchedKinds /\ Exists(object) /\ object.content.owner # Nil)
  BY <1>2 DEF OwnersOf
<1> QED BY <1>1, <1>2

\* Store writes one object, and the owners it enqueues later are gateways.
LEMMA StoreEffect ==
    ASSUME TypeOK, NEW k \in Keys, NEW object \in Object(ContentOf(k.kind)), Store(k, object)
    PROVE  /\ objects' = [objects EXCEPT ![k] = object]
           /\ pending' \in [Keys -> SUBSET Gateways]
<1>1. OwnersOf(k, objects[k]) \subseteq Gateways /\ OwnersOf(k, object) \subseteq Gateways
  BY OwnersAreGateways DEF TypeOK
<1> QED BY <1>1 DEF Store, TypeOK

\* Reconcile goes on to a step whose kind is tracked.
LEMMA ContinueFacts ==
    ASSUME Continue
    PROVE  /\ pc' \in EnsureSteps \ (AllKinds \ Kinds)
           /\ UNCHANGED <<queue, req>>
<1>1. PICK next \in Later(pc) : GoTo(next)
  BY DEF Continue
<1>2. next \in EnsureSteps /\ Applies(next)
  BY <1>1 DEF Later
<1>3. next \notin AllKinds \ Kinds
  BY <1>2 DEF Applies, AllKinds, RBACKinds
<1> QED BY <1>1, <1>2, <1>3 DEF GoTo

\* A call for an object advances that object, moves or ends the pass, and changes nothing else.
LEMMA CallEffect ==
    ASSUME TypeOK, NEW k \in Keys, NEW answer,
           answer.object \in Object(ContentOf(k.kind)),
           Advances(objects[k], answer.object),
           AddsOnlyOwnSubject(k, answer.object),
           CreatesOwn(k, answer.object),
           pc \in EnsureSteps,
           CallForObject(k, answer)
    PROVE  EnsureEffect
<1> DEFINE result == Admitted(k, answer)
<1>1. result.object = answer.object \/ result.object = objects[k]
  BY DEF Admitted
<1>2. objects[k] \in Object(ContentOf(k.kind))
  BY DEF TypeOK
<1>3. /\ Advances(objects[k], objects[k])
      /\ AddsOnlyOwnSubject(k, objects[k])
      /\ CreatesOwn(k, objects[k])
  BY <1>2 DEF Object, Advances, AddsOnlyOwnSubject, CreatesOwn, IsBinding
<1>4. /\ result.object \in Object(ContentOf(k.kind))
      /\ Advances(objects[k], result.object)
      /\ AddsOnlyOwnSubject(k, result.object)
      /\ CreatesOwn(k, result.object)
  BY <1>1, <1>2, <1>3
<1>5. req \in Gateways /\ queue \subseteq Gateways
  BY DEF TypeOK, EnsureSteps, Order
<1>6. /\ UNCHANGED <<gateways, terminating, gatewayCache, objectCache, changes, crashes>>
      /\ faults' \in 0 .. MaxFaults
  BY BoundsAssumption DEF CallForObject, Fault, TypeOK
<1>7. /\ (pc' \in EnsureSteps \ (AllKinds \ Kinds) /\ UNCHANGED <<req, instance>>) \/ Idle
      /\ queue' \subseteq Gateways
  BY <1>5, ContinueFacts DEF CallForObject, GoTo, Retry
<1>8. \/ Store(k, result.object)
      \/ UNCHANGED <<objects, pending>>
  BY DEF CallForObject
<1>9. CASE Store(k, result.object)
  BY <1>4, <1>6, <1>7, <1>9, StoreEffect DEF EnsureEffect
<1>10. CASE UNCHANGED <<objects, pending>>
  BY <1>6, <1>7, <1>10 DEF EnsureEffect, TypeOK
<1> QED BY <1>8, <1>9, <1>10

\* What the worker reads of an object has the type of the object and follows it.
LEMMA SeenFacts ==
    ASSUME TypeOK, CachesFollow, NEW k \in Keys
    PROVE  /\ objects[k] \in Object(ContentOf(k.kind))
           /\ Seen(k) \in Object(ContentOf(k.kind))
           /\ Follows(Seen(k), objects[k])
BY DEF TypeOK, CachesFollow, Seen, Follows, Object

Own(k, s) == s = Subject(req, wanted) /\ s.name = k.name

\* The same for CreateOrUpdate, from the contents it builds.
LEMMA CreateOrUpdateEffect ==
    ASSUME TypeOK, CachesFollow, NEW k \in Keys, pc \in EnsureSteps,
           NEW fresh \in ContentOf(k.kind), NEW mutated \in ContentOf(k.kind),
           k.kind = "ClusterRoleBinding" =>
               /\ \A s \in fresh.subjects : Own(k, s)
               /\ Exists(Seen(k)) =>
                    \A s \in mutated.subjects : s \in Seen(k).content.subjects \/ Own(k, s),
           ~Exists(Seen(k)) => mutated = fresh,
           fresh.owner \in OwnOwner,
           CallForObject(k, CreateOrUpdate(objects[k], Seen(k), fresh, mutated, Forced(k)))
    PROVE  EnsureEffect
<1> DEFINE answer == CreateOrUpdate(objects[k], Seen(k), fresh, mutated, Forced(k))
           after == answer.object
<1>1. Forced(k) \in BOOLEAN
  BY DEF Forced
<1>2. /\ after \in Object(ContentOf(k.kind))
      /\ Advances(objects[k], after)
      /\ \/ after = objects[k]
         \/ ~Exists(objects[k]) /\ after.content = fresh
         \/ /\ Exists(objects[k])
            /\ Seen(k).version = objects[k].version
            /\ after.content = mutated
  BY <1>1, SeenFacts, CreateOrUpdateFacts
<1>3. AddsOnlyOwnSubject(k, after)
  <2> SUFFICES ASSUME k.kind = "ClusterRoleBinding", Exists(after), NEW s \in after.content.subjects
               PROVE  (IsBinding(k) /\ s \in objects[k].content.subjects) \/ Own(k, s)
    BY DEF AddsOnlyOwnSubject, Own
  <2>1. CASE after = objects[k]
    BY <2>1 DEF IsBinding
  <2>2. CASE ~Exists(objects[k]) /\ after.content = fresh
    BY <2>2
  <2>3. CASE /\ Exists(objects[k])
             /\ Seen(k).version = objects[k].version
             /\ after.content = mutated
    <3>1. Seen(k).content = objects[k].content
      BY <2>3, SeenFacts DEF Follows
    <3>2. Exists(Seen(k))
      BY <3>1, <2>3 DEF Exists
    <3> QED BY <2>3, <3>1, <3>2 DEF IsBinding
  <2> QED BY <1>2, <2>1, <2>2, <2>3
<1>4. CreatesOwn(k, after)
  BY <1>2 DEF CreatesOwn
<1>5. CallForObject(k, answer)
  OBVIOUS
<1> HIDE DEF answer
<1> QED BY <1>2, <1>3, <1>4, <1>5, CallEffect

\* The facts every step of the worker starts from.
LEMMA WorkerFacts ==
    ASSUME TypeOK, pc # "idle"
    PROVE  /\ req \in Gateways
           /\ wanted \in DefaultedSpecs(req)
           /\ uid \in Nat
           /\ Owner(req, uid) \in Owners
           /\ Subject(req, wanted) \in Subjects
<1>1. req \in Gateways /\ instance.content \in GatewayContent(DefaultedSpecs(req))
  BY DEF TypeOK
<1>2. wanted \in DefaultedSpecs(req) /\ uid \in Nat
  BY <1>1 DEF GatewayContent, wanted, uid
<1> QED BY <1>1, <1>2 DEF Owner, Owners, Subjects

\* The key of an object has the kind it was asked for, and is a key of the instance.
LEMMA KeyOfFacts ==
    ASSUME TypeOK, pc # "idle", NEW kind \in Kinds
    PROVE  /\ keyOf(kind) \in Keys
           /\ keyOf(kind).kind = kind
           /\ kind = "ClusterRoleBinding" =>
                keyOf(kind) = Key(kind, "", getServiceAccount(req, wanted))
BY WorkerFacts, KeyFacts DEF keyOf

-----------------------------------------------------------------------------
\* The steps after the finalizer, one by one.

\* createServiceAccount writes a service account.
LEMMA EnsuresServiceAccount ==
    ASSUME TypeOK, CachesFollow, createServiceAccount PROVE EnsureEffect
<1> DEFINE k == keyOf(pc)
           answer == CreateIfNotExists(objects[k], initServiceAccount(req, uid))
<1>1. pc \in EnsureSteps /\ pc = "ServiceAccount" /\ pc \in Kinds
  BY DEF createServiceAccount, EnsureSteps, Order, TypeOK, AllKinds
<1>2. k \in Keys /\ k.kind = "ServiceAccount"
  BY <1>1, KeyOfFacts
<1>3. initServiceAccount(req, uid) \in ContentOf(k.kind)
  BY <1>1, <1>2, WorkerFacts DEF initServiceAccount, ContentOf
<1>4. objects[k] \in Object(ContentOf(k.kind))
  BY <1>2 DEF TypeOK
<1>5. answer.object = IF Exists(objects[k]) THEN objects[k]
                      ELSE Written(objects[k], initServiceAccount(req, uid))
  BY DEF CreateIfNotExists, Create, Answer
<1>6. answer.object \in Object(ContentOf(k.kind)) /\ Advances(objects[k], answer.object)
  BY <1>3, <1>4, <1>5, WrittenFacts DEF Advances, Object
<1>7. AddsOnlyOwnSubject(k, answer.object)
  BY <1>2 DEF AddsOnlyOwnSubject
<1>8. CreatesOwn(k, answer.object)
  <2>1. Written(objects[k], initServiceAccount(req, uid)).content = initServiceAccount(req, uid)
    BY <1>3, <1>4, WrittenFacts
  <2> QED BY <1>5, <2>1 DEF CreatesOwn, OwnOwner, initServiceAccount
<1>9. CallForObject(k, answer)
  BY DEF createServiceAccount
<1> HIDE DEF answer, k
<1> QED BY <1>1, <1>2, <1>6, <1>7, <1>8, <1>9, CallEffect

\* createClusterRole and createRole write a role.
LEMMA EnsuresRules ==
    ASSUME TypeOK, CachesFollow, createClusterRole \/ createRole PROVE EnsureEffect
<1> DEFINE k == keyOf(pc)
           mutated == IF Exists(Seen(k)) THEN muteRules(Seen(k).content) ELSE initRules
<1>1. pc \in EnsureSteps /\ pc \in {"ClusterRole", "Role"} /\ pc \in Kinds
  BY DEF createClusterRole, createRole, EnsureSteps, Order, TypeOK, AllKinds
<1>2. k \in Keys /\ k.kind \in {"ClusterRole", "Role"}
  BY <1>1, KeyOfFacts
<1>3. initRules \in ContentOf(k.kind)
  BY <1>2 DEF initRules, ContentOf
<1>4. Exists(Seen(k)) => Seen(k).content \in ContentOf(k.kind)
  BY <1>2, SeenFacts DEF Object, Exists
<1>5. mutated \in ContentOf(k.kind)
  BY <1>2, <1>3, <1>4 DEF muteRules, ContentOf
<1>6. CallForObject(k, CreateOrUpdate(objects[k], Seen(k), initRules, mutated, Forced(k)))
  BY DEF createClusterRole, createRole, CreateOrUpdateObject
<1>7. (~Exists(Seen(k)) => mutated = initRules) /\ initRules.owner \in OwnOwner
  BY DEF initRules, OwnOwner
<1> HIDE DEF mutated, k
<1> QED BY <1>1, <1>2, <1>3, <1>5, <1>6, <1>7, CreateOrUpdateEffect

\* createClusterRoleBinding writes a binding of subjects of this instance.
LEMMA EnsuresClusterRoleBinding ==
    ASSUME TypeOK, CachesFollow, createClusterRoleBinding PROVE EnsureEffect
<1> DEFINE k == keyOf(pc)
           fresh == initClusterRoleBinding(req, wanted)
           mutated == IF Exists(Seen(k))
                      THEN updateClusterRoleBinding(Seen(k).content, req, wanted) ELSE fresh
<1>1. pc \in EnsureSteps /\ pc = "ClusterRoleBinding" /\ pc \in Kinds
  BY DEF createClusterRoleBinding, EnsureSteps, Order, TypeOK, AllKinds
<1>2. k \in Keys /\ k.kind = "ClusterRoleBinding"
  BY <1>1, KeyOfFacts
<1>3. Subject(req, wanted) \in Subjects /\ Subject(req, wanted).name = k.name
  <2>1. Subject(req, wanted) \in Subjects
    BY <1>1, WorkerFacts
  <2>2. k = Key("ClusterRoleBinding", "", getServiceAccount(req, wanted))
    BY <1>1, KeyOfFacts
  <2>3. Key("ClusterRoleBinding", "", getServiceAccount(req, wanted)).name
          = getServiceAccount(req, wanted)
    BY DEF Key
  <2> QED BY <2>1, <2>2, <2>3 DEF Subject
<1>4. fresh \in ContentOf(k.kind)
  BY <1>2, <1>3 DEF initClusterRoleBinding, ContentOf
<1>5. Exists(Seen(k)) => Seen(k).content \in ContentOf(k.kind)
  BY <1>2, SeenFacts DEF Object, Exists
<1>6. mutated \in ContentOf(k.kind)
  BY <1>2, <1>3, <1>4, <1>5 DEF updateClusterRoleBinding, ContentOf
<1>7. /\ \A s \in fresh.subjects : Own(k, s)
      /\ Exists(Seen(k)) =>
           \A s \in mutated.subjects : s \in Seen(k).content.subjects \/ Own(k, s)
  BY <1>2, <1>3, <1>5 DEF initClusterRoleBinding, updateClusterRoleBinding, Own, ContentOf
<1>8. CallForObject(k, CreateOrUpdate(objects[k], Seen(k), fresh, mutated, Forced(k)))
  BY DEF createClusterRoleBinding, CreateOrUpdateObject
<1>9. (~Exists(Seen(k)) => mutated = fresh) /\ fresh.owner \in OwnOwner
  BY DEF initClusterRoleBinding, OwnOwner
<1> HIDE DEF mutated, fresh, k
<1> QED BY <1>1, <1>2, <1>4, <1>6, <1>7, <1>8, <1>9, CreateOrUpdateEffect

\* createRoleBinding writes a binding of subjects of this instance.
LEMMA EnsuresRoleBinding ==
    ASSUME TypeOK, CachesFollow, createRoleBinding PROVE EnsureEffect
<1> DEFINE k == keyOf(pc)
           fresh == initRoleBinding(req, wanted)
           mutated == IF Exists(Seen(k))
                      THEN updateRoleBinding(Seen(k).content, req, wanted) ELSE fresh
<1>1. pc \in EnsureSteps /\ pc = "RoleBinding" /\ pc \in Kinds
  BY DEF createRoleBinding, EnsureSteps, Order, TypeOK, AllKinds
<1>2. k \in Keys /\ k.kind = "RoleBinding"
  BY <1>1, KeyOfFacts
<1>3. Subject(req, wanted) \in Subjects
  BY <1>1, WorkerFacts
<1>4. fresh \in ContentOf(k.kind)
  BY <1>2, <1>3 DEF initRoleBinding, ContentOf
<1>5. Exists(Seen(k)) => Seen(k).content \in ContentOf(k.kind)
  BY <1>2, SeenFacts DEF Object, Exists
<1>6. mutated \in ContentOf(k.kind)
  BY <1>2, <1>3, <1>4, <1>5 DEF updateRoleBinding, ContentOf
<1>7. CallForObject(k, CreateOrUpdate(objects[k], Seen(k), fresh, mutated, Forced(k)))
  BY DEF createRoleBinding, CreateOrUpdateObject
<1>8. (~Exists(Seen(k)) => mutated = fresh) /\ fresh.owner \in OwnOwner
  BY DEF initRoleBinding, OwnOwner
<1> HIDE DEF mutated, fresh, k
<1> QED BY <1>1, <1>2, <1>4, <1>6, <1>7, <1>8, CreateOrUpdateEffect

\* createConfigMap writes a ConfigMap.
LEMMA EnsuresConfigMap ==
    ASSUME TypeOK, CachesFollow, createConfigMap PROVE EnsureEffect
<1> DEFINE k == keyOf(pc)
           fresh == GatewayConfigMap(req, wanted)
           mutated == IF Exists(Seen(k))
                      THEN [Seen(k).content EXCEPT !.mesh = fresh.mesh] ELSE fresh
<1>1. pc \in EnsureSteps /\ pc = "ConfigMap" /\ pc \in Kinds
  BY DEF createConfigMap, EnsureSteps, Order, TypeOK, AllKinds
<1>2. k \in Keys /\ k.kind = "ConfigMap"
  BY <1>1, KeyOfFacts
<1>3. fresh \in ContentOf("ConfigMap")
  BY <1>1, WorkerFacts, ConfigMapIsAddressed
<1>4. Exists(Seen(k)) => Seen(k).content \in ContentOf("ConfigMap")
  BY <1>2, SeenFacts DEF Object, Exists
<1>5. mutated \in ContentOf("ConfigMap")
  BY <1>3, <1>4 DEF ContentOf
<1>6. CallForObject(k, CreateOrUpdate(objects[k], Seen(k), fresh, mutated, Forced(k)))
  BY DEF createConfigMap, CreateOrUpdateObject
<1>7. (~Exists(Seen(k)) => mutated = fresh) /\ fresh.owner \in OwnOwner
  BY DEF GatewayConfigMap, OwnOwner
<1> HIDE DEF mutated, fresh, k
<1> QED BY <1>1, <1>2, <1>3, <1>5, <1>6, <1>7, CreateOrUpdateEffect

\* createDeployment writes a Deployment, in whatever order its environment comes.
LEMMA EnsuresDeployment ==
    ASSUME TypeOK, CachesFollow, createDeployment PROVE EnsureEffect
<1>1. pc \in EnsureSteps /\ pc = "Deployment" /\ pc \in Kinds
  BY DEF createDeployment, EnsureSteps, Order, TypeOK, AllKinds
<1> DEFINE k == keyOf(pc)
           Deploy(owner, env) == updateDeploymentSpec(req, wanted, owner, env)
<1>2. k \in Keys /\ k.kind = "Deployment"
  BY <1>1, KeyOfFacts
<1>3. PICK env \in Orderings(wanted.env) :
        CallForObject(k, CreateOrUpdate(objects[k], Seen(k), Deploy(Owner(req, uid), env),
            IF Exists(Seen(k)) THEN Deploy(Seen(k).content.owner, env)
            ELSE Deploy(Owner(req, uid), env), Forced(k)))
  BY DEF createDeployment, CreateOrUpdateObject
<1>4. env \in Environments
  <2>1. PICK s \in Specs : wanted.env = s.env
    BY <1>1, WorkerFacts, DefaultedFacts
  <2> QED BY <2>1 DEF Environments
<1>5. \A owner \in Owners : Deploy(owner, env) \in ContentOf("Deployment")
  <2>1. wanted.serviceAccount \in ServiceAccountSpec /\ wanted.selector \in Text
        /\ wanted.config \in Text
    BY <1>1, WorkerFacts, DefaultedFacts
  <2> QED BY <1>4, <2>1 DEF updateDeploymentSpec, ContentOf, ServiceAccountSpec, Text
<1> DEFINE fresh == Deploy(Owner(req, uid), env)
           mutated == IF Exists(Seen(k)) THEN Deploy(Seen(k).content.owner, env) ELSE fresh
<1>6. fresh \in ContentOf("Deployment")
  BY <1>1, <1>5, WorkerFacts
<1>7. Exists(Seen(k)) => Seen(k).content.owner \in Owners
  <2>1. Exists(Seen(k)) => Seen(k).content \in ContentOf("Deployment")
    BY <1>2, SeenFacts DEF Object, Exists
  <2> QED BY <2>1 DEF ContentOf
<1>8. mutated \in ContentOf("Deployment")
  BY <1>5, <1>6, <1>7
<1>9. CallForObject(k, CreateOrUpdate(objects[k], Seen(k), fresh, mutated, Forced(k)))
  BY <1>3
<1>10. (~Exists(Seen(k)) => mutated = fresh) /\ fresh.owner \in OwnOwner
  BY DEF updateDeploymentSpec, OwnOwner
<1> HIDE DEF mutated, fresh, k
<1> QED BY <1>1, <1>2, <1>6, <1>8, <1>9, <1>10, CreateOrUpdateEffect

\* createService writes a Service, or panics.
LEMMA EnsuresService ==
    ASSUME TypeOK, CachesFollow, createService
    PROVE  EnsureEffect \/ (Restart /\ UNCHANGED <<serverVars, boundVars>>)
<1>1. pc \in EnsureSteps /\ pc = "Service" /\ pc \in Kinds
  BY DEF createService, EnsureSteps, Order, TypeOK, AllKinds
<1> DEFINE k == keyOf("Service")
           fresh == initService(req, uid, wanted)
           mutated == IF Exists(Seen(k)) THEN updateServiceSpec(Seen(k).content, wanted) ELSE fresh
<1>2. k \in Keys /\ k.kind = "Service"
  BY <1>1, KeyOfFacts
<1>3. /\ wanted.labelled \in BOOLEAN
      /\ wanted.selector \in Text
      /\ wanted.config \in Text
      /\ wanted.service.loadBalancerIP \in Text
  BY <1>1, WorkerFacts, DefaultedFacts DEF ServiceSpec
<1>4. fresh \in ContentOf("Service")
  BY <1>1, <1>3, WorkerFacts DEF initService, ContentOf
<1>5. Exists(Seen(k)) => Seen(k).content \in ContentOf("Service")
  BY <1>2, SeenFacts DEF Object, Exists
<1>6. mutated \in ContentOf("Service")
  <2>1. \A stored \in ContentOf("Service") :
          updateServiceSpec(stored, wanted) \in ContentOf("Service")
    BY <1>3 DEF updateServiceSpec, ContentOf
  <2> QED BY <1>4, <1>5, <2>1
<1>7. \/ CallForObject(k, CreateOrUpdate(objects[k], Seen(k), fresh, mutated, Forced(k)))
      \/ Restart /\ UNCHANGED <<serverVars, boundVars>>
  BY DEF createService, CreateOrUpdateObject
<1>8. (~Exists(Seen(k)) => mutated = fresh) /\ fresh.owner \in OwnOwner
  BY DEF initService, OwnOwner
<1> HIDE DEF mutated, fresh, k
<1> QED BY <1>1, <1>2, <1>4, <1>6, <1>7, <1>8, CreateOrUpdateEffect

-----------------------------------------------------------------------------
\* What every step respects: stored things only advance, and a copy stays as it
\* is or becomes what is stored.

Progress ==
    /\ \A g \in Gateways :
        /\ Advances(gateways[g], gateways'[g])
        /\ gatewayCache'[g] \in {gatewayCache[g], gateways'[g]}
    /\ \A k \in Keys :
        /\ Advances(objects[k], objects'[k])
        /\ objectCache'[k] \in {objectCache[k], objects'[k]}

\* The informers follow the server in a step in which the server only moves forward.
LEMMA CopiesKeepFollowing ==
    ASSUME TypeOK, TypeOK', CachesFollow, Progress PROVE CachesFollow'
<1>1. ASSUME NEW g \in Gateways PROVE Follows(gatewayCache'[g], gateways'[g])
  <2> DEFINE V == GatewayContent(StoredSpecs(g))
  <2>1. {gateways[g], gateways'[g], gatewayCache[g]} \subseteq Object(V)
    BY DEF TypeOK
  <2>2. Follows(gatewayCache[g], gateways[g]) /\ Advances(gateways[g], gateways'[g])
    BY DEF CachesFollow, Progress
  <2>3. Follows(gatewayCache[g], gateways'[g])
    <3> HIDE DEF V
    <3> QED BY <2>1, <2>2, FollowsAdvances
  <2>4. Follows(gateways'[g], gateways'[g])
    BY <2>1 DEF Follows, Object
  <2> QED BY <2>3, <2>4 DEF Progress
<1>2. ASSUME NEW k \in Keys PROVE Follows(objectCache'[k], objects'[k])
  <2> DEFINE V == ContentOf(k.kind)
  <2>1. {objects[k], objects'[k], objectCache[k]} \subseteq Object(V)
    BY DEF TypeOK
  <2>2. Follows(objectCache[k], objects[k]) /\ Advances(objects[k], objects'[k])
    BY DEF CachesFollow, Progress
  <2>3. Follows(objectCache[k], objects'[k])
    <3> HIDE DEF V
    <3> QED BY <2>1, <2>2, FollowsAdvances
  <2>4. Follows(objects'[k], objects'[k])
    BY <2>1 DEF Follows, Object
  <2> QED BY <2>3, <2>4 DEF Progress
<1> QED BY <1>1, <1>2 DEF CachesFollow

\* What is not written has not moved backwards.
LEMMA NothingChanges ==
    ASSUME TypeOK
    PROVE  /\ \A g \in Gateways : Advances(gateways[g], gateways[g])
           /\ \A k \in Keys : Advances(objects[k], objects[k])
BY DEF TypeOK, Object, Advances

\* A process that starts again has caches and a queue of the right type.
LEMMA RestartEffect ==
    ASSUME TypeOK, Restart, UNCHANGED serverVars,
           changes' \in 0 .. MaxChanges, faults' \in 0 .. MaxFaults, crashes' \in 0 .. MaxCrashes
    PROVE  TypeOK' /\ Progress
<1>1. UNCHANGED <<gateways, objects, terminating>>
  BY DEF serverVars
<1>2. \A k \in Keys : OwnersOf(k, objects[k]) \subseteq Gateways
  BY OwnersAreGateways DEF TypeOK
<1>3. queue' \subseteq Gateways
  BY <1>2 DEF Restart, Followed
<1>4. /\ DOMAIN gatewayCache' = Gateways
      /\ \A g \in Gateways : gatewayCache'[g] = gateways[g]
      /\ DOMAIN objectCache' = Keys
      /\ \A k \in Keys : objectCache'[k] \in {objectCache[k], objects[k]}
  BY DEF Restart, TypeOK
<1>5. pc' = "idle" /\ req' = Nil /\ instance' = NeverStored
  BY DEF Restart, Idle
<1>6. "idle" \in Steps \ (AllKinds \ Kinds)
  BY DEF Steps, AllKinds
<1>7. pending' \in [Keys -> SUBSET Gateways]
  BY DEF Restart
<1>8. TypeOK'
  BY <1>1, <1>3, <1>4, <1>5, <1>6, <1>7 DEF TypeOK
<1>9. Progress
  BY <1>1, <1>4, NothingChanges DEF Progress
<1> QED BY <1>8, <1>9

\* Types after a step that creates or updates an object.
LEMMA EnsureKeepsTypes ==
    ASSUME TypeOK, EnsureEffect PROVE TypeOK' /\ Progress
<1>1. UNCHANGED <<gateways, terminating, gatewayCache, objectCache, changes, crashes>>
  BY DEF EnsureEffect
<1>2. /\ DOMAIN objects' = Keys
      /\ \A k \in Keys : /\ objects'[k] \in Object(ContentOf(k.kind))
                         /\ Advances(objects[k], objects'[k])
  <2>1. CASE objects' = objects
    BY <2>1, NothingChanges DEF TypeOK
  <2>2. CASE objects' # objects
    <3>1. PICK k \in Keys : \E object \in Object(ContentOf(k.kind)) :
             objects' = [objects EXCEPT ![k] = object] /\ Advances(objects[k], object)
      BY <2>2 DEF EnsureEffect
    <3>2. PICK object \in Object(ContentOf(k.kind)) :
             objects' = [objects EXCEPT ![k] = object] /\ Advances(objects[k], object)
      BY <3>1
    <3> QED BY <3>2, NothingChanges DEF TypeOK
  <2> QED BY <2>1, <2>2
<1>3. pc' \in Steps \ (AllKinds \ Kinds)
  BY DEF EnsureEffect, Steps, Idle, AllKinds
<1>4. IF pc' = "idle"
      THEN req' = Nil /\ instance' = NeverStored
      ELSE /\ req' \in Gateways
           /\ instance'.version \in Nat
           /\ instance'.content \in GatewayContent(DefaultedSpecs(req'))
  <2>1. "idle" \notin EnsureSteps
    BY DEF EnsureSteps, Order
  <2> QED BY <2>1 DEF EnsureEffect, Idle, TypeOK
<1>5. TypeOK'
  BY <1>1, <1>2, <1>3, <1>4 DEF TypeOK, EnsureEffect
<1>6. Progress
  BY <1>1, <1>2, NothingChanges DEF Progress
<1> QED BY <1>5, <1>6

\* A write of one gateway.
LEMMA GatewayWrite ==
    ASSUME TypeOK, NEW g \in Gateways, NEW object \in Object(GatewayContent(StoredSpecs(g))),
           Advances(gateways[g], object),
           gateways' = [gateways EXCEPT ![g] = object]
    PROVE  /\ DOMAIN gateways' = Gateways
           /\ \A f \in Gateways : gateways'[f] \in Object(GatewayContent(StoredSpecs(f)))
           /\ \A f \in Gateways : Advances(gateways[f], gateways'[f])
<1>1. \A f \in Gateways : gateways'[f] = IF f = g THEN object ELSE gateways[f]
  BY DEF TypeOK
<1> QED BY <1>1, NothingChanges DEF TypeOK

\* A write of one object.
LEMMA ObjectWrite ==
    ASSUME TypeOK, NEW k \in Keys, NEW object \in Object(ContentOf(k.kind)),
           Advances(objects[k], object),
           Store(k, object)
    PROVE  /\ DOMAIN objects' = Keys
           /\ \A l \in Keys : objects'[l] \in Object(ContentOf(l.kind))
           /\ \A l \in Keys : Advances(objects[l], objects'[l])
           /\ pending' \in [Keys -> SUBSET Gateways]
<1>1. objects' = [objects EXCEPT ![k] = object] /\ pending' \in [Keys -> SUBSET Gateways]
  BY StoreEffect
<1>2. \A l \in Keys : objects'[l] = IF l = k THEN object ELSE objects[l]
  BY <1>1 DEF TypeOK
<1> QED BY <1>1, <1>2, NothingChanges DEF TypeOK

\* Update answers with the object it found or the next version of it.
LEMMA UpdateFacts ==
    ASSUME NEW V, NEW object \in Object(V), NEW seen, NEW content,
           Exists(object) => content \in V \cup {Nothing}
    PROVE  LET answer == Update(object, seen, content)
           IN  /\ answer.object \in Object(V)
               /\ Advances(object, answer.object)
               /\ answer.ok \in BOOLEAN
               /\ answer.ok => /\ Exists(object)
                               /\ object.version = seen.version
                               /\ answer.object = Written(object, content)
               /\ ~answer.ok => answer.object = object
<1> DEFINE answer == Update(object, seen, content)
           accepted == Exists(object) /\ object.version = seen.version
<1>1. /\ answer.ok = accepted
      /\ answer.object = IF accepted THEN Written(object, content) ELSE object
  BY DEF Update, Answer, AcceptsVersion
<1>2. accepted => /\ Written(object, content) \in Object(V)
                  /\ Advances(object, Written(object, content))
  BY WrittenFacts DEF Advances
<1>3. Advances(object, object)
  BY DEF Advances, Object
<1>4. answer.object \in Object(V) /\ Advances(object, answer.object)
  BY <1>1, <1>2, <1>3
<1>5. accepted \in BOOLEAN
  OBVIOUS
<1> HIDE DEF answer
<1>6. /\ answer.ok \in BOOLEAN
      /\ answer.ok => /\ Exists(object)
                      /\ object.version = seen.version
                      /\ answer.object = Written(object, content)
      /\ ~answer.ok => answer.object = object
  BY <1>1, <1>5, Zenon
<1> QED BY <1>4, <1>6 DEF answer

\* A worker that is left alone, or goes idle, keeps its type.
LEMMA WorkerKeeps ==
    ASSUME TypeOK, UNCHANGED workerVars \/ Idle
    PROVE  /\ pc' \in Steps \ (AllKinds \ Kinds)
           /\ IF pc' = "idle"
              THEN req' = Nil /\ instance' = NeverStored
              ELSE /\ req' \in Gateways
                   /\ instance'.version \in Nat
                   /\ instance'.content \in GatewayContent(DefaultedSpecs(req'))
<1>1. "idle" \in Steps \ (AllKinds \ Kinds)
  BY DEF Steps, AllKinds
<1> QED BY <1>1 DEF TypeOK, Idle, workerVars

-----------------------------------------------------------------------------
\* Type correctness, action by action.

\* Reconcile keeps the types.
LEMMA ReconcileTypes ==
    ASSUME TypeOK, NEW g \in Gateways, Reconcile(g) PROVE TypeOK' /\ Progress
<1> DEFINE read == gatewayCache[g]
           ready == [read EXCEPT !.content.spec = setDefaultValues(g, @)]
<1>1. UNCHANGED <<serverVars, cacheVars, changes, crashes>>
  BY DEF Reconcile
<1>2. queue' \subseteq Gateways /\ faults' \in 0 .. MaxFaults
  BY BoundsAssumption DEF Reconcile, TypeOK, Fault
<1>3. /\ pc' \in Steps \ (AllKinds \ Kinds)
      /\ IF pc' = "idle"
         THEN req' = Nil /\ instance' = NeverStored
         ELSE /\ req' \in Gateways
              /\ instance'.version \in Nat
              /\ instance'.content \in GatewayContent(DefaultedSpecs(req'))
  <2>1. CASE UNCHANGED workerVars
    BY <2>1, WorkerKeeps
  <2>2. CASE /\ Exists(read)
             /\ req' = g
             /\ instance' = ready
             /\ pc' = IF read.content.deleting THEN "finalize" ELSE "namespace"
    <3>1. read \in Object(GatewayContent(StoredSpecs(g)))
      BY DEF TypeOK
    <3>2. read.content \in GatewayContent(StoredSpecs(g)) /\ read.version \in Nat
      BY <3>1, <2>2 DEF Object, Exists
    <3>3. setDefaultValues(g, read.content.spec) \in DefaultedSpecs(g)
      BY <3>2, DefaultsAreIdempotent DEF GatewayContent
    <3>4. /\ ready.version = read.version
          /\ ready.content = [read.content EXCEPT !.spec = setDefaultValues(g, read.content.spec)]
      BY <3>1 DEF Object
    <3>5. ready.content \in GatewayContent(DefaultedSpecs(g))
      BY <3>2, <3>3, <3>4 DEF GatewayContent
    <3>6. {"finalize", "namespace"} \subseteq Steps \ (AllKinds \ Kinds)
      BY DEF Steps, AllKinds
    <3> HIDE DEF ready
    <3> QED BY <2>2, <3>2, <3>4, <3>5, <3>6
  <2> QED BY <2>1, <2>2 DEF Reconcile
<1>4. TypeOK'
  BY <1>1, <1>2, <1>3 DEF TypeOK, serverVars, cacheVars
<1>5. Progress
  BY <1>1, NothingChanges DEF Progress, serverVars, cacheVars
<1> QED BY <1>4, <1>5

\* checkNamespace keeps the types.
LEMMA NamespaceTypes ==
    ASSUME TypeOK, checkNamespace PROVE TypeOK' /\ Progress
<1>1. UNCHANGED <<serverVars, cacheVars, changes, crashes>>
  BY DEF checkNamespace
<1>2. faults' \in 0 .. MaxFaults
  BY BoundsAssumption DEF checkNamespace, TypeOK, Fault
<1>3. \/ Idle /\ UNCHANGED queue
      \/ pc' \in Steps \ (AllKinds \ Kinds) /\ pc' # "idle" /\ UNCHANGED <<req, instance, queue>>
  <2>1. EnsureSteps \subseteq Steps /\ "idle" \notin EnsureSteps
        /\ "addFinalizer" \in Steps \ AllKinds
    BY DEF Steps, EnsureSteps, Order, AllKinds
  <2> QED BY <2>1, ContinueFacts DEF checkNamespace, Finish, GoTo
<1>4. pc # "idle"
  BY DEF checkNamespace
<1>5. TypeOK'
  BY <1>1, <1>2, <1>3, <1>4, WorkerKeeps DEF TypeOK, serverVars, cacheVars, workerVars
<1>6. Progress
  BY <1>1, NothingChanges DEF Progress, serverVars, cacheVars
<1> QED BY <1>5, <1>6

\* addFinalizer keeps the types: the answer becomes the instance.
LEMMA AddFinalizerTypes ==
    ASSUME TypeOK, addFinalizer PROVE TypeOK' /\ Progress
<1> DEFINE content == [instance.content EXCEPT !.finalizer = TRUE]
           answer == Update(gateways[req], instance, content)
           V == GatewayContent(StoredSpecs(req))
<1>1. pc = "addFinalizer" /\ req \in Gateways /\ gateways[req] \in Object(V)
  BY DEF addFinalizer, TypeOK
<1>2. content \in GatewayContent(DefaultedSpecs(req)) /\ content \in V
  BY <1>1 DEF TypeOK, GatewayContent, StoredSpecs
<1>3. /\ answer.object \in Object(V)
      /\ Advances(gateways[req], answer.object)
      /\ answer.ok => answer.object = Written(gateways[req], content)
  <2> HIDE DEF V, content
  <2> QED BY <1>1, <1>2, UpdateFacts
<1>4. /\ UNCHANGED <<objects, terminating, cacheVars, changes, crashes>>
      /\ \/ gateways' = gateways
         \/ gateways' = [gateways EXCEPT ![req] = answer.object]
      /\ \/ Retry
         \/ answer.ok /\ Continue /\ instance' = answer.object
      /\ UNCHANGED faults \/ Fault
  BY DEF addFinalizer, CallForGateway
<1>5. faults' \in 0 .. MaxFaults
  BY <1>4, BoundsAssumption DEF Fault, TypeOK
<1>6. /\ DOMAIN gateways' = Gateways
      /\ \A f \in Gateways : gateways'[f] \in Object(GatewayContent(StoredSpecs(f)))
      /\ \A f \in Gateways : Advances(gateways[f], gateways'[f])
  <2>1. CASE gateways' = gateways
    BY <2>1, NothingChanges DEF TypeOK
  <2>2. CASE gateways' = [gateways EXCEPT ![req] = answer.object]
    <3> HIDE DEF answer
    <3> QED BY <2>2, <1>1, <1>3, GatewayWrite
  <2> QED BY <1>4, <2>1, <2>2
<1>7. /\ queue' \subseteq Gateways
      /\ pc' \in Steps \ (AllKinds \ Kinds)
      /\ IF pc' = "idle"
         THEN req' = Nil /\ instance' = NeverStored
         ELSE /\ req' \in Gateways
              /\ instance'.version \in Nat
              /\ instance'.content \in GatewayContent(DefaultedSpecs(req'))
  <2>1. CASE Retry
    BY <2>1, <1>1, WorkerKeeps DEF Retry, Idle, TypeOK
  <2>2. CASE answer.ok /\ Continue /\ instance' = answer.object
    <3>1. pc' \in EnsureSteps \ (AllKinds \ Kinds) /\ UNCHANGED <<queue, req>>
      BY <2>2, ContinueFacts
    <3>2. pc' \in Steps \ (AllKinds \ Kinds) /\ pc' # "idle"
      BY <3>1 DEF Steps, EnsureSteps, Order
    <3>3. instance'.version \in Nat /\ instance'.content = content
      <4>1. instance' = Written(gateways[req], content) /\ instance' \in Object(V)
        BY <2>2, <1>3
      <4>2. Written(gateways[req], content).content = content
        BY <1>1, <1>2, WrittenFacts
      <4> QED BY <4>1, <4>2 DEF Object
    <3> QED BY <3>1, <3>2, <3>3, <1>1, <1>2 DEF TypeOK
  <2> QED BY <1>4, <2>1, <2>2
<1>8. TypeOK'
  BY <1>4, <1>5, <1>6, <1>7 DEF TypeOK, cacheVars
<1>9. Progress
  BY <1>4, <1>6, NothingChanges DEF Progress, cacheVars
<1> QED BY <1>8, <1>9

\* What the steps that end the pass with a write of the gateway do.
WritesGateway(content) ==
    /\ UNCHANGED <<objects, terminating, cacheVars, changes, crashes>>
    /\ \/ gateways' = gateways
       \/ gateways' = [gateways EXCEPT ![req] = Update(gateways[req], instance, content).object]
    /\ Idle /\ queue' \subseteq Gateways
    /\ faults' \in 0 .. MaxFaults

\* A write of a gateway that ends the pass keeps the types.
LEMMA WriteTypes ==
    ASSUME TypeOK, pc # "idle", NEW content,
           Exists(gateways[req]) => content \in GatewayContent(StoredSpecs(req)) \cup {Nothing},
           WritesGateway(content)
    PROVE  TypeOK' /\ Progress
<1> DEFINE answer == Update(gateways[req], instance, content)
           V == GatewayContent(StoredSpecs(req))
<1>1. req \in Gateways /\ gateways[req] \in Object(V)
  BY DEF TypeOK
<1>2. answer.object \in Object(V) /\ Advances(gateways[req], answer.object)
  <2> HIDE DEF V
  <2> QED BY <1>1, UpdateFacts DEF V
<1>3. /\ DOMAIN gateways' = Gateways
      /\ \A f \in Gateways : gateways'[f] \in Object(GatewayContent(StoredSpecs(f)))
      /\ \A f \in Gateways : Advances(gateways[f], gateways'[f])
  <2>1. CASE gateways' = gateways
    BY <2>1, NothingChanges DEF TypeOK
  <2>2. CASE gateways' = [gateways EXCEPT ![req] = answer.object]
    <3> HIDE DEF answer
    <3> QED BY <2>2, <1>1, <1>2, GatewayWrite
  <2> QED BY <2>1, <2>2 DEF WritesGateway
<1>4. TypeOK'
  BY <1>3, WorkerKeeps DEF WritesGateway, TypeOK, cacheVars
<1>5. Progress
  BY <1>3, NothingChanges DEF WritesGateway, Progress, cacheVars
<1> QED BY <1>4, <1>5

\* removeFinalizer keeps the types.
LEMMA RemoveFinalizerTypes ==
    ASSUME TypeOK, removeFinalizer
    PROVE  pc # "idle" /\ WritesGateway(Nothing) /\ TypeOK' /\ Progress
<1>1. pc # "idle" /\ req \in Gateways
  BY DEF removeFinalizer, TypeOK
<1>2. queue' \subseteq Gateways /\ faults' \in 0 .. MaxFaults
  BY <1>1, BoundsAssumption DEF removeFinalizer, CallForGateway, Finish, Retry, Fault, TypeOK
<1>3. WritesGateway(Nothing)
  BY <1>2 DEF removeFinalizer, CallForGateway, WritesGateway, Finish, Retry
<1> QED BY <1>1, <1>3, WriteTypes

\* updateStatus keeps the types.
LEMMA StatusTypes ==
    ASSUME TypeOK, updateStatus
    PROVE  /\ pc # "idle"
           /\ WritesGateway([gateways[req].content EXCEPT !.deployed = TRUE])
           /\ TypeOK' /\ Progress
<1> DEFINE content == [gateways[req].content EXCEPT !.deployed = TRUE]
<1>1. pc # "idle" /\ req \in Gateways
  BY DEF updateStatus, TypeOK
<1>2. queue' \subseteq Gateways /\ faults' \in 0 .. MaxFaults
  BY <1>1, BoundsAssumption
  DEF updateStatus, CallForGateway, Finish, Retry, Fault, TypeOK, boundVars
<1>3. WritesGateway(content)
  BY <1>2 DEF updateStatus, CallForGateway, WritesGateway, Finish, Retry, serverVars, boundVars
<1>4. Exists(gateways[req]) => content \in GatewayContent(StoredSpecs(req))
  <2>1. Exists(gateways[req]) => gateways[req].content \in GatewayContent(StoredSpecs(req))
    BY <1>1 DEF TypeOK, Object, Exists
  <2> QED BY <2>1 DEF GatewayContent
<1> HIDE DEF content
<1>5. TypeOK' /\ Progress
  BY <1>1, <1>3, <1>4, WriteTypes
<1> QED BY <1>1, <1>3, <1>5 DEF content

\* finalizeHigressGateway writes at most the binding it has read, without the
\* subject of this gateway.
Unbound(k) ==
    [Seen(k).content EXCEPT
        !.subjects = SubjectsKept(@, getServiceAccount(req, wanted), req.ns)]

FinalizeEffect(k) ==
    LET result == Update(objects[k], Seen(k), Unbound(k))
    IN  /\ UNCHANGED <<gateways, terminating, gatewayCache, objectCache, changes, crashes>>
        /\ UNCHANGED <<objects, pending>> \/ (Exists(Seen(k)) /\ Store(k, result.object))
        /\ \/ Idle
           \/ /\ Exists(Seen(k)) /\ result.ok /\ Store(k, result.object)
              /\ pc' = "removeFinalizer" /\ UNCHANGED <<req, instance>>
        /\ queue' \subseteq Gateways
        /\ faults' \in 0 .. MaxFaults

\* finalizeHigressGateway keeps the types.
LEMMA FinalizeTypes ==
    ASSUME TypeOK, finalizeHigressGateway
    PROVE  LET k == KeyOf("ClusterRoleBinding", req, wanted)
           IN  /\ k \in Keys /\ k.kind = "ClusterRoleBinding"
               /\ FinalizeEffect(k)
               /\ TypeOK' /\ Progress
<1> DEFINE k == KeyOf("ClusterRoleBinding", req, wanted)
           result == Update(objects[k], Seen(k), Unbound(k))
<1>1. pc = "finalize" /\ req \in Gateways /\ wanted \in DefaultedSpecs(req)
  BY WorkerFacts DEF finalizeHigressGateway
<1>2. k \in Keys /\ k.kind = "ClusterRoleBinding"
  BY <1>1, KeyFacts, KindsAssumption
<1>3. queue' \subseteq Gateways /\ faults' \in 0 .. MaxFaults
  BY <1>1, BoundsAssumption DEF finalizeHigressGateway, BindingNotFound, GoTo, Retry, Fault, TypeOK
<1>4. FinalizeEffect(k)
  BY <1>3 DEF finalizeHigressGateway, BindingNotFound, FinalizeEffect, Unbound, GoTo, Retry
<1> HIDE DEF k
<1>5. objects[k] \in Object(ContentOf(k.kind)) /\ Seen(k) \in Object(ContentOf(k.kind))
  BY <1>2 DEF TypeOK, Seen
<1>6. Exists(Seen(k)) => Unbound(k) \in ContentOf(k.kind)
  <2>1. Exists(Seen(k)) => Seen(k).content \in ContentOf("ClusterRoleBinding")
    BY <1>2, <1>5 DEF Object, Exists
  <2> QED BY <2>1, <1>2 DEF Unbound, SubjectsKept, ContentOf
<1>7. Exists(Seen(k)) => /\ result.object \in Object(ContentOf(k.kind))
                         /\ Advances(objects[k], result.object)
  BY <1>5, <1>6, UpdateFacts
<1>8. /\ DOMAIN objects' = Keys
      /\ \A l \in Keys : objects'[l] \in Object(ContentOf(l.kind))
      /\ \A l \in Keys : Advances(objects[l], objects'[l])
      /\ pending' \in [Keys -> SUBSET Gateways]
  <2>1. CASE UNCHANGED <<objects, pending>>
    BY <2>1, NothingChanges DEF TypeOK
  <2>2. CASE Exists(Seen(k)) /\ Store(k, result.object)
    <3> HIDE DEF result
    <3> QED BY <2>2, <1>2, <1>7, ObjectWrite
  <2> QED BY <2>1, <2>2, <1>4 DEF FinalizeEffect
<1>9. /\ pc' \in Steps \ (AllKinds \ Kinds)
      /\ IF pc' = "idle"
         THEN req' = Nil /\ instance' = NeverStored
         ELSE /\ req' \in Gateways
              /\ instance'.version \in Nat
              /\ instance'.content \in GatewayContent(DefaultedSpecs(req'))
  <2>1. "removeFinalizer" \in Steps \ AllKinds
    BY DEF Steps, AllKinds
  <2> QED BY <1>1, <1>4, <2>1, WorkerKeeps DEF FinalizeEffect, TypeOK
<1>10. TypeOK'
  BY <1>3, <1>4, <1>8, <1>9 DEF FinalizeEffect, TypeOK
<1>11. Progress
  BY <1>4, <1>8, NothingChanges DEF FinalizeEffect, Progress
<1> QED BY <1>2, <1>4, <1>10, <1>11 DEF k

\* createSkywalkingConfigMap keeps the types.
LEMMA SkywalkingTypes ==
    ASSUME TypeOK, createSkywalkingConfigMap
    PROVE  /\ TypeOK' /\ Progress
           /\ UNCHANGED <<gateways, objects>> /\ Idle
<1>1. UNCHANGED serverVars /\ UNCHANGED boundVars
  BY DEF createSkywalkingConfigMap
<1>2. /\ changes' \in 0 .. MaxChanges /\ faults' \in 0 .. MaxFaults
      /\ crashes' \in 0 .. MaxCrashes
  BY <1>1 DEF boundVars, TypeOK
<1>3. CASE Restart
  BY <1>1, <1>2, <1>3, RestartEffect DEF Restart, serverVars
<1>4. CASE Retry /\ UNCHANGED cacheVars
  <2>1. queue' \subseteq Gateways /\ Idle
    BY <1>4 DEF Retry, TypeOK, createSkywalkingConfigMap
  <2>2. TypeOK'
    BY <1>1, <1>4, <2>1, WorkerKeeps DEF TypeOK, serverVars, boundVars, cacheVars
  <2>3. Progress
    BY <1>1, <1>4, NothingChanges DEF Progress, serverVars, cacheVars
  <2> QED BY <1>1, <2>1, <2>2, <2>3 DEF serverVars
<1> QED BY <1>3, <1>4 DEF createSkywalkingConfigMap

\* A crash keeps the types.
LEMMA CrashTypes ==
    ASSUME TypeOK, Crash
    PROVE  TypeOK' /\ Progress /\ UNCHANGED <<gateways, objects>> /\ Idle
<1>1. /\ UNCHANGED serverVars /\ Restart
      /\ changes' \in 0 .. MaxChanges /\ faults' \in 0 .. MaxFaults
      /\ crashes' \in 0 .. MaxCrashes
  BY BoundsAssumption DEF Crash, TypeOK
<1> QED BY <1>1, RestartEffect DEF Restart, serverVars

\* Every step of the worker keeps the types.
LEMMA WorkerTypes ==
    ASSUME TypeOK, CachesFollow, Worker PROVE TypeOK' /\ Progress
<1>1. CASE checkNamespace
  BY <1>1, NamespaceTypes
<1>2. CASE addFinalizer
  BY <1>2, AddFinalizerTypes
<1>3. CASE finalizeHigressGateway
  BY <1>3, FinalizeTypes
<1>4. CASE removeFinalizer
  BY <1>4, RemoveFinalizerTypes
<1>5. CASE createServiceAccount
  BY <1>5, EnsuresServiceAccount, EnsureKeepsTypes
<1>6. CASE createClusterRole \/ createRole
  BY <1>6, EnsuresRules, EnsureKeepsTypes
<1>7. CASE createClusterRoleBinding
  BY <1>7, EnsuresClusterRoleBinding, EnsureKeepsTypes
<1>8. CASE createRoleBinding
  BY <1>8, EnsuresRoleBinding, EnsureKeepsTypes
<1>9. CASE createConfigMap
  BY <1>9, EnsuresConfigMap, EnsureKeepsTypes
<1>10. CASE createSkywalkingConfigMap
  BY <1>10, SkywalkingTypes
<1>11. CASE createDeployment
  BY <1>11, EnsuresDeployment, EnsureKeepsTypes
<1>12. CASE createService
  <2>1. CASE Restart /\ UNCHANGED <<serverVars, boundVars>>
    BY <2>1, RestartEffect DEF boundVars, TypeOK
  <2> QED BY <1>12, <2>1, EnsuresService, EnsureKeepsTypes
<1>13. CASE updateStatus
  BY <1>13, StatusTypes
<1> QED BY <1>1, <1>2, <1>3, <1>4, <1>5, <1>6, <1>7, <1>8, <1>9, <1>10, <1>11, <1>12, <1>13
    DEF Worker

-----------------------------------------------------------------------------
\* The users and the cluster.

\* A write of a gateway by a user keeps the types.
LEMMA SetGatewayTypes ==
    ASSUME TypeOK, NEW g \in Gateways,
           NEW content \in GatewayContent(StoredSpecs(g)) \cup {Nothing},
           SetGateway(g, content),
           UNCHANGED <<gatewayCache, objectCache, queue, workerVars, faults, crashes>>,
           changes' \in 0 .. MaxChanges
    PROVE  TypeOK' /\ Progress
<1> DEFINE V == GatewayContent(StoredSpecs(g))
           after == Written(gateways[g], content)
<1>1. gateways[g] \in Object(V) /\ content \in V \cup {Nothing}
  BY DEF TypeOK
<1>2. after \in Object(V) /\ Advances(gateways[g], after)
  <2> HIDE DEF V
  <2> QED BY <1>1, WrittenFacts DEF Advances
<1>3. gateways' = [gateways EXCEPT ![g] = after] /\ UNCHANGED <<objects, pending, terminating>>
  BY DEF SetGateway
<1> HIDE DEF after
<1>4. /\ DOMAIN gateways' = Gateways
      /\ \A f \in Gateways : gateways'[f] \in Object(GatewayContent(StoredSpecs(f)))
      /\ \A f \in Gateways : Advances(gateways[f], gateways'[f])
  BY <1>2, <1>3, GatewayWrite
<1>5. TypeOK'
  BY <1>3, <1>4 DEF TypeOK, workerVars
<1>6. Progress
  BY <1>3, <1>4, NothingChanges DEF Progress
<1> QED BY <1>5, <1>6

\* The removal of an object keeps the types.
LEMMA RemoveObjectTypes ==
    ASSUME TypeOK, NEW k \in Keys, RemoveObject(k),
           UNCHANGED <<gatewayCache, objectCache, queue, workerVars, faults, crashes>>,
           changes' \in 0 .. MaxChanges
    PROVE  TypeOK' /\ Progress
<1> DEFINE after == Removed(objects[k])
<1>1. after \in Object(ContentOf(k.kind)) /\ Advances(objects[k], after)
  BY WrittenFacts DEF TypeOK, Removed, Advances
<1>2. Store(k, after) /\ UNCHANGED <<gateways, terminating>>
  BY DEF RemoveObject
<1> HIDE DEF after
<1>3. /\ DOMAIN objects' = Keys
      /\ \A l \in Keys : objects'[l] \in Object(ContentOf(l.kind))
      /\ \A l \in Keys : Advances(objects[l], objects'[l])
      /\ pending' \in [Keys -> SUBSET Gateways]
  BY <1>1, <1>2, ObjectWrite
<1>4. TypeOK'
  BY <1>2, <1>3 DEF TypeOK, workerVars
<1>5. Progress
  BY <1>2, <1>3, NothingChanges DEF Progress
<1> QED BY <1>4, <1>5

\* A user action counts within its bound.
LEMMA ChangeFacts ==
    ASSUME TypeOK, NEW action, Change(action)
    PROVE  /\ changes' \in 0 .. MaxChanges
           /\ UNCHANGED <<gatewayCache, objectCache, queue, workerVars, faults, crashes>>
BY BoundsAssumption DEF Change, TypeOK

\* A deleted gateway is marked, or nothing.
LEMMA DeletionFacts ==
    ASSUME TypeOK, NEW g \in Gateways, Exists(gateways[g])
    PROVE  Deletion(gateways[g].content) \in GatewayContent(StoredSpecs(g)) \cup {Nothing}
<1>1. gateways[g].content \in GatewayContent(StoredSpecs(g))
  BY DEF TypeOK, Object, Exists
<1> QED BY <1>1 DEF Deletion, GatewayContent

\* What users do keeps the types.
LEMMA UserTypes ==
    ASSUME TypeOK, User PROVE TypeOK' /\ Progress
<1>1. ASSUME NEW g \in Gateways, NEW manifest \in Specs, CreateGateway(g, manifest)
      PROVE  TypeOK' /\ Progress
  <2> DEFINE content == [uid |-> gateways[g].version + 1, deleting |-> FALSE,
                         finalizer |-> FALSE, deployed |-> FALSE, spec |-> manifest]
  <2>1. content \in GatewayContent(StoredSpecs(g))
    BY <1>1 DEF TypeOK, Object, GatewayContent, StoredSpecs
  <2>2. SetGateway(g, content) /\ Change("create")
    BY <1>1 DEF CreateGateway
  <2> HIDE DEF content
  <2> QED BY <2>1, <2>2, ChangeFacts, SetGatewayTypes
<1>2. ASSUME NEW g \in Gateways, NEW manifest \in Specs, UpdateGateway(g, manifest)
      PROVE  TypeOK' /\ Progress
  <2> DEFINE content == [gateways[g].content EXCEPT !.spec = manifest]
  <2>1. gateways[g].content \in GatewayContent(StoredSpecs(g))
    BY <1>2 DEF UpdateGateway, TypeOK, Object, Exists
  <2>2. content \in GatewayContent(StoredSpecs(g))
    BY <2>1 DEF GatewayContent, StoredSpecs
  <2>3. SetGateway(g, content) /\ Change("update")
    BY <1>2 DEF UpdateGateway
  <2> HIDE DEF content
  <2> QED BY <2>2, <2>3, ChangeFacts, SetGatewayTypes
<1>3. ASSUME NEW g \in Gateways, DeleteGateway(g) PROVE TypeOK' /\ Progress
  <2>1. SetGateway(g, Deletion(gateways[g].content)) /\ Change("delete") /\ Exists(gateways[g])
    BY <1>3 DEF DeleteGateway, Live
  <2> QED BY <2>1, DeletionFacts, ChangeFacts, SetGatewayTypes
<1>4. ASSUME NEW g \in Gateways, TerminateNamespace(g.ns) PROVE TypeOK' /\ Progress
  <2>1. /\ Change("terminate")
        /\ terminating' \subseteq {f.ns : f \in Gateways}
        /\ UNCHANGED <<gateways, objects, pending>>
    BY <1>4 DEF TerminateNamespace, TypeOK
  <2>2. TypeOK'
    BY <2>1, ChangeFacts DEF TypeOK, workerVars
  <2>3. Progress
    BY <2>1, ChangeFacts, NothingChanges DEF Progress
  <2> QED BY <2>2, <2>3
<1>5. ASSUME NEW k \in Keys, DeleteObject(k) PROVE TypeOK' /\ Progress
  <2>1. Change("drift") /\ RemoveObject(k)
    BY <1>5 DEF DeleteObject
  <2> QED BY <2>1, ChangeFacts, RemoveObjectTypes
<1> QED BY <1>1, <1>2, <1>3, <1>4, <1>5 DEF User

\* Informers, garbage collector and namespace controller keep the types.
LEMMA ClusterTypes ==
    ASSUME TypeOK, Cluster PROVE TypeOK' /\ Progress
<1>1. ASSUME NEW g \in Gateways, DeliverGateway(g) PROVE TypeOK' /\ Progress
  <2>1. /\ UNCHANGED <<serverVars, objectCache, pending, workerVars, boundVars>>
        /\ queue' \subseteq Gateways
        /\ DOMAIN gatewayCache' = Gateways
        /\ \A f \in Gateways : gatewayCache'[f] \in {gatewayCache[f], gateways[f]}
    BY <1>1 DEF DeliverGateway, TypeOK
  <2>2. TypeOK'
    BY <2>1 DEF TypeOK, serverVars, workerVars, boundVars
  <2>3. Progress
    BY <2>1, NothingChanges DEF Progress, serverVars
  <2> QED BY <2>2, <2>3
<1>2. ASSUME NEW k \in Keys, DeliverObject(k) PROVE TypeOK' /\ Progress
  <2>1. /\ UNCHANGED <<serverVars, gatewayCache, workerVars, boundVars>>
        /\ queue' \subseteq Gateways
        /\ pending' \in [Keys -> SUBSET Gateways]
        /\ DOMAIN objectCache' = Keys
        /\ \A l \in Keys : objectCache'[l] \in {objectCache[l], objects[l]}
    BY <1>2 DEF DeliverObject, TypeOK
  <2>2. TypeOK'
    BY <2>1 DEF TypeOK, serverVars, workerVars, boundVars
  <2>3. Progress
    BY <2>1, NothingChanges DEF Progress, serverVars
  <2> QED BY <2>2, <2>3
<1>3. ASSUME NEW g \in Gateways, EvictGateway(g) PROVE TypeOK' /\ Progress
  <2>1. /\ SetGateway(g, Deletion(gateways[g].content)) /\ Exists(gateways[g])
        /\ UNCHANGED <<gatewayCache, objectCache, queue, workerVars, faults, crashes>>
        /\ changes' \in 0 .. MaxChanges
    BY <1>3 DEF EvictGateway, Live, boundVars, TypeOK
  <2> QED BY <2>1, DeletionFacts, SetGatewayTypes
<1>4. ASSUME NEW k \in Keys, CollectGarbage(k) \/ EvictObject(k) PROVE TypeOK' /\ Progress
  <2>1. /\ RemoveObject(k)
        /\ UNCHANGED <<gatewayCache, objectCache, queue, workerVars, faults, crashes>>
        /\ changes' \in 0 .. MaxChanges
    BY <1>4 DEF CollectGarbage, EvictObject, boundVars, TypeOK
  <2> QED BY <2>1, RemoveObjectTypes
<1> QED BY <1>1, <1>2, <1>3, <1>4 DEF Cluster

-----------------------------------------------------------------------------
\* Type correctness.

\* The types hold at the start.
LEMMA InitTypes ==
    ASSUME Init PROVE TypeOK /\ CachesFollow
<1>1. "idle" \in Steps \ (AllKinds \ Kinds)
  BY DEF Steps, AllKinds
<1>2. \A g \in Gateways : NeverStored \in Object(GatewayContent(StoredSpecs(g)))
  BY NeverStoredType
<1>3. \A k \in Keys : NeverStored \in Object(ContentOf(k.kind))
  BY NeverStoredType
<1>4. TypeOK
  BY <1>1, <1>2, <1>3, BoundsAssumption DEF Init, TypeOK
<1>5. CachesFollow
  BY DEF Init, CachesFollow, Follows, NeverStored
<1> QED BY <1>4, <1>5

\* Every step of the system keeps the types.
LEMMA StepTypes ==
    ASSUME TypeOK, CachesFollow, [Next]_vars
    PROVE  TypeOK' /\ CachesFollow' /\ Progress
<1> SUFFICES TypeOK' /\ Progress
  BY CopiesKeepFollowing
<1>1. ASSUME NEW g \in Gateways, Reconcile(g) PROVE TypeOK' /\ Progress
  BY <1>1, ReconcileTypes
<1>2. CASE Worker
  BY <1>2, WorkerTypes
<1>3. CASE Cluster
  BY <1>3, ClusterTypes
<1>4. CASE User
  BY <1>4, UserTypes
<1>5. CASE Crash
  BY <1>5, CrashTypes
<1>6. CASE UNCHANGED vars
  <2>1. TypeOK'
    BY <1>6 DEF vars, serverVars, cacheVars, workerVars, boundVars, TypeOK
  <2>2. Progress
    BY <1>6, NothingChanges DEF vars, serverVars, cacheVars, Progress
  <2> QED BY <2>1, <2>2
<1> QED BY <1>1, <1>2, <1>3, <1>4, <1>5, <1>6 DEF Next

\* Every reachable state is well typed, and whatever an informer shows is the
\* stored object or an older version of it, never a different object under the
\* same resourceVersion: the ground of the optimistic updates of the code.
THEOREM TypeCorrect == Spec => [](TypeOK /\ CachesFollow)
<1>1. Init => TypeOK /\ CachesFollow
  BY InitTypes
<1>2. TypeOK /\ CachesFollow /\ [Next]_vars => TypeOK' /\ CachesFollow'
  BY StepTypes
<1> QED BY <1>1, <1>2, PTL DEF Spec
=============================================================================
