------------------------- MODULE GatewayAccessProofs -------------------------
(***************************************************************************)
(* What the finalizer guards.  Part one: nothing is created for a gateway  *)
(* that does not hold it.  Part two: no subject of a ClusterRoleBinding    *)
(* outlives the gateway it was added for, as long as edits do not rename   *)
(* service accounts.                                                       *)
(***************************************************************************)
EXTENDS GatewayProofs

-----------------------------------------------------------------------------
\* The worker and the finalizer.

\* A finalizer that the informer shows on a gateway that is not leaving is
\* still there: only the worker takes it off, after it has seen the deletion.
CacheShowsFinalizer ==
    \A g \in Gateways :
        LET copy == gatewayCache[g]
        IN  Exists(copy) /\ copy.content.finalizer /\ ~copy.content.deleting =>
                Registered(g) /\ gateways[g].content.uid = copy.content.uid

Entering == {"namespace", "addFinalizer"} \cup EnsureSteps
Closing == {"finalize", "removeFinalizer"}

\* The worker's instance is a copy of the stored gateway, or outdated.
InstanceFollows ==
    pc # "idle" =>
        /\ instance.version <= gateways[req].version
        /\ instance.version = gateways[req].version =>
              /\ Exists(gateways[req])
              /\ gateways[req].content.uid = instance.content.uid
              /\ gateways[req].content.finalizer = instance.content.finalizer
              /\ gateways[req].content.deleting = instance.content.deleting

\* Past the finalizer the gateway is registered, in the incarnation the worker
\* has read; on the way out the informer has seen the deletion.
WorkerIsEntitled ==
    /\ pc \in Entering /\ instance.content.finalizer =>
          Registered(req) /\ gateways[req].content.uid = instance.content.uid
    /\ pc \in EnsureSteps => instance.content.finalizer
    /\ pc \in Entering => ~instance.content.deleting
    /\ pc \in Closing =>
          /\ instance.content.deleting
          /\ instance.version <= gatewayCache[req].version

Guarded ==
    /\ TypeOK
    /\ CachesFollow
    /\ CacheShowsFinalizer
    /\ InstanceFollows
    /\ WorkerIsEntitled

\* A gateway that holds the finalizer keeps it, and its uid.
RegistrationsKeep ==
    \A g \in Gateways : Registered(g) =>
        Registered(g)' /\ gateways'[g].content.uid = gateways[g].content.uid

\* While registrations stay, what the informers show of a finalizer stays true.
LEMMA CacheStaysRight ==
    ASSUME CacheShowsFinalizer, Progress, RegistrationsKeep PROVE CacheShowsFinalizer'
<1> SUFFICES ASSUME NEW g \in Gateways,
                    Exists(gatewayCache'[g]),
                    gatewayCache'[g].content.finalizer,
                    ~gatewayCache'[g].content.deleting
             PROVE  Registered(g)' /\ gateways'[g].content.uid = gatewayCache'[g].content.uid
  BY DEF CacheShowsFinalizer, Exists
<1>1. CASE gatewayCache'[g] = gateways'[g]
  BY <1>1 DEF Registered, Exists
<1>2. CASE gatewayCache'[g] = gatewayCache[g]
  BY <1>2 DEF CacheShowsFinalizer, RegistrationsKeep
<1> QED BY <1>1, <1>2 DEF Progress

\* A step that leaves the worker alone leaves it entitled to what it is doing.
LEMMA WorkerStaysEntitled ==
    ASSUME Guarded, TypeOK', Progress, RegistrationsKeep, UNCHANGED workerVars \/ Idle
    PROVE  InstanceFollows' /\ WorkerIsEntitled'
<1>1. CASE Idle
  BY <1>1 DEF Idle, InstanceFollows, WorkerIsEntitled, Entering, Closing, EnsureSteps, Order
<1>2. CASE UNCHANGED workerVars /\ pc = "idle"
  BY <1>2 DEF workerVars, InstanceFollows, WorkerIsEntitled, Entering, Closing, EnsureSteps, Order
<1>3. CASE UNCHANGED workerVars /\ pc # "idle"
  <2>1. UNCHANGED <<pc, req, instance>> /\ req \in Gateways /\ instance.version \in Nat
    BY <1>3 DEF workerVars, Guarded, TypeOK
  <2>2. /\ {gateways[req].version, gateways'[req].version} \subseteq Nat
        /\ {gatewayCache[req].version, gatewayCache'[req].version} \subseteq Nat
    BY <2>1 DEF Guarded, TypeOK, Object
  <2>3. /\ Advances(gateways[req], gateways'[req])
        /\ gatewayCache'[req] \in {gatewayCache[req], gateways'[req]}
        /\ gatewayCache[req].version <= gateways[req].version
    BY <2>1 DEF Progress, Guarded, CachesFollow, Follows
  <2>4. InstanceFollows'
    BY <1>3, <2>1, <2>2, <2>3 DEF InstanceFollows, Guarded, Advances, Exists
  <2>5. WorkerIsEntitled'
    BY <1>3, <2>1, <2>2, <2>3 DEF WorkerIsEntitled, Guarded, Advances, RegistrationsKeep
  <2> QED BY <2>4, <2>5
<1> QED BY <1>1, <1>2, <1>3

\* A step that keeps registrations and leaves the worker alone, or ends its pass,
\* keeps the invariant.
LEMMA BystanderKeepsGuard ==
    ASSUME Guarded, TypeOK', CachesFollow', Progress, RegistrationsKeep,
           UNCHANGED workerVars \/ Idle
    PROVE  Guarded'
BY CacheStaysRight, WorkerStaysEntitled DEF Guarded

\* A step that writes no gateway keeps the registrations.
LEMMA SameGatewaysKeep ==
    ASSUME \A g \in Gateways : gateways'[g] = gateways[g] PROVE RegistrationsKeep
BY DEF RegistrationsKeep, Registered, Exists

\* A step of the worker to a later step of the same pass, with the same instance, is entitled to it.
LEMMA WorkerMoves ==
    ASSUME Guarded, TypeOK', Progress, RegistrationsKeep,
           pc # "idle", UNCHANGED <<req, instance>>,
           \/ pc \in Entering /\ pc' \in EnsureSteps /\ instance.content.finalizer
           \/ pc \in Entering /\ pc' = "addFinalizer"
           \/ pc \in Closing /\ pc' = "removeFinalizer"
    PROVE  InstanceFollows' /\ WorkerIsEntitled'
<1>1. req \in Gateways /\ instance.version \in Nat
  BY DEF Guarded, TypeOK
<1>2. /\ {gateways[req].version, gateways'[req].version} \subseteq Nat
      /\ {gatewayCache[req].version, gatewayCache'[req].version} \subseteq Nat
  BY <1>1 DEF Guarded, TypeOK, Object
<1>3. /\ Advances(gateways[req], gateways'[req])
      /\ gatewayCache'[req] \in {gatewayCache[req], gateways'[req]}
      /\ gatewayCache[req].version <= gateways[req].version
  BY <1>1 DEF Progress, Guarded, CachesFollow, Follows
<1>4. InstanceFollows'
  BY <1>1, <1>2, <1>3 DEF InstanceFollows, Guarded, Advances, Exists
<1>5. WorkerIsEntitled'
  BY <1>1, <1>2, <1>3
  DEF WorkerIsEntitled, Guarded, Advances, RegistrationsKeep, Entering, Closing, EnsureSteps, Order
<1> QED BY <1>4, <1>5

\* Reconcile: the pass that starts is entitled to what it reads.
LEMMA ReconcileGuard ==
    ASSUME Guarded, TypeOK', CachesFollow', Progress, NEW g \in Gateways, Reconcile(g)
    PROVE  Guarded'
<1> DEFINE read == gatewayCache[g]
           ready == [read EXCEPT !.content.spec = setDefaultValues(g, @)]
<1>1. UNCHANGED <<gateways, gatewayCache>> /\ RegistrationsKeep
  BY SameGatewaysKeep DEF Reconcile, serverVars, cacheVars
<1>2. CASE UNCHANGED workerVars
  BY <1>1, <1>2, BystanderKeepsGuard
<1>3. CASE /\ Exists(read)
           /\ req' = g
           /\ instance' = ready
           /\ pc' = IF read.content.deleting THEN "finalize" ELSE "namespace"
  <2>1. read \in Object(GatewayContent(StoredSpecs(g)))
    BY DEF Guarded, TypeOK
  <2>2. read.content \in GatewayContent(StoredSpecs(g)) /\ read.version \in Nat
    BY <2>1, <1>3 DEF Object, Exists
  <2>3. /\ instance'.version = read.version
        /\ instance'.content.uid = read.content.uid
        /\ instance'.content.finalizer = read.content.finalizer
        /\ instance'.content.deleting = read.content.deleting
    BY <1>3, <2>1, <2>2 DEF Object, GatewayContent
  <2>4. Follows(read, gateways[g])
    BY DEF Guarded, CachesFollow
  <2>5. InstanceFollows'
    BY <1>1, <1>3, <2>3, <2>4 DEF InstanceFollows, Follows, Exists
  <2>6. WorkerIsEntitled'
    <3>1. read.content.finalizer /\ ~read.content.deleting =>
             Registered(g) /\ gateways[g].content.uid = read.content.uid
      BY <1>3 DEF Guarded, CacheShowsFinalizer
    <3>2. Registered(g)' <=> Registered(g)
      BY <1>1 DEF Registered, Exists
    <3> QED BY <1>1, <1>3, <2>2, <2>3, <3>1, <3>2
            DEF WorkerIsEntitled, Entering, Closing, EnsureSteps, Order
  <2> QED BY <1>1, <2>5, <2>6, CacheStaysRight DEF Guarded
<1> QED BY <1>2, <1>3 DEF Reconcile

\* checkNamespace: only an instance that has the finalizer skips addFinalizer.
LEMMA NamespaceGuard ==
    ASSUME Guarded, TypeOK', CachesFollow', Progress, checkNamespace PROVE Guarded'
<1>1. UNCHANGED gateways /\ RegistrationsKeep
  BY SameGatewaysKeep DEF checkNamespace, serverVars
<1>2. CASE Idle
  BY <1>1, <1>2, BystanderKeepsGuard
<1>3. CASE ~Idle
  <2>1. /\ pc = "namespace"
        /\ UNCHANGED <<req, instance>>
        /\ \/ pc' \in EnsureSteps /\ instance.content.finalizer
           \/ pc' = "addFinalizer"
    BY <1>3, ContinueFacts DEF checkNamespace, NeedsFinalizer, Finish, GoTo
  <2>2. pc \in Entering
    BY <2>1 DEF Entering
  <2>3. InstanceFollows' /\ WorkerIsEntitled'
    BY <1>1, <2>1, <2>2, WorkerMoves
  <2> QED BY <1>1, <2>3, CacheStaysRight DEF Guarded
<1> QED BY <1>2, <1>3

\* The create* steps write objects and leave the registration alone.
LEMMA EnsureGuard ==
    ASSUME Guarded, TypeOK', CachesFollow', Progress, EnsureEffect PROVE Guarded'
<1>1. RegistrationsKeep
  BY SameGatewaysKeep DEF EnsureEffect
<1>2. CASE Idle
  BY <1>1, <1>2, BystanderKeepsGuard
<1>3. CASE pc' \in EnsureSteps /\ UNCHANGED <<req, instance>>
  <2>1. pc \in Entering /\ pc # "idle" /\ instance.content.finalizer
    BY DEF EnsureEffect, Guarded, WorkerIsEntitled, Entering, EnsureSteps, Order
  <2>2. InstanceFollows' /\ WorkerIsEntitled'
    BY <1>1, <1>3, <2>1, WorkerMoves
  <2> QED BY <1>1, <2>2, CacheStaysRight DEF Guarded
<1> QED BY <1>2, <1>3 DEF EnsureEffect

\* finalizeHigressGateway writes the binding and leaves the registration alone.
LEMMA FinalizeGuard ==
    ASSUME Guarded, TypeOK', CachesFollow', Progress, pc = "finalize",
           NEW k \in Keys, FinalizeEffect(k)
    PROVE  Guarded'
<1>1. RegistrationsKeep
  BY SameGatewaysKeep DEF FinalizeEffect
<1>2. CASE Idle
  BY <1>1, <1>2, BystanderKeepsGuard
<1>3. CASE pc' = "removeFinalizer" /\ UNCHANGED <<req, instance>>
  <2>1. pc \in Closing /\ pc # "idle"
    BY DEF Closing
  <2>2. InstanceFollows' /\ WorkerIsEntitled'
    BY <1>1, <1>3, <2>1, WorkerMoves
  <2> QED BY <1>1, <2>2, CacheStaysRight DEF Guarded
<1> QED BY <1>2, <1>3 DEF FinalizeEffect

\* addFinalizer: the update is refused unless the instance is the stored gateway.
LEMMA AddFinalizerGuard ==
    ASSUME Guarded, TypeOK', CachesFollow', Progress, addFinalizer
    PROVE  Guarded' /\ RegistrationsKeep
<1> DEFINE content == [instance.content EXCEPT !.finalizer = TRUE]
           answer == Update(gateways[req], instance, content)
           V == GatewayContent(StoredSpecs(req))
<1>1. pc = "addFinalizer" /\ req \in Gateways /\ gateways[req] \in Object(V)
  BY DEF addFinalizer, Guarded, TypeOK
<1>2. /\ content \in V
      /\ content.finalizer
      /\ content.uid = instance.content.uid
      /\ content.deleting = instance.content.deleting
      /\ content # Nothing
  BY <1>1, NothingAssumption DEF Guarded, TypeOK, GatewayContent, StoredSpecs
<1>3. ~instance.content.deleting
  BY <1>1 DEF Guarded, WorkerIsEntitled, Entering
<1> HIDE DEF content, V
<1>4. /\ answer.ok =>
           /\ Exists(gateways[req])
           /\ gateways[req].version = instance.version
           /\ answer.object = Written(gateways[req], content)
      /\ ~answer.ok => answer.object = gateways[req]
      /\ Written(gateways[req], content).content = content
  BY <1>1, <1>2, UpdateFacts, WrittenFacts
<1>5. /\ \/ gateways' = gateways
         \/ gateways' = [gateways EXCEPT ![req] = answer.object]
      /\ \/ Retry
         \/ /\ answer.ok /\ Continue /\ instance' = answer.object
            /\ gateways' = [gateways EXCEPT ![req] = answer.object]
  BY DEF addFinalizer, CallForGateway, content
<1>6. answer.ok => gateways[req].content.uid = instance.content.uid
  BY <1>1, <1>4 DEF Guarded, InstanceFollows
<1> HIDE DEF answer
<1>7. RegistrationsKeep
  <2>1. CASE gateways' = gateways
    BY <2>1, SameGatewaysKeep
  <2>2. CASE gateways' = [gateways EXCEPT ![req] = answer.object]
    <3>1. \A g \in Gateways : gateways'[g] = IF g = req THEN answer.object ELSE gateways[g]
      BY <2>2 DEF Guarded, TypeOK
    <3>2. CASE answer.ok
      BY <1>2, <1>4, <1>6, <3>1, <3>2 DEF RegistrationsKeep, Registered, Exists
    <3>3. CASE ~answer.ok
      BY <1>4, <3>1, <3>3 DEF RegistrationsKeep, Registered, Exists
    <3> QED BY <3>2, <3>3
  <2> QED BY <1>5, <2>1, <2>2
<1>8. CASE Retry
  BY <1>7, <1>8, BystanderKeepsGuard DEF Retry
<1>9. CASE /\ answer.ok /\ Continue /\ instance' = answer.object
           /\ gateways' = [gateways EXCEPT ![req] = answer.object]
  <2>1. pc' \in EnsureSteps /\ req' = req /\ gateways'[req] = instance'
    BY <1>1, <1>9, ContinueFacts DEF Guarded, TypeOK
  <2>2. instance'.content = content /\ Exists(gateways'[req])
    BY <1>2, <1>4, <1>9, <2>1 DEF Exists
  <2>3. instance'.version \in Nat
    BY <2>1 DEF TypeOK, EnsureSteps, Order
  <2>4. InstanceFollows'
    BY <2>1, <2>2, <2>3 DEF InstanceFollows, Exists
  <2>5. Registered(req)'
    BY <2>1, <2>2, <1>2 DEF Registered, Exists
  <2>6. WorkerIsEntitled'
    BY <2>1, <2>2, <2>5, <1>2, <1>3
    DEF WorkerIsEntitled, Entering, Closing, EnsureSteps, Order
  <2> QED BY <1>7, <2>4, <2>6, CacheStaysRight DEF Guarded
<1> QED BY <1>5, <1>7, <1>8, <1>9

\* The finalizer comes off only where the informer has shown the deletion.
RemovesOnlyFinalizer ==
    /\ \A g \in Gateways \ {req} : gateways'[g] = gateways[g]
    /\ \/ gateways'[req] = gateways[req]
       \/ ~Exists(gateways'[req]) /\ gateways[req].version = instance.version

\* removeFinalizer takes the gateway away after the informer has shown its deletion.
LEMMA RemoveFinalizerGuard ==
    ASSUME Guarded, TypeOK', CachesFollow', Progress, removeFinalizer
    PROVE  Guarded' /\ RemovesOnlyFinalizer
<1> DEFINE answer == Update(gateways[req], instance, Nothing)
           V == GatewayContent(StoredSpecs(req))
<1>1. /\ pc = "removeFinalizer" /\ req \in Gateways
      /\ gateways[req] \in Object(V) /\ gatewayCache[req] \in Object(V)
      /\ instance.version \in Nat
  BY DEF removeFinalizer, Guarded, TypeOK
<1> HIDE DEF V
<1>2. /\ answer.ok => /\ Exists(gateways[req])
                      /\ gateways[req].version = instance.version
                      /\ answer.object = Written(gateways[req], Nothing)
      /\ ~answer.ok => answer.object = gateways[req]
      /\ Written(gateways[req], Nothing).content = Nothing
  BY <1>1, UpdateFacts, WrittenFacts
<1>3. /\ UNCHANGED gatewayCache /\ Idle
      /\ gateways' = gateways \/ gateways' = [gateways EXCEPT ![req] = answer.object]
  BY RemoveFinalizerTypes DEF WritesGateway, cacheVars, Guarded
<1> HIDE DEF answer
<1>4. RemovesOnlyFinalizer
  <2>1. /\ \A g \in Gateways \ {req} : gateways'[g] = gateways[g]
        /\ gateways'[req] = gateways[req] \/ gateways'[req] = answer.object
    BY <1>1, <1>3 DEF Guarded, TypeOK
  <2>2. CASE answer.ok
    BY <1>2, <2>1, <2>2 DEF RemovesOnlyFinalizer, Exists
  <2>3. CASE ~answer.ok
    BY <1>2, <2>1, <2>3 DEF RemovesOnlyFinalizer
  <2> QED BY <2>2, <2>3
<1>5. CASE gateways'[req] = gateways[req]
  <2>1. \A g \in Gateways : gateways'[g] = gateways[g]
    BY <1>4, <1>5 DEF RemovesOnlyFinalizer
  <2> QED BY <1>3, <1>4, <2>1, SameGatewaysKeep, BystanderKeepsGuard
<1>6. CASE gateways[req].version = instance.version
  <2>1. gateways[req].content.deleting
    BY <1>1, <1>6 DEF Guarded, InstanceFollows, WorkerIsEntitled, Closing
  <2>2. gatewayCache[req].version = gateways[req].version
    <3>1. instance.version <= gatewayCache[req].version
      BY <1>1 DEF Guarded, WorkerIsEntitled, Closing
    <3>2. gatewayCache[req].version <= gateways[req].version
      BY <1>1 DEF Guarded, CachesFollow, Follows
    <3> QED BY <1>1, <1>6, <3>1, <3>2 DEF Object
  <2>3. gatewayCache[req].content.deleting
    BY <1>1, <2>1, <2>2 DEF Guarded, CachesFollow, Follows
  <2>4. CacheShowsFinalizer'
    BY <1>3, <1>4, <2>3 DEF RemovesOnlyFinalizer, Guarded, CacheShowsFinalizer, Registered, Exists
  <2>5. InstanceFollows' /\ WorkerIsEntitled'
    BY <1>3 DEF Idle, InstanceFollows, WorkerIsEntitled, Entering, Closing, EnsureSteps, Order
  <2> QED BY <1>4, <2>4, <2>5 DEF Guarded
<1> QED BY <1>4, <1>5, <1>6 DEF RemovesOnlyFinalizer

\* updateStatus writes nothing but the status of the gateway it has read.
LEMMA StatusGuard ==
    ASSUME Guarded, TypeOK', CachesFollow', Progress, updateStatus
    PROVE  Guarded' /\ RegistrationsKeep
<1> DEFINE content == [gateways[req].content EXCEPT !.deployed = TRUE]
           answer == Update(gateways[req], instance, content)
           V == GatewayContent(StoredSpecs(req))
<1>1. req \in Gateways /\ gateways[req] \in Object(V)
  BY DEF updateStatus, Guarded, TypeOK
<1>2. Exists(gateways[req]) =>
        /\ content \in V
        /\ content.finalizer = gateways[req].content.finalizer
        /\ content.uid = gateways[req].content.uid
        /\ content # Nothing
  <2>1. Exists(gateways[req]) => gateways[req].content \in V
    BY <1>1 DEF Object, Exists
  <2> QED BY <1>1, <2>1, NothingAssumption DEF GatewayContent
<1>3. Idle /\ (gateways' = gateways \/ gateways' = [gateways EXCEPT ![req] = answer.object])
  BY StatusTypes DEF WritesGateway, Guarded
<1> HIDE DEF content, V
<1>4. /\ answer.ok => /\ Exists(gateways[req])
                      /\ answer.object = Written(gateways[req], content)
      /\ ~answer.ok => answer.object = gateways[req]
  BY <1>1, <1>2, UpdateFacts
<1>5. Exists(gateways[req]) => Written(gateways[req], content).content = content
  BY <1>1, <1>2, WrittenFacts
<1> HIDE DEF answer
<1>6. RegistrationsKeep
  <2>1. /\ \A g \in Gateways \ {req} : gateways'[g] = gateways[g]
        /\ gateways'[req] = gateways[req] \/ gateways'[req] = answer.object
    BY <1>1, <1>3 DEF Guarded, TypeOK
  <2>2. CASE answer.ok
    BY <1>2, <1>4, <1>5, <2>1, <2>2 DEF RegistrationsKeep, Registered, Exists
  <2>3. CASE ~answer.ok
    BY <1>4, <2>1, <2>3 DEF RegistrationsKeep, Registered, Exists
  <2> QED BY <2>2, <2>3
<1> QED BY <1>3, <1>6, BystanderKeepsGuard

-----------------------------------------------------------------------------
\* Users, the cluster and crashes take no finalizer away and add no subject.

BindingsKeep ==
    \A k \in Keys : k.kind = "ClusterRoleBinding" /\ Exists(objects'[k]) =>
        \A s \in objects'[k].content.subjects : IsBinding(k) /\ s \in objects[k].content.subjects

Bystander == RegistrationsKeep /\ BindingsKeep /\ (UNCHANGED workerVars \/ Idle)

\* A step that writes no object adds no subject and drops none.
LEMMA SameObjectsKeep ==
    ASSUME objects' = objects PROVE BindingsKeep
BY DEF BindingsKeep, IsBinding

\* A user who leaves the finalizer and the uid of a registered gateway alone is a bystander.
LEMMA SetGatewayKeeps ==
    ASSUME Guarded, NEW g \in Gateways,
           NEW content \in GatewayContent(StoredSpecs(g)) \cup {Nothing},
           Registered(g) => /\ content # Nothing
                            /\ content.finalizer
                            /\ content.uid = gateways[g].content.uid,
           SetGateway(g, content), UNCHANGED workerVars
    PROVE  Bystander
<1>1. Written(gateways[g], content).content = content
  BY WrittenFacts DEF Guarded, TypeOK
<1>2. \A f \in Gateways :
        gateways'[f] = IF f = g THEN Written(gateways[g], content) ELSE gateways[f]
  BY DEF SetGateway, Guarded, TypeOK
<1>3. RegistrationsKeep
  BY <1>1, <1>2 DEF RegistrationsKeep, Registered, Exists
<1>4. BindingsKeep
  BY SameObjectsKeep DEF SetGateway
<1> QED BY <1>3, <1>4 DEF Bystander

\* Whoever removes an object is a bystander.
LEMMA RemoveObjectKeeps ==
    ASSUME Guarded, NEW k \in Keys, RemoveObject(k), UNCHANGED workerVars
    PROVE  Bystander
<1>1. Removed(objects[k]).content = Nothing
  BY WrittenFacts DEF Removed, Guarded, TypeOK
<1>2. \A l \in Keys : objects'[l] = IF l = k THEN Removed(objects[k]) ELSE objects[l]
  BY DEF RemoveObject, Store, Guarded, TypeOK
<1>3. BindingsKeep
  BY <1>1, <1>2 DEF BindingsKeep, IsBinding, Exists
<1>4. RegistrationsKeep
  BY SameGatewaysKeep DEF RemoveObject
<1> QED BY <1>3, <1>4 DEF Bystander

\* Who deletes a gateway is a bystander: one that holds the finalizer is only marked.
LEMMA DeletionKeeps ==
    ASSUME Guarded, NEW g \in Gateways, Exists(gateways[g]),
           SetGateway(g, Deletion(gateways[g].content)), UNCHANGED workerVars
    PROVE  Bystander
<1> DEFINE content == Deletion(gateways[g].content)
<1>1. content \in GatewayContent(StoredSpecs(g)) \cup {Nothing}
  BY DeletionFacts DEF Guarded
<1>2. Registered(g) => /\ content # Nothing
                       /\ content.finalizer
                       /\ content.uid = gateways[g].content.uid
  <2>1. gateways[g].content \in GatewayContent(StoredSpecs(g))
    BY DEF Guarded, TypeOK, Object, Exists
  <2>2. Registered(g) => content = [gateways[g].content EXCEPT !.deleting = TRUE]
    BY DEF Registered, Deletion
  <2>3. Registered(g) => content \in GatewayContent(StoredSpecs(g))
    BY <2>1, <2>2 DEF GatewayContent
  <2> HIDE DEF content
  <2> QED BY <2>1, <2>2, <2>3, NothingAssumption DEF GatewayContent, Registered
<1> HIDE DEF content
<1> QED BY <1>1, <1>2, SetGatewayKeeps DEF content

\* Users, informers, garbage collector, namespace controller and crashes are bystanders.
LEMMA EnvironmentKeeps ==
    ASSUME Guarded, User \/ Cluster \/ Crash PROVE Bystander
<1>1. ASSUME NEW g \in Gateways, NEW manifest \in Specs, CreateGateway(g, manifest)
      PROVE  Bystander
  <2> DEFINE content == [uid |-> gateways[g].version + 1, deleting |-> FALSE,
                         finalizer |-> FALSE, deployed |-> FALSE, spec |-> manifest]
  <2>1. content \in GatewayContent(StoredSpecs(g))
    BY <1>1 DEF Guarded, TypeOK, Object, GatewayContent, StoredSpecs
  <2>2. SetGateway(g, content) /\ UNCHANGED workerVars /\ ~Registered(g)
    BY <1>1 DEF CreateGateway, Change, Registered
  <2> HIDE DEF content
  <2> QED BY <2>1, <2>2, SetGatewayKeeps
<1>2. ASSUME NEW g \in Gateways, NEW manifest \in Specs, UpdateGateway(g, manifest)
      PROVE  Bystander
  <2> DEFINE content == [gateways[g].content EXCEPT !.spec = manifest]
  <2>1. gateways[g].content \in GatewayContent(StoredSpecs(g))
    BY <1>2 DEF UpdateGateway, Guarded, TypeOK, Object, Exists
  <2>2. content \in GatewayContent(StoredSpecs(g))
    BY <2>1 DEF GatewayContent, StoredSpecs
  <2>3. Registered(g) => content.finalizer /\ content.uid = gateways[g].content.uid
    BY <2>1 DEF Registered, GatewayContent
  <2>4. SetGateway(g, content) /\ UNCHANGED workerVars
    BY <1>2 DEF UpdateGateway, Change
  <2> HIDE DEF content
  <2> QED BY <2>2, <2>3, <2>4, NothingAssumption, SetGatewayKeeps
<1>3. ASSUME NEW g \in Gateways, DeleteGateway(g) \/ EvictGateway(g) PROVE Bystander
  BY <1>3, DeletionKeeps DEF DeleteGateway, EvictGateway, Live, Change
<1>4. ASSUME NEW g \in Gateways, TerminateNamespace(g.ns) PROVE Bystander
  BY <1>4, SameGatewaysKeep, SameObjectsKeep DEF TerminateNamespace, Change, Bystander
<1>5. ASSUME NEW k \in Keys, DeleteObject(k) \/ CollectGarbage(k) \/ EvictObject(k)
      PROVE  Bystander
  BY <1>5, RemoveObjectKeeps DEF DeleteObject, CollectGarbage, EvictObject, Change
<1>6. ASSUME NEW g \in Gateways, DeliverGateway(g) PROVE Bystander
  BY <1>6, SameGatewaysKeep, SameObjectsKeep DEF DeliverGateway, serverVars, Bystander
<1>7. ASSUME NEW k \in Keys, DeliverObject(k) PROVE Bystander
  BY <1>7, SameGatewaysKeep, SameObjectsKeep DEF DeliverObject, serverVars, Bystander
<1>8. CASE Crash
  BY <1>8, SameGatewaysKeep, SameObjectsKeep DEF Crash, Restart, serverVars, Bystander
<1> QED BY <1>1, <1>2, <1>3, <1>4, <1>5, <1>6, <1>7, <1>8 DEF User, Cluster

-----------------------------------------------------------------------------
\* Part one: nothing is created for a gateway without the finalizer.

\* Every step of the worker keeps the invariant.
LEMMA WorkerGuard ==
    ASSUME Guarded, TypeOK', CachesFollow', Progress, Worker PROVE Guarded'
<1>0. TypeOK /\ CachesFollow
  BY DEF Guarded
<1>1. CASE checkNamespace
  BY <1>1, NamespaceGuard
<1>2. CASE addFinalizer
  BY <1>2, AddFinalizerGuard
<1>3. CASE finalizeHigressGateway
  <2>1. pc = "finalize"
    BY <1>3 DEF finalizeHigressGateway
  <2> QED BY <1>0, <1>3, <2>1, FinalizeTypes, FinalizeGuard
<1>4. CASE removeFinalizer
  BY <1>4, RemoveFinalizerGuard
<1>5. CASE EnsureEffect
  BY <1>5, EnsureGuard
<1>6. CASE createSkywalkingConfigMap
  BY <1>0, <1>6, SkywalkingTypes, SameGatewaysKeep, BystanderKeepsGuard
<1>7. CASE createService
  <2>1. CASE Restart /\ UNCHANGED <<serverVars, boundVars>>
    BY <2>1, SameGatewaysKeep, BystanderKeepsGuard DEF Restart, serverVars
  <2> QED BY <1>0, <1>5, <1>7, <2>1, EnsuresService
<1>8. CASE updateStatus
  BY <1>8, StatusGuard
<1> QED BY <1>0, <1>1, <1>2, <1>3, <1>4, <1>5, <1>6, <1>7, <1>8,
           EnsuresServiceAccount, EnsuresRules, EnsuresClusterRoleBinding,
           EnsuresRoleBinding, EnsuresConfigMap, EnsuresDeployment DEF Worker

\* The invariant holds at the start.
LEMMA InitGuard == ASSUME Init PROVE Guarded
<1>1. TypeOK /\ CachesFollow
  BY InitTypes
<1>2. CacheShowsFinalizer
  BY DEF Init, CacheShowsFinalizer, NeverStored, Exists
<1>3. InstanceFollows /\ WorkerIsEntitled
  BY DEF Init, InstanceFollows, WorkerIsEntitled, Entering, Closing, EnsureSteps, Order
<1> QED BY <1>1, <1>2, <1>3 DEF Guarded

\* Every step of the system keeps the invariant.
LEMMA StepGuard == ASSUME Guarded, [Next]_vars PROVE Guarded'
<1>1. TypeOK' /\ CachesFollow' /\ Progress
  BY StepTypes DEF Guarded
<1>2. ASSUME NEW g \in Gateways, Reconcile(g) PROVE Guarded'
  BY <1>1, <1>2, ReconcileGuard
<1>3. CASE Worker
  BY <1>1, <1>3, WorkerGuard
<1>4. CASE User \/ Cluster \/ Crash
  BY <1>1, <1>4, EnvironmentKeeps, BystanderKeepsGuard DEF Bystander
<1>5. CASE UNCHANGED vars
  BY <1>1, <1>5, SameGatewaysKeep, BystanderKeepsGuard DEF vars, serverVars
<1> QED BY <1>2, <1>3, <1>4, <1>5 DEF Next

\* What CreatedUnderFinalizer says of a step.
CreatesUnderFinalizer ==
    \A k \in Keys : ~Exists(objects[k]) /\ Exists(objects'[k]) =>
        /\ Registered(req)
        /\ objects'[k].content.owner \in {Nil, Owner(req, gateways[req].content.uid)}

\* finalizeHigressGateway rewrites a binding that exists, or nothing.
LEMMA FinalizeCreatesNothing ==
    ASSUME Guarded, NEW k \in Keys, FinalizeEffect(k)
    PROVE  CreatesUnderFinalizer
<1> DEFINE result == Update(objects[k], Seen(k), Unbound(k))
<1>1. CASE UNCHANGED objects
  BY <1>1 DEF CreatesUnderFinalizer, Exists
<1>2. CASE Store(k, result.object)
  <2>1. \A l \in Keys : objects'[l] = IF l = k THEN result.object ELSE objects[l]
    BY <1>2 DEF Store, Guarded, TypeOK
  <2>2. ~Exists(objects[k]) => result.object = objects[k]
    BY DEF Update, Answer
  <2> HIDE DEF result
  <2> QED BY <2>1, <2>2 DEF CreatesUnderFinalizer, Exists
<1> QED BY <1>1, <1>2 DEF FinalizeEffect

\* The create* steps create for the gateway being reconciled, in its own name.
LEMMA EnsureCreates ==
    ASSUME Guarded, EnsureEffect PROVE CreatesUnderFinalizer
<1>1. Registered(req) /\ gateways[req].content.uid = uid
  BY DEF Guarded, WorkerIsEntitled, EnsureEffect, Entering, uid
<1>2. CASE objects' = objects
  BY <1>2 DEF CreatesUnderFinalizer, Exists
<1>3. CASE objects' # objects
  <2>1. PICK k \in Keys : \E object \in Object(ContentOf(k.kind)) :
           objects' = [objects EXCEPT ![k] = object] /\ CreatesOwn(k, object)
    BY <1>3 DEF EnsureEffect
  <2>2. PICK object \in Object(ContentOf(k.kind)) :
           objects' = [objects EXCEPT ![k] = object] /\ CreatesOwn(k, object)
    BY <2>1
  <2>3. \A l \in Keys : objects'[l] = IF l = k THEN object ELSE objects[l]
    BY <2>2 DEF Guarded, TypeOK
  <2> QED BY <1>1, <2>2, <2>3 DEF CreatesUnderFinalizer, CreatesOwn, OwnOwner, Exists
<1> QED BY <1>2, <1>3

\* The removal of an object creates none.
LEMMA RemoveObjectCreatesNothing ==
    ASSUME Guarded, NEW k \in Keys, RemoveObject(k) PROVE CreatesUnderFinalizer
<1>1. Removed(objects[k]).content = Nothing
  BY WrittenFacts DEF Removed, Guarded, TypeOK
<1>2. \A l \in Keys : objects'[l] = IF l = k THEN Removed(objects[k]) ELSE objects[l]
  BY DEF RemoveObject, Store, Guarded, TypeOK
<1> QED BY <1>1, <1>2 DEF CreatesUnderFinalizer, Exists

\* Whatever a step of the system creates is created under the finalizer.
LEMMA StepCreates ==
    ASSUME Guarded, [Next]_vars PROVE CreatesUnderFinalizer
<1>1. TypeOK /\ CachesFollow
  BY DEF Guarded
<1>2. CASE objects' = objects
  BY <1>2 DEF CreatesUnderFinalizer, Exists
<1>3. CASE finalizeHigressGateway
  BY <1>1, <1>3, FinalizeTypes, FinalizeCreatesNothing
<1>4. CASE EnsureEffect
  BY <1>4, EnsureCreates
<1>5. ASSUME NEW k \in Keys, DeleteObject(k) \/ CollectGarbage(k) \/ EvictObject(k)
      PROVE  CreatesUnderFinalizer
  BY <1>5, RemoveObjectCreatesNothing DEF DeleteObject, CollectGarbage, EvictObject
<1>6. CASE createService
  BY <1>1, <1>2, <1>4, <1>6, EnsuresService DEF serverVars
<1>7. CASE \/ checkNamespace \/ addFinalizer \/ removeFinalizer
           \/ createSkywalkingConfigMap \/ updateStatus
  <2>1. objects' = objects
    BY <1>7 DEF checkNamespace, addFinalizer, removeFinalizer, createSkywalkingConfigMap,
                updateStatus, CallForGateway, serverVars
  <2> QED BY <1>2, <2>1
<1>8. CASE Worker
  BY <1>1, <1>3, <1>4, <1>6, <1>7, <1>8, EnsuresServiceAccount, EnsuresRules,
     EnsuresClusterRoleBinding, EnsuresRoleBinding, EnsuresConfigMap, EnsuresDeployment
  DEF Worker
<1>9. CASE User
  <2>1. objects' = objects \/ \E k \in Keys : DeleteObject(k)
    BY <1>9 DEF User, CreateGateway, UpdateGateway, DeleteGateway, SetGateway, TerminateNamespace
  <2> QED BY <1>2, <1>5, <2>1
<1>10. CASE Cluster
  <2>1. objects' = objects \/ \E k \in Keys : CollectGarbage(k) \/ EvictObject(k)
    BY <1>10 DEF Cluster, DeliverGateway, EvictGateway, SetGateway, DeliverObject, serverVars
  <2> QED BY <1>2, <1>5, <2>1
<1>11. CASE Crash \/ UNCHANGED vars \/ \E g \in Gateways : Reconcile(g)
  <2>1. objects' = objects
    BY <1>11 DEF Crash, Reconcile, vars, serverVars
  <2> QED BY <1>2, <2>1
<1> QED BY <1>8, <1>9, <1>10, <1>11 DEF Next

\* An object is created only for a gateway whose finalizer is stored, under the
\* uid of its present incarnation, however old the copies are that the worker
\* acts on.
THEOREM CreationIsGuarded == Spec => CreatedUnderFinalizer
<1>1. Init => Guarded
  BY InitGuard
<1>2. Guarded /\ [Next]_vars => Guarded'
  BY StepGuard
<1>3. Guarded /\ [Next]_vars =>
        [\A k \in Keys : ~Exists(objects[k]) /\ Exists(objects'[k]) =>
            /\ Registered(req)
            /\ objects'[k].content.owner \in {Nil, Owner(req, gateways[req].content.uid)}]_vars
  BY StepCreates DEF CreatesUnderFinalizer
<1> QED BY <1>1, <1>2, <1>3, PTL DEF Spec, CreatedUnderFinalizer

-----------------------------------------------------------------------------
\* Part two: no subject outlives its gateway.

\* Editing a gateway never changes the name of its service account.
AccountsAreStable ==
    \A g \in Gateways : \A d, e \in DefaultedSpecs(g) :
        getServiceAccount(g, d) = getServiceAccount(g, e)

\* A binding holds subjects of its own name only.
SubjectsAreNamed ==
    \A k \in Keys : IsBinding(k) => \A s \in objects[k].content.subjects : s.name = k.name

\* Between the two calls of a deletion the subject is gone.
SubjectIsDropped ==
    pc = "removeFinalizer" =>
        \A k \in Keys : IsBinding(k) => Subject(req, wanted) \notin objects[k].content.subjects

Inductive ==
    /\ Guarded
    /\ SubjectsAreNamed
    /\ SubjectIsDropped
    /\ NoDanglingSubject

\* All specs of a gateway that can be stored name the same subject.
LEMMA SubjectIsStable ==
    ASSUME AccountsAreStable, NEW g \in Gateways, NEW d \in DefaultedSpecs(g),
           NEW object \in Object(GatewayContent(StoredSpecs(g))), Exists(object)
    PROVE  Subject(g, setDefaultValues(g, object.content.spec)) = Subject(g, d)
<1>1. object.content.spec \in StoredSpecs(g)
  BY DEF Object, Exists, GatewayContent
<1>2. setDefaultValues(g, object.content.spec) \in DefaultedSpecs(g)
  BY <1>1, DefaultsAreIdempotent
<1> QED BY <1>2 DEF AccountsAreStable, Subject

\* Every subject is an old one or that of a registered gateway.
SubjectsAreKept ==
    \A k \in Keys : k.kind = "ClusterRoleBinding" /\ Exists(objects'[k]) =>
        \A s \in objects'[k].content.subjects :
            /\ s.name = k.name \/ (IsBinding(k) /\ s \in objects[k].content.subjects)
            /\ \/ IsBinding(k) /\ s \in objects[k].content.subjects
               \/ \E g \in Gateways :
                     Registered(g) /\ \E d \in DefaultedSpecs(g) : s = Subject(g, d)

\* A subject that is not dropped keeps its gateway when registrations stay.
LEMMA SubjectsStayRegistered ==
    ASSUME AccountsAreStable, Inductive, TypeOK', RegistrationsKeep, SubjectsAreKept
    PROVE  SubjectsAreNamed' /\ NoDanglingSubject'
<1>1. SubjectsAreNamed'
  BY DEF Inductive, SubjectsAreNamed, SubjectsAreKept, IsBinding, Exists
<1>2. ASSUME NEW g \in Gateways, NEW d \in DefaultedSpecs(g), Registered(g)
      PROVE  Registered(g)' /\ SubjectOf(g)' = Subject(g, d)
  <2>1. Registered(g)' /\ Exists(gateways'[g])
    BY <1>2 DEF RegistrationsKeep, Registered, Exists
  <2>2. gateways'[g] \in Object(GatewayContent(StoredSpecs(g)))
    BY DEF TypeOK
  <2> QED BY <2>1, <2>2, SubjectIsStable DEF SubjectOf, StoredSpec
<1>3. ASSUME NEW k \in Keys, k.kind = "ClusterRoleBinding", Exists(objects'[k]),
             NEW s \in objects'[k].content.subjects
      PROVE  \E g \in Gateways : Registered(g)' /\ s = SubjectOf(g)'
  <2>1. CASE IsBinding(k) /\ s \in objects[k].content.subjects
    <3>1. PICK g \in Gateways : Registered(g) /\ s = SubjectOf(g)
      BY <2>1 DEF Inductive, NoDanglingSubject, IsBinding
    <3>2. gateways[g].content.spec \in StoredSpecs(g)
      BY <3>1 DEF Inductive, Guarded, TypeOK, Object, Exists, Registered, GatewayContent
    <3>3. StoredSpec(g) \in DefaultedSpecs(g)
      BY <3>2, DefaultsAreIdempotent DEF StoredSpec
    <3> QED BY <1>2, <3>1, <3>3 DEF SubjectOf
  <2>2. CASE \E g \in Gateways : Registered(g) /\ \E d \in DefaultedSpecs(g) : s = Subject(g, d)
    BY <1>2, <2>2
  <2> QED BY <1>3, <2>1, <2>2 DEF SubjectsAreKept
<1>4. NoDanglingSubject'
  BY <1>3 DEF NoDanglingSubject, Exists
<1> QED BY <1>1, <1>4

\* A bystander leaves no subject behind.
LEMMA BystanderKeepsSubjects ==
    ASSUME AccountsAreStable, Inductive, TypeOK', Bystander
    PROVE  SubjectsAreNamed' /\ SubjectIsDropped' /\ NoDanglingSubject'
<1>1. SubjectsAreKept
  BY DEF Bystander, BindingsKeep, SubjectsAreKept
<1>2. SubjectIsDropped'
  BY DEF Inductive, SubjectIsDropped, Bystander, BindingsKeep, IsBinding, Exists,
         wanted, workerVars, Idle
<1> QED BY <1>1, <1>2, SubjectsStayRegistered DEF Bystander

\* A step of the worker that writes no object and keeps registrations leaves no subject behind.
LEMMA SameObjectsKeepSubjects ==
    ASSUME AccountsAreStable, Inductive, TypeOK', RegistrationsKeep,
           objects' = objects, pc' # "removeFinalizer"
    PROVE  SubjectsAreNamed' /\ SubjectIsDropped' /\ NoDanglingSubject'
<1>1. SubjectsAreKept
  BY SameObjectsKeep DEF BindingsKeep, SubjectsAreKept
<1>2. SubjectIsDropped'
  BY DEF SubjectIsDropped
<1> QED BY <1>1, <1>2, SubjectsStayRegistered

\* createClusterRoleBinding adds no subject but that of the registered gateway.
LEMMA EnsureKeepsSubjects ==
    ASSUME AccountsAreStable, Inductive, TypeOK', EnsureEffect
    PROVE  SubjectsAreNamed' /\ SubjectIsDropped' /\ NoDanglingSubject'
<1>1. Registered(req) /\ req \in Gateways /\ wanted \in DefaultedSpecs(req)
  <2>1. pc # "idle" /\ TypeOK
    BY DEF EnsureEffect, EnsureSteps, Order, Inductive, Guarded
  <2> QED BY <2>1, WorkerFacts
          DEF Inductive, Guarded, WorkerIsEntitled, EnsureEffect, Entering
<1>2. SubjectsAreKept
  <2>1. CASE objects' = objects
    BY <2>1, SameObjectsKeep DEF BindingsKeep, SubjectsAreKept
  <2>2. CASE objects' # objects
    <3>1. PICK k \in Keys : \E object \in Object(ContentOf(k.kind)) :
             objects' = [objects EXCEPT ![k] = object] /\ AddsOnlyOwnSubject(k, object)
      BY <2>2 DEF EnsureEffect
    <3>2. PICK object \in Object(ContentOf(k.kind)) :
             objects' = [objects EXCEPT ![k] = object] /\ AddsOnlyOwnSubject(k, object)
      BY <3>1
    <3>3. \A l \in Keys : objects'[l] = IF l = k THEN object ELSE objects[l]
      BY <3>2 DEF Inductive, Guarded, TypeOK
    <3> QED BY <1>1, <3>2, <3>3 DEF SubjectsAreKept, AddsOnlyOwnSubject, IsBinding, Exists
  <2> QED BY <2>1, <2>2
<1>3. SubjectIsDropped'
  BY DEF SubjectIsDropped, EnsureEffect, EnsureSteps, Order, Idle
<1>4. RegistrationsKeep
  BY SameGatewaysKeep DEF EnsureEffect
<1> QED BY <1>2, <1>3, <1>4, SubjectsStayRegistered

\* finalizeHigressGateway takes the subject out of the one binding it can be in.
LEMMA FinalizeDropsSubject ==
    ASSUME AccountsAreStable, Inductive, TypeOK', finalizeHigressGateway
    PROVE  SubjectsAreNamed' /\ SubjectIsDropped' /\ NoDanglingSubject'
<1> DEFINE k == KeyOf("ClusterRoleBinding", req, wanted)
           result == Update(objects[k], Seen(k), Unbound(k))
           own == Subject(req, wanted)
<1>1. TypeOK /\ CachesFollow /\ pc # "idle" /\ "ClusterRoleBinding" \in Kinds
  BY KindsAssumption DEF Inductive, Guarded, finalizeHigressGateway
<1>2. k \in Keys /\ k.kind = "ClusterRoleBinding" /\ FinalizeEffect(k)
  BY <1>1, FinalizeTypes
<1>3. k = Key("ClusterRoleBinding", "", own.name) /\ own.name = k.name
  <2>1. k = Key("ClusterRoleBinding", "", getServiceAccount(req, wanted))
    BY DEF KeyOf
  <2>2. own.name = getServiceAccount(req, wanted)
    BY DEF Subject
  <2>3. Key("ClusterRoleBinding", "", own.name).name = own.name
    BY DEF Key
  <2> QED BY <2>1, <2>2, <2>3
<1>4. RegistrationsKeep
  BY <1>2, SameGatewaysKeep DEF FinalizeEffect
<1> HIDE DEF k
<1>5. Seen(k) \in Object(ContentOf("ClusterRoleBinding"))
      /\ objects[k] \in Object(ContentOf("ClusterRoleBinding"))
      /\ Follows(Seen(k), objects[k])
  BY <1>1, <1>2, SeenFacts
<1>6. Exists(Seen(k)) =>
        /\ Unbound(k) \in ContentOf("ClusterRoleBinding")
        /\ Unbound(k).subjects \subseteq Seen(k).content.subjects
        /\ own \notin Unbound(k).subjects
  <2>1. Exists(Seen(k)) => Seen(k).content \in ContentOf("ClusterRoleBinding")
    BY <1>5 DEF Object, Exists
  <2>2. own.name = getServiceAccount(req, wanted) /\ own.ns = req.ns
    BY DEF Subject
  <2> HIDE DEF own
  <2> QED BY <2>1, <2>2 DEF Unbound, SubjectsKept, ContentOf
<1>7. Exists(Seen(k)) =>
        \/ result.object = objects[k] /\ ~result.ok
        \/ /\ Exists(objects[k])
           /\ result.object.content = Unbound(k)
           /\ Seen(k).content = objects[k].content
  <2>1. Exists(Seen(k)) =>
          /\ result.ok => /\ Exists(objects[k])
                          /\ objects[k].version = Seen(k).version
                          /\ result.object = Written(objects[k], Unbound(k))
          /\ ~result.ok => result.object = objects[k]
    BY <1>5, <1>6, UpdateFacts
  <2>2. Exists(Seen(k)) => Written(objects[k], Unbound(k)).content = Unbound(k)
    BY <1>5, <1>6, WrittenFacts
  <2> HIDE DEF result
  <2> QED BY <1>5, <2>1, <2>2 DEF Follows
<1> HIDE DEF result, own
<1>8. \/ objects' = objects
      \/ /\ Exists(Seen(k))
         /\ \A l \in Keys : objects'[l] = IF l = k THEN result.object ELSE objects[l]
  BY <1>1, <1>2 DEF FinalizeEffect, Store, TypeOK, result
<1>9. SubjectsAreKept
  <2>1. CASE objects' = objects
    BY <2>1, SameObjectsKeep DEF BindingsKeep, SubjectsAreKept
  <2>2. CASE objects' # objects
    BY <1>2, <1>6, <1>7, <1>8, <2>2 DEF SubjectsAreKept, IsBinding, Exists
  <2> QED BY <2>1, <2>2
<1>10. SubjectsAreNamed' /\ NoDanglingSubject'
  BY <1>4, <1>9, SubjectsStayRegistered
<1>11. SubjectIsDropped'
  <2> SUFFICES ASSUME pc' = "removeFinalizer", NEW l \in Keys, IsBinding(l)'
               PROVE  own \notin objects'[l].content.subjects /\ own = Subject(req, wanted)'
    BY DEF SubjectIsDropped
  <2>1. /\ UNCHANGED <<req, instance>> /\ Exists(Seen(k)) /\ result.ok
        /\ \A m \in Keys : objects'[m] = IF m = k THEN result.object ELSE objects[m]
    BY <1>1, <1>2 DEF FinalizeEffect, Store, TypeOK, Idle, result
  <2>2. own = Subject(req, wanted)'
    BY <2>1 DEF own, Subject, getServiceAccount, wanted
  <2>3. CASE l = k
    BY <1>2, <1>6, <1>7, <2>1, <2>2, <2>3
  <2>4. CASE l # k
    <3>1. l.name # k.name
      BY <1>2, <1>3, <2>4, KeysAreNamed DEF IsBinding
    <3>2. IsBinding(l) /\ objects'[l] = objects[l]
      BY <2>1, <2>4 DEF IsBinding, Exists
    <3> QED BY <1>3, <2>2, <3>1, <3>2 DEF Inductive, SubjectsAreNamed
  <2> QED BY <2>2, <2>3, <2>4
<1> QED BY <1>10, <1>11

\* removeFinalizer unregisters a gateway whose subject is in no binding.
LEMMA RemovalIsSafe ==
    ASSUME AccountsAreStable, Inductive, TypeOK', removeFinalizer, RemovesOnlyFinalizer
    PROVE  SubjectsAreNamed' /\ SubjectIsDropped' /\ NoDanglingSubject'
<1>1. TypeOK /\ pc = "removeFinalizer" /\ pc # "idle"
  BY DEF removeFinalizer, Inductive, Guarded
<1>2. objects' = objects /\ Idle
  BY <1>1, RemoveFinalizerTypes DEF WritesGateway
<1>3. SubjectsAreNamed' /\ SubjectIsDropped'
  BY <1>2 DEF Inductive, SubjectsAreNamed, SubjectIsDropped, IsBinding, Exists, Idle
<1>4. ASSUME NEW k \in Keys, IsBinding(k), NEW s \in objects[k].content.subjects
      PROVE  \E g \in Gateways : Registered(g)' /\ s = SubjectOf(g)'
  <2>1. PICK g \in Gateways : Registered(g) /\ s = SubjectOf(g)
    BY <1>4 DEF Inductive, NoDanglingSubject, IsBinding
  <2>2. CASE g # req \/ gateways'[req] = gateways[req]
    BY <2>1, <2>2 DEF RemovesOnlyFinalizer, Registered, Exists, SubjectOf, StoredSpec
  <2>3. CASE g = req
    <3>1. wanted \in DefaultedSpecs(req)
      BY <1>1, WorkerFacts
    <3>2. SubjectOf(req) = Subject(req, wanted)
      BY <1>1, <2>1, <2>3, <3>1, SubjectIsStable DEF SubjectOf, StoredSpec, TypeOK, Registered
    <3> QED BY <1>1, <1>4, <2>1, <2>3, <3>2 DEF Inductive, SubjectIsDropped
  <2> QED BY <2>2, <2>3
<1>5. NoDanglingSubject'
  BY <1>2, <1>4 DEF NoDanglingSubject, IsBinding, Exists
<1> QED BY <1>3, <1>5

\* Every step of the system keeps the invariant of the subjects.
LEMMA StepKeepsSubjects ==
    ASSUME AccountsAreStable, Inductive, [Next]_vars PROVE Inductive'
<1>1. TypeOK /\ CachesFollow /\ Guarded
  BY DEF Inductive, Guarded
<1>2. TypeOK' /\ CachesFollow' /\ Progress /\ Guarded'
  BY <1>1, StepTypes, StepGuard
<1> SUFFICES SubjectsAreNamed' /\ SubjectIsDropped' /\ NoDanglingSubject'
  BY <1>2 DEF Inductive
<1>3. CASE User \/ Cluster \/ Crash
  BY <1>1, <1>2, <1>3, EnvironmentKeeps, BystanderKeepsSubjects
<1>4. CASE EnsureEffect
  BY <1>2, <1>4, EnsureKeepsSubjects
<1>5. CASE finalizeHigressGateway
  BY <1>2, <1>5, FinalizeDropsSubject
<1>6. CASE removeFinalizer
  BY <1>1, <1>2, <1>6, RemoveFinalizerGuard, RemovalIsSafe
<1>7. CASE \E g \in Gateways : Reconcile(g)
  <2>1. UNCHANGED <<gateways, objects>> /\ pc' # "removeFinalizer"
    BY <1>7 DEF Reconcile, serverVars, workerVars
  <2> QED BY <1>2, <2>1, SameGatewaysKeep, SameObjectsKeepSubjects
<1>8. CASE checkNamespace
  <2>1. UNCHANGED <<gateways, objects>>
    BY <1>8 DEF checkNamespace, serverVars
  <2>2. pc' # "removeFinalizer"
    BY <1>8, ContinueFacts DEF checkNamespace, Finish, Idle, GoTo, EnsureSteps, Order
  <2> QED BY <1>2, <2>1, <2>2, SameGatewaysKeep, SameObjectsKeepSubjects
<1>9. CASE addFinalizer
  <2>1. objects' = objects /\ RegistrationsKeep
    BY <1>1, <1>2, <1>9, AddFinalizerGuard DEF addFinalizer, CallForGateway
  <2>2. pc' # "removeFinalizer"
    BY <1>9, ContinueFacts DEF addFinalizer, CallForGateway, Retry, Idle, EnsureSteps, Order
  <2> QED BY <1>2, <2>1, <2>2, SameObjectsKeepSubjects
<1>10. CASE updateStatus
  <2>1. objects' = objects /\ RegistrationsKeep /\ Idle
    BY <1>1, <1>2, <1>10, StatusGuard, StatusTypes DEF WritesGateway
  <2> QED BY <1>2, <2>1, SameObjectsKeepSubjects DEF Idle
<1>11. CASE createSkywalkingConfigMap \/ (Restart /\ UNCHANGED <<serverVars, boundVars>>)
  <2>1. UNCHANGED <<gateways, objects>> /\ Idle
    BY <1>1, <1>11, SkywalkingTypes DEF Restart, serverVars
  <2> QED BY <1>2, <2>1, SameGatewaysKeep, SameObjectsKeepSubjects DEF Idle
<1>12. CASE Worker
  BY <1>1, <1>4, <1>5, <1>6, <1>8, <1>9, <1>10, <1>11, <1>12, EnsuresServiceAccount,
     EnsuresRules, EnsuresClusterRoleBinding, EnsuresRoleBinding, EnsuresConfigMap,
     EnsuresDeployment, EnsuresService DEF Worker
<1>13. CASE UNCHANGED vars
  <2>1. Bystander
    BY <1>13, SameGatewaysKeep, SameObjectsKeep DEF vars, serverVars, Bystander
  <2> QED BY <1>2, <2>1, BystanderKeepsSubjects
<1> QED BY <1>3, <1>7, <1>12, <1>13 DEF Next

\* As long as edits do not rename service accounts, every subject of a
\* ClusterRoleBinding is the service account of a gateway that still holds the
\* finalizer: finalizeHigressGateway has dropped it before RemoveFinalizer,
\* through stale reads, conflicts, lost answers and crashes.
THEOREM SubjectsNeverDangle ==
    ASSUME AccountsAreStable PROVE Spec => []NoDanglingSubject
<1>1. Init => Inductive
  BY InitGuard DEF Init, Inductive, SubjectsAreNamed, SubjectIsDropped, NoDanglingSubject,
                   IsBinding, NeverStored, Exists
<1>2. Inductive /\ [Next]_vars => Inductive'
  BY StepKeepsSubjects
<1>3. Inductive => NoDanglingSubject
  BY DEF Inductive
<1> QED BY <1>1, <1>2, <1>3, PTL DEF Spec
=============================================================================
