------------------------- MODULE GatewayPassProofs -------------------------
(***************************************************************************)
(* What a pass of the HigressGateway controller has done when it reports   *)
(* success, and what it leaves alone.                                      *)
(***************************************************************************)
EXTENDS GatewayConvergenceProofs

-----------------------------------------------------------------------------
\* Part one: deployed is reported only when the gateway is bound.

\* The informer of the bindings is up to date.
BindingsAreFresh == "ClusterRoleBinding" \notin LaggingKinds

Binding(g) == Asked("ClusterRoleBinding", g) => UpToDate("ClusterRoleBinding", g)

\* A pass over the stored gateway that is past createRBAC has bound it.
PassBinds ==
    \A g \in Gateways :
        Passing(g) /\ pc \in EnsureSteps /\ Order[pc] > Order["ClusterRoleBinding"] => Binding(g)

Reporting == Guarded /\ InstanceMirrors /\ PassBinds

\* Past the binding or before it.
LEMMA PastFacts ==
    ASSUME NEW step \in EnsureSteps
    PROVE  /\ Order["ClusterRoleBinding"] = 3 /\ Position(step) = Order[step]
           /\ Order[step] > 3 \/ Order[step] < 3 \/ step = "ClusterRoleBinding"
           /\ Order[step] > 3 => step # "ClusterRoleBinding"
BY DEF EnsureSteps, Order, Position

\* The worker is left alone and so are the bindings.
LEMMA BindingStays ==
    ASSUME Guarded, TypeOK', Progress, NEW g \in Gateways, Binding(g),
           Exists(gateways[g]), gateways'[g] = gateways[g],
           \A k \in Keys : k.kind = "ClusterRoleBinding" => objects'[k] = objects[k]
    PROVE  Binding(g)'
<1>1. "ClusterRoleBinding" \in Kinds /\ TypeOK
  BY KindsAssumption DEF Guarded
<1>2. PICK h \in Keys : h = Home("ClusterRoleBinding", g) /\ h.kind = "ClusterRoleBinding"
  BY <1>1, HomeFacts
<1>3. StoredSpec(g)' = StoredSpec(g) /\ objects'[h] = objects[h]
  BY <1>2 DEF StoredSpec
<1> QED BY <1>2, <1>3 DEF Binding, Asked, UpToDate, Describes, Home, Exists

\* A pass over a gateway that is stored after the step was one before it.
LEMMA PassingBefore ==
    ASSUME Guarded, TypeOK', Progress, NEW g \in Gateways, Passing(g)',
           pc # "idle", UNCHANGED <<req, instance>>
    PROVE  Passing(g) /\ gateways'[g] = gateways[g]
<1>1. /\ req = g /\ instance.version = gateways'[g].version
      /\ instance.version \in Nat /\ gateways[g].version \in Nat
      /\ gateways[g] \in Object(GatewayContent(StoredSpecs(g)))
      /\ gateways'[g] \in Object(GatewayContent(StoredSpecs(g)))
  BY DEF Passing, Working, Guarded, TypeOK, Object
<1>2. instance.version <= gateways[g].version
  BY <1>1 DEF Guarded, InstanceFollows
<1>3. Advances(gateways[g], gateways'[g])
  BY DEF Progress
<1>4. gateways[g].version = gateways'[g].version /\ gateways[g].content = gateways'[g].content
  BY <1>1, <1>2, <1>3 DEF Advances, Object
<1> QED BY <1>1, <1>4 DEF Passing, Working, Object

\* The bindings stay, and the worker is left alone or goes idle.
LEMMA BystanderBinds ==
    ASSUME Guarded, TypeOK', Progress, InstanceMirrors, PassBinds,
           UNCHANGED workerVars \/ Idle,
           \A k \in Keys : k.kind = "ClusterRoleBinding" => objects'[k] = objects[k]
    PROVE  PassBinds'
<1> SUFFICES ASSUME NEW g \in Gateways, Passing(g)', pc' \in EnsureSteps,
                    (Order[pc] > Order["ClusterRoleBinding"])'
             PROVE  Binding(g)'
  BY DEF PassBinds
<1>1. pc' # "idle"
  BY DEF EnsureSteps, Order
<1>2. UNCHANGED workerVars /\ pc # "idle"
  BY <1>1 DEF Idle, workerVars
<1>3. Passing(g) /\ gateways'[g] = gateways[g]
  BY <1>2, PassingBefore DEF workerVars
<1>4. Binding(g) /\ Exists(gateways[g])
  BY <1>2, <1>3, PassFacts DEF PassBinds, workerVars
<1> QED BY <1>3, <1>4, BindingStays

\* A pass that goes on from before the binding to past it has nothing to bind.
LEMMA SkipBinds ==
    ASSUME InstanceMirrors', NEW g \in Gateways, Passing(g)', Continue, wanted' = wanted,
           Position(pc) < 3, NEW next \in EnsureSteps, next = pc', Order[next] > 3
    PROVE  Binding(g)'
<1>1. "ClusterRoleBinding" \in Kinds /\ Order["ClusterRoleBinding"] = 3
  BY KindsAssumption DEF Order
<1>2. ~(wanted.rbac /\ wanted.serviceAccount.enable)
  BY <1>1, SkippedIsNotWanted
<1>3. wanted' = StoredSpec(g)'
  BY DEF InstanceMirrors, Passing, Working, wanted
<1> QED BY <1>2, <1>3 DEF Binding, Asked, RBACKinds

\* The worker goes idle, unless it goes on with the same spec and leaves the
\* bindings alone, or binds.
LEMMA BindingSteps ==
    ASSUME BindingsAreFresh, Guarded, Worker
    PROVE  /\ pc # "idle"
           /\ \/ Idle
              \/ pc' \notin EnsureSteps
              \/ /\ Continue /\ wanted' = wanted
                 /\ pc \notin EnsureSteps
              \/ /\ Continue /\ UNCHANGED <<req, instance>> /\ pc \in EnsureSteps
                 /\ \/ pc # "ClusterRoleBinding" /\ \A k \in Keys :
                          k.kind = "ClusterRoleBinding" => objects'[k] = objects[k]
                    \/ pc = "ClusterRoleBinding" /\ Ensures
<1>0. TypeOK /\ CachesFollow
  BY DEF Guarded
<1>1. pc # "idle" /\ (addFinalizer \/ Idle \/ UNCHANGED <<req, instance>>)
  BY <1>0, InstanceIsKept
<1>2. ReadIsWatched \/ pc # "ClusterRoleBinding"
  BY DEF BindingsAreFresh, ReadIsWatched
<1>3. {"removeFinalizer", "addFinalizer", "namespace", "finalize"} \cap EnsureSteps = {}
  BY DEF EnsureSteps, Order
<1>4. CASE checkNamespace
  BY <1>3, <1>4 DEF checkNamespace, Finish, GoTo, wanted
<1>5. CASE addFinalizer
  <2> DEFINE content == [instance.content EXCEPT !.finalizer = TRUE]
             answer == Update(gateways[req], instance, content)
  <2>1. pc = "addFinalizer" /\ (Retry \/ (answer.ok /\ Continue /\ instance' = answer.object))
    BY <1>5 DEF addFinalizer, CallForGateway
  <2>2. content.spec = instance.content.spec
    BY <1>0, <2>1 DEF TypeOK, GatewayContent
  <2>3. CASE answer.ok /\ instance' = answer.object
    <3>1. answer.object = Written(gateways[req], content)
      BY <2>3 DEF Update, Answer
    <3>2. instance'.content = content
      <4> HIDE DEF content, answer
      <4> QED BY <2>3, <3>1 DEF Written
    <3> HIDE DEF content, answer
    <3>3. wanted' = wanted
      BY <2>2, <3>2 DEF wanted
    <3> QED BY <1>1, <1>3, <2>1, <3>3 DEF Retry
  <2> QED BY <1>1, <2>1, <2>3 DEF Retry
<1>6. CASE finalizeHigressGateway
  BY <1>1, <1>3, <1>6 DEF finalizeHigressGateway, BindingNotFound, Retry, GoTo
<1>7. removeFinalizer \/ updateStatus => Idle
  BY <1>0, <1>1, RemoveFinalizerTypes, StatusTypes DEF WritesGateway
<1>8. createSkywalkingConfigMap => Idle
  BY <1>0, SkywalkingTypes
<1>9. CASE createClusterRoleBinding
  <2>1. Ensures /\ pc = "ClusterRoleBinding" /\ pc \in EnsureSteps
    BY <1>0, <1>2, <1>9, ClusterRoleBindingEnsures
       DEF createClusterRoleBinding, EnsureSteps, Order
  <2> QED BY <1>1, <2>1, ContinueFacts DEF Ensures, Retry
<1>10. CASE \/ createServiceAccount \/ createClusterRole \/ createRole \/ createRoleBinding
            \/ createConfigMap \/ createDeployment
  <2>1. /\ pc # "ClusterRoleBinding" /\ pc \in EnsureSteps
        /\ \E answer : CallForObject(keyOf(pc), answer)
    BY <1>10 DEF createServiceAccount, createClusterRole, createRole, createRoleBinding,
                 createConfigMap, createDeployment, CreateOrUpdateObject, EnsureSteps, Order
  <2>2. Idle \/ (Continue /\ UNCHANGED <<req, instance>>)
    BY <2>1, ContinueFacts DEF CallForObject, Retry
  <2> QED BY <1>0, <1>1, <1>10, <2>1, <2>2, OtherCallsKeepBindings
<1>11. CASE createService
  <2>1. /\ pc # "ClusterRoleBinding" /\ pc \in EnsureSteps
        /\ Restart \/ \E answer : CallForObject(keyOf("Service"), answer)
    BY <1>11 DEF createService, CreateOrUpdateObject, EnsureSteps, Order
  <2>2. Idle \/ (Continue /\ UNCHANGED <<req, instance>>)
    BY <2>1, ContinueFacts DEF CallForObject, Retry, Restart
  <2> QED BY <1>0, <1>1, <1>11, <2>1, <2>2, ServiceKeepsBindings
<1> QED BY <1>1, <1>4, <1>5, <1>6, <1>7, <1>8, <1>9, <1>10, <1>11 DEF Worker

\* What createClusterRoleBinding has ensured is the binding of its gateway.
LEMMA EnsuredIsBinding ==
    ASSUME Guarded, NEW g \in Gateways, Exists(gateways[g]), gateways'[g] = gateways[g],
           req = g, wanted = StoredSpec(g),
           pc = "ClusterRoleBinding", NEW object, Lands(keyOf(pc), object), Ensured(object)
    PROVE  Binding(g)'
<1>1. "ClusterRoleBinding" \in Kinds /\ TypeOK
  BY KindsAssumption DEF Guarded
<1>2. PICK h \in Keys : h = Home("ClusterRoleBinding", g)
  BY <1>1, HomeFacts
<1>3. StoredSpec(g)' = StoredSpec(g) /\ objects'[h] = object
  BY <1>2 DEF StoredSpec, Home, Lands, keyOf
<1>4. Exists(object) /\ Subject(g, StoredSpec(g)) \in object.content.subjects
  BY DEF Ensured, Makes
<1> QED BY <1>2, <1>3, <1>4 DEF Binding, UpToDate, Describes, Home, Exists

\* A step of the worker.
LEMMA WorkerBinds ==
    ASSUME BindingsAreFresh, Reporting, Guarded', InstanceMirrors', Progress, Worker
    PROVE  PassBinds'
<1> SUFFICES ASSUME NEW g \in Gateways, Passing(g)', pc' \in EnsureSteps,
                    (Order[pc] > Order["ClusterRoleBinding"])'
             PROVE  Binding(g)'
  BY DEF PassBinds
<1>0. Guarded /\ InstanceMirrors /\ PassBinds /\ TypeOK'
  BY DEF Reporting, Guarded
<1>1. PICK next \in EnsureSteps : next = pc'
  OBVIOUS
<1>2. Order[next] > 3 /\ ~Idle
  BY <1>1 DEF Order, EnsureSteps, Idle
<1>3. pc # "idle" /\ Continue
  BY <1>0, <1>1, <1>2, BindingSteps
<1>4. CASE wanted' = wanted /\ Position(pc) < 3
  BY <1>1, <1>2, <1>3, <1>4, SkipBinds
<1>5. CASE pc \notin EnsureSteps
  <2>1. Position(pc) = 0 /\ wanted' = wanted
    BY <1>0, <1>1, <1>2, <1>5, BindingSteps DEF Position
  <2> QED BY <1>4, <2>1
<1>6. CASE pc \in EnsureSteps
  <2>1. PICK here \in EnsureSteps : here = pc
    BY <1>6
  <2>2. /\ UNCHANGED <<req, instance>>
        /\ \/ here # "ClusterRoleBinding" /\ \A k \in Keys :
                 k.kind = "ClusterRoleBinding" => objects'[k] = objects[k]
           \/ here = "ClusterRoleBinding" /\ Ensures
    BY <1>0, <1>1, <1>2, <1>6, <2>1, BindingSteps
  <2>3. Passing(g) /\ gateways'[g] = gateways[g]
    BY <1>0, <1>3, <2>2, PassingBefore
  <2>4. req = g /\ wanted = StoredSpec(g) /\ Exists(gateways[g])
    BY <1>0, <2>3, PassFacts
  <2>5. CASE Order[here] > 3
    <3>1. Binding(g)
      BY <1>0, <2>1, <2>3, <2>5, PastFacts DEF PassBinds
    <3> QED BY <1>0, <2>1, <2>2, <2>3, <2>4, <2>5, <3>1, PastFacts, BindingStays
  <2>6. CASE Order[here] < 3
    <3>1. Position(pc) < 3 /\ wanted' = wanted
      BY <2>1, <2>2, <2>6, PastFacts DEF wanted
    <3> QED BY <1>4, <3>1
  <2>7. CASE here = "ClusterRoleBinding"
    <3>1. PICK object : Lands(keyOf(pc), object) /\ (Retry \/ Ensured(object))
      BY <2>2, <2>7 DEF Ensures
    <3>2. Ensured(object)
      BY <1>2, <3>1 DEF Retry
    <3> QED BY <1>0, <2>1, <2>3, <2>4, <2>7, <3>1, <3>2, EnsuredIsBinding
  <2> QED BY <2>1, <2>5, <2>6, <2>7, PastFacts
<1> QED BY <1>5, <1>6

\* Nobody but the operator removes a binding.
LEMMA RemovalsSpareBindings ==
    ASSUME BindingsAreLeftAlone, TypeOK, NEW k \in Keys,
           DeleteObject(k) \/ CollectGarbage(k) \/ EvictObject(k)
    PROVE  k.kind # "ClusterRoleBinding"
<1> SUFFICES ASSUME k.kind = "ClusterRoleBinding" PROVE FALSE
  OBVIOUS
<1>1. ~DeleteObject(k)
  BY DEF DeleteObject, BindingsAreLeftAlone
<1>2. ~CollectGarbage(k)
  BY GarbageIsWatched DEF CollectGarbage, WatchedKinds
<1>3. k.ns \notin terminating
  <2>1. k.ns = ""
    <3>1. \A kind, name : Key(kind, "", name).ns = ""
      BY DEF Key
    <3> QED BY <3>1, KeysAreNamed
  <2>2. \A g \in Gateways : g.ns # ""
    BY GatewaysAssumption DEF Name
  <2> QED BY <2>1, <2>2 DEF TypeOK
<1> QED BY <1>1, <1>2, <1>3 DEF EvictObject

\* Users, informers and the cluster leave the bindings alone.
LEMMA EnvironmentBinds ==
    ASSUME BindingsAreLeftAlone, Reporting, TypeOK', Progress, User \/ Cluster \/ Crash
    PROVE  PassBinds'
<1>0. TypeOK /\ Guarded /\ InstanceMirrors /\ PassBinds
  BY DEF Reporting, Guarded
<1>1. UNCHANGED workerVars \/ Idle
  BY <1>0, EnvironmentKeeps DEF Bystander
<1>2. CASE objects' = objects
  BY <1>0, <1>1, <1>2, BystanderBinds
<1>3. CASE \E k \in Keys : DeleteObject(k) \/ CollectGarbage(k) \/ EvictObject(k)
  <2>1. PICK k \in Keys : DeleteObject(k) \/ CollectGarbage(k) \/ EvictObject(k)
    BY <1>3
  <2>2. k.kind # "ClusterRoleBinding"
    BY <1>0, <2>1, RemovalsSpareBindings
  <2>3. \A l \in Keys : l # k => objects'[l] = objects[l]
    BY <1>0, <2>1 DEF DeleteObject, CollectGarbage, EvictObject, RemoveObject, Store, TypeOK
  <2> QED BY <1>0, <1>1, <2>2, <2>3, BystanderBinds
<1>4. ASSUME NEW k \in Keys, DeliverObject(k) PROVE objects' = objects
  BY <1>4 DEF DeliverObject, serverVars
<1>5. ASSUME NEW g \in Gateways, \/ DeliverGateway(g) \/ EvictGateway(g)
                                 \/ DeleteGateway(g) \/ TerminateNamespace(g.ns)
      PROVE  objects' = objects
  BY <1>5 DEF DeliverGateway, EvictGateway, DeleteGateway, TerminateNamespace,
              SetGateway, serverVars
<1>6. ASSUME NEW g \in Gateways, NEW manifest \in Specs,
             CreateGateway(g, manifest) \/ UpdateGateway(g, manifest)
      PROVE  objects' = objects
  BY <1>6 DEF CreateGateway, UpdateGateway, SetGateway
<1>7. Crash => objects' = objects
  BY DEF Crash, serverVars
<1> QED BY <1>2, <1>3, <1>4, <1>5, <1>6, <1>7 DEF User, Cluster

\* Every step keeps a pass that is past the binding bound.
LEMMA StepReports ==
    ASSUME BindingsAreFresh, BindingsAreLeftAlone, Reporting, [Next]_vars PROVE Reporting'
<1>1. Guarded' /\ Progress /\ Guarded /\ InstanceMirrors /\ TypeOK'
  BY StepGuard, StepTypes DEF Reporting, Guarded
<1>2. InstanceMirrors'
  BY <1>1, StepMirrors
<1>3. PassBinds'
  <2>1. CASE Worker
    BY <1>1, <1>2, <2>1, WorkerBinds
  <2>2. CASE User \/ Cluster \/ Crash
    BY <1>1, <2>2, EnvironmentBinds
  <2>3. ASSUME NEW g \in Gateways, Reconcile(g) PROVE PassBinds'
    <3>1. pc' \notin EnsureSteps
      BY <2>3 DEF Reconcile, EnsureSteps, Order, workerVars
    <3> QED BY <3>1 DEF PassBinds
  <2>4. CASE UNCHANGED vars
    BY <1>1, <2>4, BystanderBinds DEF vars, serverVars, Reporting
  <2> QED BY <2>1, <2>2, <2>3, <2>4 DEF Next
<1> QED BY <1>1, <1>2, <1>3 DEF Reporting

\* Who deploys: the last call of a pass over the stored gateway.
LEMMA DeployedByStatus ==
    ASSUME Reporting, [Next]_vars, NEW g \in Gateways,
           Exists(gateways'[g]), gateways'[g].content.deployed,
           ~(Exists(gateways[g]) /\ gateways[g].content.deployed)
    PROVE  Passing(g) /\ pc = "Status"
<1>0. Guarded /\ TypeOK /\ InstanceMirrors
  BY DEF Reporting, Guarded
<1>1. gateways'[g] # gateways[g]
  OBVIOUS
<1>2. ~(User \/ Cluster \/ Crash)
  <2>1. ASSUME NEW f \in Gateways, NEW manifest \in Specs, CreateGateway(f, manifest) PROVE FALSE
    <3>1. gateways'[f].content.deployed = FALSE /\ (f # g => gateways'[g] = gateways[g])
      BY <1>0, <2>1 DEF CreateGateway, SetGateway, Written, TypeOK
    <3> QED BY <1>1, <3>1
  <2>2. ASSUME NEW f \in Gateways, NEW manifest \in Specs, UpdateGateway(f, manifest) PROVE FALSE
    <3>1. gateways[f].content \in GatewayContent(StoredSpecs(f))
      BY <1>0, <2>2 DEF UpdateGateway, TypeOK, Object, Exists
    <3>2. PICK content : /\ content = [gateways[f].content EXCEPT !.spec = manifest]
                         /\ gateways' = [gateways EXCEPT ![f] = Written(@, content)]
      BY <2>2 DEF UpdateGateway, SetGateway
    <3>3. content.deployed = gateways[f].content.deployed
      BY <3>1, <3>2 DEF GatewayContent
    <3>4. gateways'[f].content = content \/ gateways'[f] = gateways[f]
      BY <1>0, <3>2 DEF Written, TypeOK
    <3>5. f # g => gateways'[g] = gateways[g]
      BY <3>2
    <3> QED BY <1>1, <2>2, <3>3, <3>4, <3>5 DEF UpdateGateway
  <2>3. ASSUME NEW f \in Gateways, DeleteGateway(f) \/ EvictGateway(f) PROVE FALSE
    <3>1. Exists(gateways[f]) /\ gateways[f].content \in GatewayContent(StoredSpecs(f))
      BY <1>0, <2>3 DEF DeleteGateway, EvictGateway, Live, TypeOK, Object, Exists
    <3>2. PICK content : /\ content = Deletion(gateways[f].content)
                         /\ gateways' = [gateways EXCEPT ![f] = Written(@, content)]
      BY <2>3 DEF DeleteGateway, EvictGateway, SetGateway
    <3>3. content = Nothing \/ content.deployed = gateways[f].content.deployed
      BY <3>1, <3>2 DEF GatewayContent, Deletion
    <3>4. gateways'[f].content = content \/ gateways'[f] = gateways[f]
      BY <1>0, <3>2 DEF Written, TypeOK
    <3>5. f # g => gateways'[g] = gateways[g]
      BY <3>2
    <3> QED BY <1>1, <3>1, <3>3, <3>4, <3>5 DEF Exists
  <2>4. ASSUME NEW f \in Gateways, DeliverGateway(f) \/ TerminateNamespace(f.ns) PROVE FALSE
    BY <1>1, <2>4 DEF DeliverGateway, TerminateNamespace, serverVars
  <2>5. ASSUME NEW k \in Keys,
               DeleteObject(k) \/ DeliverObject(k) \/ CollectGarbage(k) \/ EvictObject(k)
        PROVE  FALSE
    BY <1>1, <2>5 DEF DeleteObject, DeliverObject, CollectGarbage, EvictObject, RemoveObject,
                      serverVars
  <2>6. ~Crash
    BY <1>1 DEF Crash, serverVars
  <2> QED BY <2>1, <2>2, <2>3, <2>4, <2>5, <2>6 DEF User, Cluster
<1>3. ~(\E f \in Gateways : Reconcile(f)) /\ ~UNCHANGED vars
  BY <1>1 DEF Reconcile, vars, serverVars
<1>4. addFinalizer \/ removeFinalizer \/ updateStatus
  <2>1. EnsureEffect \/ (Restart /\ UNCHANGED serverVars) => FALSE
    BY <1>1 DEF EnsureEffect, serverVars
  <2>2. checkNamespace \/ finalizeHigressGateway \/ createSkywalkingConfigMap => FALSE
    BY <1>1 DEF checkNamespace, finalizeHigressGateway, createSkywalkingConfigMap, serverVars
  <2>3. createService => EnsureEffect \/ (Restart /\ UNCHANGED serverVars)
    BY <1>0, EnsuresService DEF Guarded
  <2> QED BY <1>0, <1>2, <1>3, <2>1, <2>2, <2>3, EnsuresServiceAccount, EnsuresRules,
             EnsuresClusterRoleBinding, EnsuresRoleBinding, EnsuresConfigMap,
             EnsuresDeployment DEF Worker, Next, Guarded
<1>5. PICK content : LET answer == Update(gateways[req], instance, content)
                     IN  /\ \/ pc = "addFinalizer" /\ content.deployed = instance.content.deployed
                            \/ pc = "removeFinalizer" /\ content = Nothing
                            \/ pc = "Status"
                         /\ req \in Gateways
                         /\ gateways' \in {gateways, [gateways EXCEPT ![req] = answer.object]}
  <2>1. CASE addFinalizer
    <3>1. instance.content \in GatewayContent(DefaultedSpecs(req)) /\ req \in Gateways
      BY <1>0, <2>1 DEF addFinalizer, TypeOK
    <3>2. [instance.content EXCEPT !.finalizer = TRUE].deployed = instance.content.deployed
      BY <3>1 DEF GatewayContent
    <3> QED BY <2>1, <3>1, <3>2 DEF addFinalizer, CallForGateway
  <2>2. CASE removeFinalizer
    BY <1>0, <2>2 DEF removeFinalizer, CallForGateway, TypeOK
  <2>3. CASE updateStatus
    BY <1>0, <2>3 DEF updateStatus, CallForGateway, TypeOK, serverVars
  <2> QED BY <1>4, <2>1, <2>2, <2>3
<1>6. PICK answer : answer = Update(gateways[req], instance, content)
  OBVIOUS
<1>7. gateways' = [gateways EXCEPT ![req] = answer.object] /\ req = g
  <2>1. gateways' # gateways
    BY <1>1
  <2>2. gateways' = [gateways EXCEPT ![req] = answer.object]
    BY <1>5, <1>6, <2>1
  <2> QED BY <1>1, <2>2
<1>8. gateways'[g] = answer.object
  BY <1>0, <1>7 DEF TypeOK
<1>9. /\ instance.version = gateways[req].version
      /\ answer.object = Written(gateways[req], content)
  BY <1>1, <1>6, <1>7, <1>8 DEF Update, Answer, AcceptsVersion
<1>10. gateways'[g].content = content
  BY <1>1, <1>7, <1>8, <1>9 DEF Written
<1>11. Passing(g) /\ pc # "idle"
  BY <1>5, <1>7, <1>9 DEF Passing, Working
<1>12. instance.content.deployed = gateways[g].content.deployed /\ Exists(gateways[g])
  BY <1>0, <1>11, PassFacts
<1>13. pc # "addFinalizer"
  BY <1>5, <1>10, <1>12
<1>14. pc # "removeFinalizer"
  BY <1>5, <1>10 DEF Exists
<1> QED BY <1>5, <1>11, <1>13, <1>14

\* Deployed is reported only for a gateway that is bound: the binding was made
\* for the version of the spec that the status is written to.
THEOREM ReportsOnlyBound ==
    ASSUME BindingsAreFresh, BindingsAreLeftAlone PROVE Spec => DeployedOnlyWhenBound
<1> DEFINE Reports ==
        \A g \in Gateways :
            (/\ Exists(gateways'[g]) /\ gateways'[g].content.deployed
             /\ ~(Exists(gateways[g]) /\ gateways[g].content.deployed)
             /\ StoredSpec(g).rbac /\ StoredSpec(g).serviceAccount.enable)
            => Bound(g)
<1>1. Init => Reporting
  <2> SUFFICES ASSUME Init PROVE Reporting
    OBVIOUS
  <2>1. pc = "idle" /\ pc \notin EnsureSteps
    BY DEF Init, EnsureSteps, Order
  <2> QED BY <2>1, InitGuard DEF Reporting, InstanceMirrors, PassBinds
<1>2. Reporting /\ [Next]_vars => Reporting'
  BY StepReports
<1>3. Reporting /\ [Next]_vars => [Reports]_vars
  <2> SUFFICES ASSUME Reporting, [Next]_vars, NEW g \in Gateways,
                      Exists(gateways'[g]), gateways'[g].content.deployed,
                      ~(Exists(gateways[g]) /\ gateways[g].content.deployed),
                      StoredSpec(g).rbac, StoredSpec(g).serviceAccount.enable
               PROVE  Bound(g)
    OBVIOUS
  <2>1. Passing(g) /\ pc = "Status"
    BY DeployedByStatus
  <2>2. Binding(g) /\ Exists(gateways[g])
    BY <2>1, PassFacts DEF Reporting, PassBinds, EnsureSteps, Order
  <2> QED BY <2>2 DEF Binding, Asked, UpToDate, Describes, Bound, BindingOf, SubjectOf
<1> QED BY <1>1, <1>2, <1>3, PTL DEF Spec, DeployedOnlyWhenBound

-----------------------------------------------------------------------------
\* Part two: a pass writes nothing where there is nothing to do.

\* No two gateways share a binding: their account names differ, and so do their
\* namespaces where RoleBindings are tracked.
BindingsAreNotShared ==
    \A f, g \in Gateways : \A d \in DefaultedSpecs(f), e \in DefaultedSpecs(g) :
        \A kind \in Kinds \cap {"ClusterRoleBinding", "RoleBinding"} :
            KeyOf(kind, f, d) = KeyOf(kind, g, e) => f = g

\* There is one way to list the variables of an environment.
EnvironmentsAreOrdered ==
    \A g \in Gateways : \A s \in DefaultedSpecs(g) : \A a, b \in Orderings(s.env) : a = b

\* No namespace terminates.
NamespacesStay == "terminate" \notin UserActions

Unshared == BindingsAreNotShared /\ EnvironmentsAreOrdered /\ NamespacesStay

Keeping == Guarded /\ InstanceMirrors /\ OwnersAreRight /\ terminating = {}

\* Who shares no binding has a service account of its own.
LEMMA UnsharedIsDistinct ==
    ASSUME BindingsAreNotShared PROVE SubjectsAreDistinct
<1> SUFFICES ASSUME NEW f \in Gateways, NEW g \in Gateways,
                    NEW d \in DefaultedSpecs(f), NEW e \in DefaultedSpecs(g),
                    Subject(f, d) = Subject(g, e)
             PROVE  f = g
  BY DEF SubjectsAreDistinct
<1>1. getServiceAccount(f, d) = getServiceAccount(g, e)
  BY DEF Subject
<1>2. KeyOf("ClusterRoleBinding", f, d) = KeyOf("ClusterRoleBinding", g, e)
  BY <1>1 DEF KeyOf
<1> QED BY <1>2, KindsAssumption DEF BindingsAreNotShared

\* CreateOrUpdate leaves an object that is as it should be, however old the
\* copy is that it reads.
LEMMA NothingToWrite ==
    ASSUME NEW object, NEW seen, NEW fresh, NEW mutated, NEW forced \in BOOLEAN,
           Exists(object), Follows(seen, object),
           Exists(seen) /\ seen.content = object.content => mutated = object.content
    PROVE  CreateOrUpdate(object, seen, fresh, mutated, forced).object = object
<1>1. Create(object, fresh).object = object
  BY DEF Create, Answer
<1>2. CASE Exists(seen) /\ object.version = seen.version
  <2>1. mutated = object.content
    BY <1>2 DEF Follows
  <2>2. Update(object, seen, mutated).object = object
    BY <2>1 DEF Update, Answer, Written
  <2> QED BY <1>1, <2>2 DEF CreateOrUpdate
<1>3. CASE object.version # seen.version
  <2>1. Update(object, seen, mutated).object = object
    BY <1>3 DEF Update, Answer, AcceptsVersion
  <2> QED BY <1>1, <2>1 DEF CreateOrUpdate
<1>4. CASE ~Exists(seen)
  BY <1>1, <1>4 DEF CreateOrUpdate
<1> QED BY <1>2, <1>3, <1>4

\* So does the call.
LEMMA CallWritesNothing ==
    ASSUME TypeOK, CachesFollow, NEW k \in Keys, Exists(objects[k]), NEW fresh, NEW mutated,
           Exists(Seen(k)) /\ Seen(k).content = objects[k].content =>
               mutated = objects[k].content,
           CallForObject(k, CreateOrUpdate(objects[k], Seen(k), fresh, mutated, Forced(k)))
    PROVE  objects'[k] = objects[k]
<1>1. Follows(Seen(k), objects[k]) /\ Forced(k) \in BOOLEAN
  BY SeenFacts DEF Forced
<1>2. CreateOrUpdate(objects[k], Seen(k), fresh, mutated, Forced(k)).object = objects[k]
  BY <1>1, NothingToWrite
<1> QED BY <1>2, CallWritesOne

\* What is stored in the record fields that no step tells apart.
LEMMA MutedStays ==
    ASSUME NEW g \in Gateways, NEW d \in DefaultedSpecs(g)
    PROVE  /\ \A kind \in {"ClusterRoleBinding", "RoleBinding"} : \A c \in ContentOf(kind) :
                Subject(g, d) \in c.subjects =>
                    /\ updateClusterRoleBinding(c, g, d) = c
                    /\ updateRoleBinding(c, g, d) = c
           /\ \A c \in ContentOf("ConfigMap") : [c EXCEPT !.mesh = c.mesh] = c
           /\ \A c \in ContentOf("Service") : \A u :
                [c EXCEPT !.labelled = FALSE] = [initService(g, u, d) EXCEPT !.labelled = FALSE]
                => updateServiceSpec(c, d) = c
<1>1. ASSUME NEW kind \in {"ClusterRoleBinding", "RoleBinding"}, NEW c \in ContentOf(kind),
             Subject(g, d) \in c.subjects
      PROVE  updateClusterRoleBinding(c, g, d) = c /\ updateRoleBinding(c, g, d) = c
  <2>1. c \in [owner : {Nil}, subjects : SUBSET Subjects]
    BY <1>1 DEF ContentOf
  <2>2. PICK o, t : c = [owner |-> o, subjects |-> t]
    BY <2>1
  <2>3. t \cup {Subject(g, d)} = t
    BY <1>1, <2>2
  <2> QED BY <2>2, <2>3 DEF updateClusterRoleBinding, updateRoleBinding
<1>2. ASSUME NEW c \in ContentOf("ConfigMap") PROVE [c EXCEPT !.mesh = c.mesh] = c
  <2>1. PICK o, t : c = [owner |-> o, mesh |-> t]
    BY <1>2 DEF ContentOf
  <2> QED BY <2>1
<1>3. ASSUME NEW c \in ContentOf("Service"), NEW u,
             [c EXCEPT !.labelled = FALSE] = [initService(g, u, d) EXCEPT !.labelled = FALSE]
      PROVE  updateServiceSpec(c, d) = c
  <2>1. PICK o, l, t, i, n : c = [owner |-> o, labelled |-> l, selector |-> t,
                                  loadBalancerIP |-> i, config |-> n]
    BY <1>3 DEF ContentOf
  <2>2. t = d.selector /\ i = d.service.loadBalancerIP /\ n = d.config
    BY <1>3, <2>1 DEF initService
  <2>3. PICK ip : ip = IF d.service.loadBalancerIP # ""
                       THEN d.service.loadBalancerIP ELSE c.loadBalancerIP
    OBVIOUS
  <2>4. ip = i
    BY <2>1, <2>2, <2>3
  <2>5. updateServiceSpec(c, d) =
            [c EXCEPT !.selector = d.selector, !.loadBalancerIP = ip, !.config = d.config]
    BY <2>3 DEF updateServiceSpec
  <2>6. updateServiceSpec(c, d) = [c EXCEPT !.selector = t, !.loadBalancerIP = i, !.config = n]
    BY <2>2, <2>4, <2>5
  <2> QED BY <2>1, <2>6
<1> QED BY <1>1, <1>2, <1>3

\* The step that is about an object which is up to date writes nothing.
LEMMA UpToDateIsKept ==
    ASSUME BindingsAreNotShared, EnvironmentsAreOrdered, TypeOK, CachesFollow,
           NEW g \in Gateways, Exists(gateways[g]), NEW kind \in Kinds, kind = pc, pc # "idle",
           UpToDate(kind, g), NEW k \in Keys, k = Home(kind, g), k = keyOf(pc),
           req = g => wanted = StoredSpec(g) /\ uid = gateways[g].content.uid,
           Worker
    PROVE  objects'[k] = objects[k]
<1> DEFINE c == objects[k].content
           s == StoredSpec(g)
<1>1. /\ Exists(objects[k]) /\ Describes(s, kind, g, c)
      /\ s \in DefaultedSpecs(g) /\ wanted \in DefaultedSpecs(req) /\ req \in Gateways
      /\ c \in ContentOf(kind) /\ k.kind = kind
      /\ kind \in AllKinds /\ kind \in EnsureSteps
  <2>1. kind \in AllKinds /\ kind \in EnsureSteps
    BY KindsAssumption DEF EnsureSteps, Order, AllKinds
  <2>2. s \in DefaultedSpecs(g) /\ k.kind = kind
    BY HomeFacts
  <2>3. wanted \in DefaultedSpecs(req) /\ req \in Gateways
    BY WorkerFacts
  <2>4. Exists(objects[k]) /\ Describes(s, kind, g, c)
    BY DEF UpToDate, Home
  <2>5. c \in ContentOf(kind)
    BY <2>2, <2>4 DEF TypeOK, Object, Exists
  <2> QED BY <2>1, <2>2, <2>3, <2>4, <2>5
<1>2. kind \notin {"ServiceAccount", "ClusterRole", "Role"} => g = req
  <2>1. KeyOf(kind, g, s) = KeyOf(kind, req, wanted)
    BY DEF Home, keyOf
  <2>2. kind \in {"ClusterRoleBinding", "RoleBinding"} \/ kind \in WatchedKinds \cup {"ConfigMap"}
        \/ kind \in {"ServiceAccount", "ClusterRole", "Role"}
    BY <1>1 DEF AllKinds, WatchedKinds
  <2> HIDE DEF s
  <2> QED BY <1>1, <2>1, <2>2, UnsharedIsDistinct, KeysDiffer DEF BindingsAreNotShared
<1>3. g = req => wanted = s /\ uid = gateways[g].content.uid
  OBVIOUS
<1> HIDE DEF s
<1>4. CASE createServiceAccount
  <2>1. PICK fresh : CallForObject(k, CreateIfNotExists(objects[k], fresh))
    BY <1>4 DEF createServiceAccount
  <2>2. CreateIfNotExists(objects[k], fresh).object = objects[k]
    BY <1>1 DEF CreateIfNotExists, Create, Answer
  <2> QED BY <2>1, <2>2, CallWritesOne
<1>5. CASE createClusterRole \/ createRole
  <2>1. PICK fresh, mutated :
            /\ Exists(Seen(k)) => mutated = muteRules(Seen(k).content)
            /\ CallForObject(k, CreateOrUpdate(objects[k], Seen(k), fresh, mutated, Forced(k)))
    BY <1>5 DEF createClusterRole, createRole, CreateOrUpdateObject
  <2>2. kind \in {"ClusterRole", "Role"} /\ c = initRules
    BY <1>1, <1>5 DEF createClusterRole, createRole, Describes
  <2>3. muteRules(c) = initRules
    BY <1>1, <2>2, WorkerFacts, MutedFacts
  <2> QED BY <1>1, <2>1, <2>2, <2>3, CallWritesNothing
<1>6. CASE createClusterRoleBinding
  <2>1. PICK fresh, mutated :
            /\ Exists(Seen(k)) =>
                  mutated = updateClusterRoleBinding(Seen(k).content, req, wanted)
            /\ CallForObject(k, CreateOrUpdate(objects[k], Seen(k), fresh, mutated, Forced(k)))
    BY <1>6 DEF createClusterRoleBinding, CreateOrUpdateObject
  <2>2. kind = "ClusterRoleBinding"
    BY <1>6 DEF createClusterRoleBinding
  <2>3. updateClusterRoleBinding(c, req, wanted) = c
    BY <1>1, <1>2, <1>3, <2>2, MutedStays DEF Describes
  <2> QED BY <1>1, <2>1, <2>3, CallWritesNothing
<1>7. CASE createRoleBinding
  <2>1. PICK fresh, mutated :
            /\ Exists(Seen(k)) => mutated = updateRoleBinding(Seen(k).content, req, wanted)
            /\ CallForObject(k, CreateOrUpdate(objects[k], Seen(k), fresh, mutated, Forced(k)))
    BY <1>7 DEF createRoleBinding, CreateOrUpdateObject
  <2>2. kind = "RoleBinding"
    BY <1>7 DEF createRoleBinding
  <2>3. updateRoleBinding(c, req, wanted) = c
    BY <1>1, <1>2, <1>3, <2>2, MutedStays DEF Describes
  <2> QED BY <1>1, <2>1, <2>3, CallWritesNothing
<1>8. CASE createConfigMap
  <2>1. PICK mesh : mesh = GatewayConfigMap(req, wanted).mesh
    OBVIOUS
  <2>2. PICK fresh, mutated :
            /\ Exists(Seen(k)) => mutated = [Seen(k).content EXCEPT !.mesh = mesh]
            /\ CallForObject(k, CreateOrUpdate(objects[k], Seen(k), fresh, mutated, Forced(k)))
    BY <1>8, <2>1 DEF createConfigMap, CreateOrUpdateObject
  <2>3. kind = "ConfigMap"
    BY <1>8 DEF createConfigMap
  <2>4. c.mesh = mesh
    <3>1. mesh = WantedMesh(req, wanted)
      BY <2>1, WorkerFacts, ConfigMapIsAddressed
    <3> QED BY <1>1, <1>2, <1>3, <2>3, <3>1 DEF Describes
  <2>5. [c EXCEPT !.mesh = mesh] = c
    BY <1>1, <2>3, <2>4, MutedStays
  <2> QED BY <1>1, <2>2, <2>5, CallWritesNothing
<1>9. CASE createDeployment
  <2>1. PICK env \in Orderings(wanted.env) : \E fresh, mutated :
            /\ Exists(Seen(k)) =>
                  mutated = updateDeploymentSpec(req, wanted, Seen(k).content.owner, env)
            /\ CallForObject(k, CreateOrUpdate(objects[k], Seen(k), fresh, mutated, Forced(k)))
    BY <1>9 DEF createDeployment, CreateOrUpdateObject
  <2>2. kind = "Deployment"
    BY <1>9 DEF createDeployment
  <2>3. PICK was \in Orderings(s.env) :
            c = updateDeploymentSpec(g, s, Owner(g, gateways[g].content.uid), was)
    BY <1>1, <2>2 DEF Describes
  <2>4. env = was /\ g = req /\ wanted = s
    BY <1>1, <1>2, <1>3, <2>2 DEF EnvironmentsAreOrdered
  <2>5. c = updateDeploymentSpec(req, wanted, c.owner, env)
    <3>1. PICK owner : owner = Owner(g, gateways[g].content.uid)
      OBVIOUS
    <3>2. updateDeploymentSpec(g, s, owner, was).owner = owner
      BY DEF updateDeploymentSpec
    <3>3. c = updateDeploymentSpec(g, s, owner, was)
      BY <2>3, <3>1
    <3> HIDE DEF c
    <3> QED BY <2>4, <3>2, <3>3
  <2> QED BY <1>1, <2>1, <2>5, CallWritesNothing
<1>10. CASE createService
  <2>1. kind = "Service" /\ k = keyOf("Service")
    BY <1>10 DEF createService
  <2>2. CASE UNCHANGED objects
    BY <2>2
  <2>3. CASE ~UNCHANGED objects
    <3>1. PICK fresh, mutated :
            /\ Exists(Seen(k)) => mutated = updateServiceSpec(Seen(k).content, wanted)
            /\ CallForObject(k, CreateOrUpdate(objects[k], Seen(k), fresh, mutated, Forced(k)))
      BY <1>10, <2>1, <2>3 DEF createService, CreateOrUpdateObject, serverVars
    <3>2. [c EXCEPT !.labelled = FALSE] =
              [initService(g, c.owner.uid, s) EXCEPT !.labelled = FALSE]
      BY <1>1, <2>1 DEF Describes
    <3>3. updateServiceSpec(c, wanted) = c
      BY <1>1, <1>2, <1>3, <2>1, <3>2, MutedStays
    <3> QED BY <1>1, <3>1, <3>3, CallWritesNothing
  <2> QED BY <2>2, <2>3
<1>11. ~(checkNamespace \/ addFinalizer \/ finalizeHigressGateway \/ removeFinalizer
         \/ createSkywalkingConfigMap \/ updateStatus)
  BY <1>1 DEF checkNamespace, addFinalizer, finalizeHigressGateway, removeFinalizer,
              createSkywalkingConfigMap, updateStatus, AllKinds
<1> QED BY <1>4, <1>5, <1>6, <1>7, <1>8, <1>9, <1>10, <1>11 DEF Worker

\* The worker writes watched objects only for what its steps are for.
LEMMA WorkerWritesWatched ==
    ASSUME TypeOK, CachesFollow, Worker, NEW k \in Keys, k.kind \in WatchedKinds
    PROVE  WritesWatched(k)
<1>1. ASSUME Ensures PROVE WritesWatched(k)
  <2>1. PICK object : /\ Lands(keyOf(pc), object)
                      /\ object = objects[keyOf(pc)] \/ Ensured(object)
    BY <1>1 DEF Ensures
  <2>2. pc \in Kinds /\ pc # "idle"
    BY <1>1, InstanceIsKept DEF Ensures
  <2> QED BY <2>1, <2>2 DEF Lands, WritesWatched
<1>2. CASE createServiceAccount
  BY <1>1, <1>2, AccountEnsures
<1>3. CASE createDeployment
  <2>1. ReadIsWatched
    BY <1>3 DEF createDeployment, ReadIsWatched, WatchedKinds
  <2> QED BY <1>1, <1>3, <2>1, DeploymentEnsures
<1>4. CASE createService
  <2>1. ReadIsWatched
    BY <1>4 DEF createService, ReadIsWatched, WatchedKinds
  <2>2. UNCHANGED serverVars => WritesWatched(k)
    BY DEF serverVars, WritesWatched
  <2> QED BY <1>1, <1>4, <2>1, <2>2, ServiceEnsures
<1>5. CASE \/ createClusterRole \/ createClusterRoleBinding \/ createRole \/ createRoleBinding
           \/ createConfigMap
  <2>1. /\ pc \in Kinds \ WatchedKinds /\ pc # "idle"
        /\ \E answer : CallForObject(keyOf(pc), answer)
    BY <1>5 DEF createClusterRole, createClusterRoleBinding, createRole, createRoleBinding,
                createConfigMap, CreateOrUpdateObject, TypeOK, AllKinds, WatchedKinds
  <2>2. keyOf(pc) \in Keys /\ keyOf(pc).kind = pc
    BY <2>1, KeyOfFacts
  <2> QED BY <2>1, <2>2, CallWritesOne DEF WritesWatched
<1>6. CASE finalizeHigressGateway
  <2>1. PICK l \in Keys : l.kind = "ClusterRoleBinding" /\ \E object : Lands(l, object)
    BY <1>6, FinalizeLands
  <2>2. l # k
    BY <2>1 DEF WatchedKinds
  <2> QED BY <2>1, <2>2 DEF Lands, WritesWatched
<1>7. checkNamespace \/ addFinalizer \/ removeFinalizer \/ createSkywalkingConfigMap \/ updateStatus
      => objects' = objects
  BY DEF checkNamespace, addFinalizer, removeFinalizer, createSkywalkingConfigMap, updateStatus,
         CallForGateway, serverVars
<1> QED BY <1>2, <1>3, <1>4, <1>5, <1>6, <1>7 DEF Worker, WritesWatched

\* What the environment removes is gone, and it writes no other object.
LEMMA EnvironmentRemoves ==
    ASSUME TypeOK, \/ User \/ Cluster \/ Crash
                   \/ (\E g \in Gateways : Reconcile(g))
                   \/ UNCHANGED vars,
           NEW k \in Keys
    PROVE  \/ objects'[k] = objects[k]
           \/ /\ ~Exists(objects'[k])
              /\ DeleteObject(k) \/ CollectGarbage(k) \/ EvictObject(k)
<1>1. ASSUME NEW l \in Keys, DeleteObject(l) \/ CollectGarbage(l) \/ EvictObject(l)
      PROVE  objects'[k] = objects[k] \/ (l = k /\ ~Exists(objects'[k]))
  <2>1. objects' = [objects EXCEPT ![l] = Removed(objects[l])] /\ Exists(objects[l])
    BY <1>1 DEF DeleteObject, CollectGarbage, EvictObject, RemoveObject, Store, Garbage
  <2>2. ~Exists(Removed(objects[l]))
    BY <2>1 DEF Removed, Written, Exists
  <2> QED BY <2>1, <2>2 DEF TypeOK
<1>2. ASSUME NEW l \in Keys, DeliverObject(l) PROVE objects' = objects
  BY <1>2 DEF DeliverObject, serverVars
<1>3. ASSUME NEW g \in Gateways, \/ DeliverGateway(g) \/ EvictGateway(g) \/ Reconcile(g)
                                 \/ DeleteGateway(g) \/ TerminateNamespace(g.ns)
      PROVE  objects' = objects
  BY <1>3 DEF DeliverGateway, EvictGateway, DeleteGateway, TerminateNamespace, Reconcile,
              SetGateway, serverVars
<1>4. ASSUME NEW g \in Gateways, NEW manifest \in Specs,
             CreateGateway(g, manifest) \/ UpdateGateway(g, manifest)
      PROVE  objects' = objects
  BY <1>4 DEF CreateGateway, UpdateGateway, SetGateway
<1>5. Crash \/ UNCHANGED vars => objects' = objects
  BY DEF Crash, serverVars, vars
<1> QED BY <1>1, <1>2, <1>3, <1>4, <1>5 DEF User, Cluster

\* Only a user terminates a namespace.
LEMMA NamespacesAreKept ==
    ASSUME NamespacesStay, TypeOK, CachesFollow, [Next]_vars PROVE terminating' = terminating
<1>1. ASSUME NEW g \in Gateways, \/ DeliverGateway(g) \/ EvictGateway(g) \/ Reconcile(g)
                                 \/ DeleteGateway(g)
      PROVE  UNCHANGED terminating
  BY <1>1 DEF DeliverGateway, EvictGateway, DeleteGateway, Reconcile, SetGateway, serverVars
<1>2. ASSUME NEW g \in Gateways PROVE ~TerminateNamespace(g.ns)
  BY DEF TerminateNamespace, Change, NamespacesStay
<1>3. ASSUME NEW g \in Gateways, NEW manifest \in Specs,
             CreateGateway(g, manifest) \/ UpdateGateway(g, manifest)
      PROVE  UNCHANGED terminating
  BY <1>3 DEF CreateGateway, UpdateGateway, SetGateway
<1>4. ASSUME NEW k \in Keys,
             DeliverObject(k) \/ DeleteObject(k) \/ CollectGarbage(k) \/ EvictObject(k)
      PROVE  UNCHANGED terminating
  BY <1>4 DEF DeliverObject, DeleteObject, CollectGarbage, EvictObject, RemoveObject, serverVars
<1>5. Crash \/ UNCHANGED vars => UNCHANGED terminating
  BY DEF Crash, serverVars, vars
<1>6. \/ checkNamespace \/ addFinalizer \/ removeFinalizer \/ createSkywalkingConfigMap
      \/ updateStatus \/ finalizeHigressGateway
      => UNCHANGED terminating
  BY DEF checkNamespace, addFinalizer, removeFinalizer, createSkywalkingConfigMap, updateStatus,
         finalizeHigressGateway, CallForGateway, serverVars
<1>7. EnsureEffect \/ (Restart /\ UNCHANGED <<serverVars, boundVars>>) => UNCHANGED terminating
  BY DEF EnsureEffect, serverVars
<1>8. Worker => UNCHANGED terminating
  BY <1>6, <1>7, EnsuresServiceAccount, EnsuresRules, EnsuresClusterRoleBinding,
     EnsuresRoleBinding, EnsuresConfigMap, EnsuresDeployment, EnsuresService DEF Worker
<1> QED BY <1>1, <1>2, <1>3, <1>4, <1>5, <1>8 DEF Next, User, Cluster

\* A deletion is finalized for a gateway that is not live any more, and in a
\* binding of its own.
LEMMA FinalizeKeepsBindings ==
    ASSUME BindingsAreNotShared, Guarded, finalizeHigressGateway,
           NEW g \in Gateways, Live(g), CurrentPass(g), NEW kind \in Kinds
    PROVE  objects'[Home(kind, g)] = objects[Home(kind, g)]
<1>1. pc = "finalize" /\ pc # "idle" /\ TypeOK
  BY DEF finalizeHigressGateway, Guarded
<1>2. PICK l : l = KeyOf("ClusterRoleBinding", req, wanted)
  OBVIOUS
<1>3. \A k \in Keys : k # l => objects'[k] = objects[k]
  BY <1>1, <1>2 DEF finalizeHigressGateway, Store, TypeOK
<1>4. Home(kind, g) \in Keys /\ Home(kind, g).kind = kind /\ StoredSpec(g) \in DefaultedSpecs(g)
  BY <1>1, HomeFacts DEF Live
<1>5. l.kind = "ClusterRoleBinding" /\ wanted \in DefaultedSpecs(req) /\ req \in Gateways
  BY <1>1, <1>2, WorkerFacts DEF KeyOf, Key
<1>6. req # g
  <2> SUFFICES ASSUME req = g PROVE FALSE
    OBVIOUS
  <2>1. instance.version = gateways[req].version
    BY DEF CurrentPass
  <2>2. gateways[req].content.deleting = instance.content.deleting
    BY <1>1, <2>1 DEF Guarded, InstanceFollows
  <2>3. instance.content.deleting
    BY <1>1 DEF Guarded, WorkerIsEntitled, Closing
  <2> QED BY <2>2, <2>3 DEF Live
<1>7. Home(kind, g) # l
  <2> SUFFICES ASSUME Home(kind, g) = l PROVE FALSE
    OBVIOUS
  <2>1. kind = "ClusterRoleBinding"
    BY <1>4, <1>5
  <2> QED BY <1>2, <1>4, <1>5, <1>6, <2>1 DEF Home, BindingsAreNotShared
<1> QED BY <1>3, <1>4, <1>7

\* No step of the worker writes an object that is up to date.
LEMMA WorkerKeepsUpToDate ==
    ASSUME BindingsAreNotShared, EnvironmentsAreOrdered, Keeping, Worker,
           NEW g \in Gateways, Live(g), CurrentPass(g), NEW kind \in Kinds, UpToDate(kind, g)
    PROVE  objects'[Home(kind, g)] = objects[Home(kind, g)]
<1>1. TypeOK /\ CachesFollow /\ Guarded /\ InstanceMirrors /\ pc # "idle" /\ Exists(gateways[g])
  BY InstanceIsKept DEF Keeping, Guarded, Live
<1>2. PICK k \in Keys : k = Home(kind, g)
  BY <1>1, HomeFacts
<1>3. CASE finalizeHigressGateway
  BY <1>1, <1>3, FinalizeKeepsBindings
<1>4. CASE UNCHANGED objects
  BY <1>4
<1>5. CASE pc \in Kinds /\ \E answer : CallForObject(keyOf(pc), answer)
  <2>1. keyOf(pc) \in Keys /\ keyOf(pc).kind = pc /\ k.kind = kind
    BY <1>1, <1>2, <1>5, KeyOfFacts, HomeFacts
  <2>2. CASE k # keyOf(pc)
    BY <1>1, <1>2, <1>5, <2>1, <2>2, CallWritesOne
  <2>3. CASE k = keyOf(pc)
    <3>1. req = g => Passing(g)
      BY <1>1 DEF CurrentPass, Passing, Working
    <3>2. req = g => wanted = StoredSpec(g) /\ uid = gateways[g].content.uid
      BY <1>1, <3>1, PassFacts
    <3> QED BY <1>1, <1>2, <2>1, <2>3, <3>2, UpToDateIsKept
  <2> QED BY <2>2, <2>3
<1>6. \/ createServiceAccount \/ createClusterRole \/ createClusterRoleBinding \/ createRole
      \/ createRoleBinding \/ createConfigMap \/ createDeployment
      => pc \in Kinds /\ \E answer : CallForObject(keyOf(pc), answer)
  BY <1>1 DEF createServiceAccount, createClusterRole, createClusterRoleBinding, createRole,
              createRoleBinding, createConfigMap, createDeployment, CreateOrUpdateObject,
              TypeOK, AllKinds
<1>7. createService =>
        UNCHANGED objects \/ (pc \in Kinds /\ \E answer : CallForObject(keyOf(pc), answer))
  BY <1>1 DEF createService, CreateOrUpdateObject, TypeOK, AllKinds, serverVars
<1>8. checkNamespace \/ addFinalizer \/ removeFinalizer \/ createSkywalkingConfigMap \/ updateStatus
      => UNCHANGED objects
  BY DEF checkNamespace, addFinalizer, removeFinalizer, createSkywalkingConfigMap, updateStatus,
         CallForGateway, serverVars
<1> QED BY <1>3, <1>4, <1>5, <1>6, <1>7, <1>8 DEF Worker

\* What is up to date is no garbage.
LEMMA UpToDateIsOwned ==
    ASSUME Keeping, NEW g \in Gateways, Live(g), NEW kind \in Kinds, UpToDate(kind, g)
    PROVE  ~Garbage(Home(kind, g))
<1> DEFINE k == Home(kind, g)
           c == objects[k].content
<1>1. TypeOK /\ Exists(gateways[g])
  BY DEF Keeping, Guarded, Live
<1>2. k \in Keys /\ k.kind = kind /\ Exists(objects[k]) /\ Describes(StoredSpec(g), kind, g, c)
  BY <1>1, HomeFacts DEF UpToDate, Home
<1> SUFFICES ASSUME Garbage(k) PROVE FALSE
  OBVIOUS
<1>3. kind \in WatchedKinds
  BY <1>1, <1>2, GarbageIsWatched
<1>4. c.owner.gateway = g
  BY <1>1, <1>2, <1>3, HomeBelongs DEF Keeping, OwnersAreRight
<1>5. c.owner.uid = gateways[g].content.uid
  <2>1. CASE kind = "Deployment"
    <3>1. PICK env :
            c = updateDeploymentSpec(g, StoredSpec(g), Owner(g, gateways[g].content.uid), env)
      BY <1>2, <2>1 DEF Describes
    <3>2. c.owner = Owner(g, gateways[g].content.uid)
      <4> HIDE DEF c
      <4> QED BY <3>1 DEF updateDeploymentSpec
    <3> QED BY <3>2 DEF Owner
  <2>2. CASE kind = "ServiceAccount"
    BY <1>2, <2>2 DEF Describes
  <2>3. CASE kind = "Service"
    BY <1>2, <2>3 DEF Describes
  <2> QED BY <1>3, <2>1, <2>2, <2>3 DEF WatchedKinds
<1> QED BY <1>1, <1>4, <1>5 DEF Garbage, OwnerLives

\* Every step preserves the invariant.
LEMMA StepKeeping ==
    ASSUME Unshared, Keeping, [Next]_vars PROVE Keeping'
<1>1. Guarded' /\ TypeOK' /\ Progress /\ Guarded /\ TypeOK /\ CachesFollow
  BY StepGuard, StepTypes DEF Keeping, Guarded
<1>2. InstanceMirrors'
  BY <1>1, StepMirrors DEF Keeping
<1>3. terminating' = {}
  BY <1>1, NamespacesAreKept DEF Keeping, Unshared
<1>4. ASSUME NEW k \in Keys, k.kind \in WatchedKinds PROVE WritesWatched(k)
  BY <1>1, <1>4, WorkerWritesWatched, EnvironmentRemoves DEF WritesWatched, Next
<1>5. OwnersAreRight'
  BY <1>1, <1>4, OwnersStay, UnsharedIsDistinct DEF Keeping, Unshared
<1> QED BY <1>1, <1>2, <1>3, <1>5 DEF Keeping

\* An object that is up to date stays as it is in every step that is not a
\* user's: no pass writes it, whichever step and whichever copy it is at, and
\* nobody collects or evicts it.
THEOREM UpToDateStays ==
    ASSUME Unshared PROVE Spec => UpToDateObjectsStay
<1> DEFINE Stays ==
        \A g \in Gateways, kind \in Kinds :
            LET k == KeyOf(kind, g, StoredSpec(g))
            IN  (/\ Live(g) /\ CurrentPass(g) /\ changes' = changes
                 /\ Asked(kind, g) /\ UpToDate(kind, g))
                => objects'[k] = objects[k]
<1>1. Init => Keeping
  <2> SUFFICES ASSUME Init PROVE Keeping
    OBVIOUS
  <2>1. \A k \in Keys : ~Exists(objects[k])
    BY DEF Init, NeverStored, Exists
  <2>2. pc = "idle" /\ terminating = {}
    BY DEF Init
  <2> QED BY <2>1, <2>2, InitGuard DEF Keeping, InstanceMirrors, OwnersAreRight
<1>2. Keeping /\ [Next]_vars => Keeping'
  BY StepKeeping
<1>3. Keeping /\ [Next]_vars => [Stays]_vars
  <2> SUFFICES ASSUME Keeping, [Next]_vars, NEW g \in Gateways, NEW kind \in Kinds,
                      Live(g), CurrentPass(g), changes' = changes, UpToDate(kind, g)
               PROVE  objects'[Home(kind, g)] = objects[Home(kind, g)]
    BY DEF Home
  <2>1. PICK k \in Keys : k = Home(kind, g)
    BY HomeFacts DEF Keeping, Guarded, Live
  <2>2. CASE Worker
    BY <2>2, WorkerKeepsUpToDate DEF Unshared
  <2>3. CASE ~Worker
    <3>1. ~DeleteObject(k)
      <4>1. changes \in Nat
        BY BoundsAssumption DEF Keeping, Guarded, TypeOK
      <4> QED BY <4>1 DEF DeleteObject, Change
    <3>2. ~CollectGarbage(k)
      BY <2>1, UpToDateIsOwned DEF CollectGarbage
    <3>3. ~EvictObject(k)
      BY DEF EvictObject, Keeping
    <3> QED BY <2>1, <2>3, <3>1, <3>2, <3>3, EnvironmentRemoves DEF Next, Keeping, Guarded
  <2> QED BY <2>2, <2>3
<1> QED BY <1>1, <1>2, <1>3, PTL DEF Spec, UpToDateObjectsStay
=============================================================================
