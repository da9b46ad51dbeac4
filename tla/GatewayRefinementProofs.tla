----------------------- MODULE GatewayRefinementProofs -----------------------
(***************************************************************************)
(* The controller implements ClusterAccess: nobody is bound who is not     *)
(* registered, nobody but a leaving gateway is unbound, and who leaves is  *)
(* unbound first.  Three things must be left alone: the names of service   *)
(* accounts, the bindings, and the subjects of other gateways.             *)
(***************************************************************************)
EXTENDS GatewayAccessProofs

\* No two gateways share a service account.
SubjectsAreDistinct ==
    \A f, g \in Gateways : \A d \in DefaultedSpecs(f), e \in DefaultedSpecs(g) :
        Subject(f, d) = Subject(g, e) => f = g

\* Users delete no ClusterRoleBinding.
BindingsAreLeftAlone == "ClusterRoleBinding" \notin DriftKinds

-----------------------------------------------------------------------------
\* The mapping in terms of the bindings alone: the spec of a gateway says where
\* its subject is, but no edit moves it.

HasSubject(g) ==
    \E k \in Keys, d \in DefaultedSpecs(g) :
        IsBinding(k) /\ Subject(g, d) \in objects[k].content.subjects

Leaves(g) == Registered(g) /\ gateways[g].content.deleting

Mapped == INSTANCE ClusterAccess WITH
    registered <- {g \in Gateways : Registered(g)},
    closing <- {g \in Gateways : Leaves(g)},
    bound <- {g \in Gateways : HasSubject(g)}

\* Only a gateway with a finalizer is marked for deletion.
DeletionIsGuarded ==
    \A g \in Gateways : Exists(gateways[g]) /\ gateways[g].content.deleting => Registered(g)

\* An informer that shows the deletion of a gateway may be late: then its
\* subject is gone already.
DeletionIsSeen ==
    \A g \in Gateways :
        Exists(gatewayCache[g]) /\ gatewayCache[g].content.deleting => Leaves(g) \/ ~HasSubject(g)

\* A pass that may bind a gateway holds off its release.
BinderIsInTime ==
    pc \in Entering /\ Exists(gatewayCache[req]) /\ gatewayCache[req].content.deleting =>
        Leaves(req)

\* A pass that unbinds a gateway has it leave, or has nothing to unbind.
UnbinderIsRight == pc \in Closing => Leaves(req) \/ ~HasSubject(req)

Refining ==
    /\ Inductive
    /\ DeletionIsGuarded
    /\ DeletionIsSeen
    /\ BinderIsInTime
    /\ UnbinderIsRight

\* In the invariant, the subject is in a binding exactly if it is in its own.
LEMMA BoundIsMapped ==
    ASSUME AccountsAreStable, SubjectsAreDistinct, Inductive, NEW g \in Gateways
    PROVE  Bound(g) <=> HasSubject(g)
<1>1. "ClusterRoleBinding" \in Kinds
  BY KindsAssumption
<1>2. ASSUME Exists(gateways[g])
      PROVE  StoredSpec(g) \in DefaultedSpecs(g)
  <2>1. gateways[g].content.spec \in StoredSpecs(g)
    BY <1>2 DEF Inductive, Guarded, TypeOK, Object, Exists, GatewayContent
  <2> QED BY <2>1, DefaultsAreIdempotent DEF StoredSpec
<1>3. ASSUME Bound(g) PROVE HasSubject(g)
  <2> DEFINE k == KeyOf("ClusterRoleBinding", g, StoredSpec(g))
  <2>1. Exists(gateways[g]) /\ Exists(objects[k])
        /\ Subject(g, StoredSpec(g)) \in objects[k].content.subjects
    BY <1>3 DEF Bound, BindingOf, SubjectOf
  <2>2. StoredSpec(g) \in DefaultedSpecs(g)
    BY <1>2, <2>1
  <2>3. k \in Keys /\ k.kind = "ClusterRoleBinding"
    BY <1>1, <2>2, KeyFacts
  <2> HIDE DEF k
  <2> QED BY <2>1, <2>2, <2>3 DEF HasSubject, IsBinding
<1>4. ASSUME HasSubject(g) PROVE Bound(g)
  <2>1. PICK k \in Keys, d \in DefaultedSpecs(g) :
           IsBinding(k) /\ Subject(g, d) \in objects[k].content.subjects
    BY <1>4 DEF HasSubject
  <2>2. PICK f \in Gateways : Registered(f) /\ Subject(g, d) = SubjectOf(f)
    BY <2>1 DEF Inductive, NoDanglingSubject, IsBinding
  <2>3. f = g
    <3>1. gateways[f].content.spec \in StoredSpecs(f)
      BY <2>2 DEF Inductive, Guarded, TypeOK, Object, Exists, Registered, GatewayContent
    <3>2. StoredSpec(f) \in DefaultedSpecs(f)
      BY <3>1, DefaultsAreIdempotent DEF StoredSpec
    <3> QED BY <2>2, <3>2 DEF SubjectsAreDistinct, SubjectOf
  <2>4. Exists(gateways[g]) /\ StoredSpec(g) \in DefaultedSpecs(g)
    BY <1>2, <2>2, <2>3 DEF Registered
  <2>5. k.name = getServiceAccount(g, StoredSpec(g))
    BY <2>1, <2>2, <2>3 DEF Inductive, SubjectsAreNamed, SubjectOf, Subject
  <2>6. k = KeyOf("ClusterRoleBinding", g, StoredSpec(g))
    BY <1>1, <2>1, <2>4, <2>5, KeysAreNamed, KeyFacts DEF IsBinding
  <2> QED BY <2>1, <2>2, <2>3, <2>4, <2>6 DEF Bound, BindingOf, IsBinding
<1> QED BY <1>3, <1>4

-----------------------------------------------------------------------------
\* How the invariant survives.

\* A leaving gateway stays one while registrations stay.
MarksKeep == \A g \in Gateways : Leaves(g) => Leaves(g)'

\* Only a pass that is entitled to it binds its own gateway.
BindsOnlyOwn ==
    \A g \in Gateways : HasSubject(g)' => HasSubject(g) \/ (g = req /\ pc \in Entering)

WorkerGoesOn ==
    \/ UNCHANGED workerVars
    \/ Idle
    \/ req' = req /\ (pc' \in Entering => pc \in Entering) /\ (pc' \in Closing => pc \in Closing)

\* Every step but the first and the last of a deletion keeps the invariant.
LEMMA RefiningStays ==
    ASSUME Refining, Inductive', DeletionIsGuarded', Progress, MarksKeep, BindsOnlyOwn,
           WorkerGoesOn
    PROVE  Refining'
<1>1. \A g \in Gateways : gatewayCache'[g] \in {gatewayCache[g], gateways'[g]}
  BY DEF Progress
<1>2. DeletionIsSeen'
  <2> SUFFICES ASSUME NEW g \in Gateways, Exists(gatewayCache'[g]),
                      gatewayCache'[g].content.deleting
               PROVE  Leaves(g)' \/ ~HasSubject(g)'
    BY DEF DeletionIsSeen, Exists
  <2>1. CASE gatewayCache'[g] = gateways'[g]
    BY <2>1 DEF DeletionIsGuarded, Leaves, Registered, Exists
  <2>2. CASE gatewayCache'[g] = gatewayCache[g]
    <3>1. Leaves(g) \/ ~HasSubject(g)
      BY <2>2 DEF Refining, DeletionIsSeen
    <3>2. pc \in Entering /\ g = req => Leaves(g)
      BY <2>2 DEF Refining, BinderIsInTime
    <3> QED BY <3>1, <3>2 DEF MarksKeep, BindsOnlyOwn
  <2> QED BY <1>1, <2>1, <2>2
<1>3. pc' \in Entering \cup Closing =>
        /\ req' = req /\ req \in Gateways
        /\ pc' \in Entering => pc \in Entering
        /\ pc' \in Closing => pc \in Closing
  <2>1. "idle" \notin Entering \cup Closing
    BY DEF Entering, Closing, EnsureSteps, Order
  <2>2. pc' # "idle" => req' \in Gateways
    BY DEF Inductive, Guarded, TypeOK
  <2> QED BY <2>1, <2>2 DEF WorkerGoesOn, workerVars, Idle
<1>4. BinderIsInTime'
  <2> SUFFICES ASSUME pc' \in Entering, Exists(gatewayCache'[req']),
                      gatewayCache'[req'].content.deleting
               PROVE  Leaves(req)'
    BY DEF BinderIsInTime, Exists
  <2>1. req' = req /\ req \in Gateways /\ pc \in Entering
    BY <1>3
  <2>2. CASE gatewayCache'[req] = gateways'[req]
    BY <2>1, <2>2 DEF DeletionIsGuarded, Leaves, Registered, Exists
  <2>3. CASE gatewayCache'[req] = gatewayCache[req]
    BY <2>1, <2>3 DEF Refining, BinderIsInTime, MarksKeep, Leaves, Registered, Exists
  <2> QED BY <1>1, <2>1, <2>2, <2>3
<1>5. UnbinderIsRight'
  <2>1. pc \in Closing => pc \notin Entering
    BY DEF Entering, Closing, EnsureSteps, Order
  <2> QED BY <1>3, <2>1
          DEF Refining, UnbinderIsRight, MarksKeep, BindsOnlyOwn, Leaves, Registered, HasSubject
<1> QED BY <1>2, <1>4, <1>5 DEF Refining

\* What the specification of the access sees of a step that changes nothing of it.
SameRegistration ==
    \A g \in Gateways : (Registered(g)' <=> Registered(g)) /\ (Leaves(g)' <=> Leaves(g))
SameSubjects == \A g \in Gateways : HasSubject(g)' <=> HasSubject(g)

\* A step that leaves registrations, marks and subjects alone is a stutter and
\* keeps the invariant.
LEMMA StutterRefines ==
    ASSUME Refining, Inductive', DeletionIsGuarded', Progress, SameRegistration, SameSubjects,
           WorkerGoesOn
    PROVE  Refining' /\ UNCHANGED Mapped!access
<1>1. MarksKeep /\ BindsOnlyOwn
  BY DEF SameRegistration, SameSubjects, MarksKeep, BindsOnlyOwn
<1>2. UNCHANGED Mapped!access
  BY DEF SameRegistration, SameSubjects, Mapped!access
<1> QED BY <1>1, <1>2, RefiningStays

\* A step that writes no gateway leaves registrations alone.
LEMMA SameGatewaysSameRegistration ==
    ASSUME DeletionIsGuarded, \A g \in Gateways : gateways'[g] = gateways[g]
    PROVE  SameRegistration /\ DeletionIsGuarded'
BY DEF SameRegistration, DeletionIsGuarded, Registered, Leaves, Exists

\* A step that writes no binding leaves the subjects alone.
LEMMA SameBindingsSameSubjects ==
    ASSUME \A k \in Keys : k.kind = "ClusterRoleBinding" => objects'[k] = objects[k]
    PROVE  SameSubjects
BY DEF SameSubjects, HasSubject, IsBinding, Exists

\* A step that writes nothing to the server is a stutter.
LEMMA QuietRefines ==
    ASSUME Refining, Inductive', Progress, UNCHANGED <<gateways, objects>>, WorkerGoesOn
    PROVE  Refining' /\ UNCHANGED Mapped!access
BY SameGatewaysSameRegistration, SameBindingsSameSubjects, StutterRefines DEF Refining

-----------------------------------------------------------------------------
\* Users and the cluster.

\* The removal of an object is a stutter: nobody removes a binding.
LEMMA RemovalRefines ==
    ASSUME BindingsAreLeftAlone, Refining, Inductive', Progress, NEW k \in Keys,
           DeleteObject(k) \/ CollectGarbage(k) \/ EvictObject(k)
    PROVE  Refining' /\ UNCHANGED Mapped!access
<1>1. RemoveObject(k) /\ UNCHANGED workerVars /\ Exists(objects[k]) /\ TypeOK
  BY DEF DeleteObject, CollectGarbage, EvictObject, Change, Garbage, Refining, Inductive, Guarded
<1>2. k.kind # "ClusterRoleBinding"
  <2> SUFFICES ASSUME k.kind = "ClusterRoleBinding" PROVE FALSE
    OBVIOUS
  <2>1. objects[k].content.owner = Nil
    BY <1>1 DEF TypeOK, Object, Exists, ContentOf
  <2>2. k.ns \notin terminating
    <3>1. k.ns = ""
      <4>1. \A kind, name : Key(kind, "", name).ns = ""
        BY DEF Key
      <4> QED BY <4>1, KeysAreNamed
    <3>2. \A g \in Gateways : g.ns # ""
      BY GatewaysAssumption DEF Name
    <3> QED BY <1>1, <3>1, <3>2 DEF TypeOK
  <2> QED BY <2>1, <2>2
          DEF DeleteObject, CollectGarbage, EvictObject, Garbage, BindingsAreLeftAlone
<1>3. UNCHANGED gateways /\ \A l \in Keys : l # k => objects'[l] = objects[l]
  BY <1>1 DEF RemoveObject, Store, TypeOK
<1> QED BY <1>1, <1>2, <1>3, SameGatewaysSameRegistration, SameBindingsSameSubjects,
           StutterRefines DEF Refining, WorkerGoesOn

\* A user who writes a gateway and leaves its marks alone stutters.
LEMMA SetGatewayRefines ==
    ASSUME Refining, Inductive', Progress, NEW g \in Gateways,
           NEW content \in GatewayContent(StoredSpecs(g)) \cup {Nothing},
           \/ /\ content # Nothing /\ Exists(gateways[g])
              /\ content.finalizer = gateways[g].content.finalizer
              /\ content.deleting = gateways[g].content.deleting
           \/ /\ content # Nothing /\ ~Registered(g)
              /\ ~content.finalizer /\ ~content.deleting
           \/ content = Nothing /\ ~Registered(g),
           SetGateway(g, content), UNCHANGED workerVars
    PROVE  Refining' /\ UNCHANGED Mapped!access
<1>0. TypeOK /\ DeletionIsGuarded
  BY DEF Refining, Inductive, Guarded
<1>1. Written(gateways[g], content).content = content
  BY <1>0, WrittenFacts DEF TypeOK
<1>2. /\ \A f \in Gateways :
            gateways'[f] = IF f = g THEN Written(gateways[g], content) ELSE gateways[f]
      /\ UNCHANGED objects
  BY <1>0 DEF SetGateway, TypeOK
<1>3. SameRegistration /\ DeletionIsGuarded'
  BY <1>0, <1>1, <1>2 DEF SameRegistration, DeletionIsGuarded, Registered, Leaves, Exists
<1>4. SameSubjects
  BY <1>2, SameBindingsSameSubjects
<1> QED BY <1>3, <1>4, StutterRefines DEF WorkerGoesOn

\* Whoever deletes a gateway closes it, unless nothing guards it.
LEMMA DeletionRefines ==
    ASSUME Refining, Inductive', Progress, NEW g \in Gateways, Live(g),
           SetGateway(g, Deletion(gateways[g].content)), UNCHANGED workerVars
    PROVE  Refining' /\ (Mapped!Close(g) \/ UNCHANGED Mapped!access)
<1>0. TypeOK /\ DeletionIsGuarded
  BY DEF Refining, Inductive, Guarded
<1>1. CASE ~gateways[g].content.finalizer
  <2>1. Deletion(gateways[g].content) = Nothing /\ ~Registered(g)
    BY <1>1 DEF Deletion, Registered
  <2> QED BY <2>1, SetGatewayRefines
<1>2. CASE gateways[g].content.finalizer
  <2> DEFINE content == [gateways[g].content EXCEPT !.deleting = TRUE]
  <2>1. gateways[g].content \in GatewayContent(StoredSpecs(g)) /\ Registered(g)
    BY <1>0, <1>2 DEF Live, TypeOK, Object, Exists, Registered
  <2>2. /\ content \in GatewayContent(StoredSpecs(g)) /\ content # Nothing
        /\ content.finalizer /\ content.deleting
    BY <1>2, <2>1, NothingAssumption DEF GatewayContent
  <2>3. SetGateway(g, content)
    BY <1>2 DEF Deletion
  <2> HIDE DEF content
  <2>4. Written(gateways[g], content).content = content
    BY <1>0, <2>2, WrittenFacts DEF TypeOK
  <2>5. /\ \A f \in Gateways :
              gateways'[f] = IF f = g THEN Written(gateways[g], content) ELSE gateways[f]
        /\ UNCHANGED objects
    BY <1>0, <2>3 DEF SetGateway, TypeOK
  <2>6. /\ \A f \in Gateways : Registered(f)' <=> Registered(f)
        /\ \A f \in Gateways : Leaves(f)' <=> Leaves(f) \/ f = g
        /\ DeletionIsGuarded'
    BY <1>0, <2>1, <2>2, <2>4, <2>5 DEF DeletionIsGuarded, Registered, Leaves, Exists
  <2>7. SameSubjects
    BY <2>5, SameBindingsSameSubjects
  <2>8. Refining'
    BY <2>6, <2>7, RefiningStays DEF MarksKeep, BindsOnlyOwn, SameSubjects, WorkerGoesOn
  <2>9. Mapped!Close(g)
    BY <2>1, <2>6, <2>7 DEF Mapped!Close, SameSubjects
  <2> QED BY <2>8, <2>9
<1> QED BY <1>1, <1>2

\* What users, informers, the garbage collector, the namespace controller and
\* crashes do is a deletion or a stutter.
LEMMA EnvironmentRefines ==
    ASSUME BindingsAreLeftAlone, Refining, Inductive', Progress, User \/ Cluster \/ Crash
    PROVE  Refining' /\ (Mapped!Next \/ UNCHANGED Mapped!access)
<1>0. TypeOK
  BY DEF Refining, Inductive, Guarded
<1>1. ASSUME NEW g \in Gateways, NEW manifest \in Specs, CreateGateway(g, manifest)
      PROVE  Refining' /\ UNCHANGED Mapped!access
  <2> DEFINE content == [uid |-> gateways[g].version + 1, deleting |-> FALSE,
                         finalizer |-> FALSE, deployed |-> FALSE, spec |-> manifest]
  <2>1. content \in GatewayContent(StoredSpecs(g)) /\ ~content.finalizer /\ ~content.deleting
    BY <1>0 DEF TypeOK, Object, GatewayContent, StoredSpecs
  <2>2. content # Nothing
    BY <2>1, NothingAssumption
  <2>3. SetGateway(g, content) /\ UNCHANGED workerVars /\ ~Registered(g)
    BY <1>1 DEF CreateGateway, Change, Registered
  <2> HIDE DEF content
  <2> QED BY <2>1, <2>2, <2>3, SetGatewayRefines
<1>2. ASSUME NEW g \in Gateways, NEW manifest \in Specs, UpdateGateway(g, manifest)
      PROVE  Refining' /\ UNCHANGED Mapped!access
  <2> DEFINE content == [gateways[g].content EXCEPT !.spec = manifest]
  <2>1. gateways[g].content \in GatewayContent(StoredSpecs(g)) /\ Exists(gateways[g])
    BY <1>0, <1>2 DEF UpdateGateway, TypeOK, Object, Exists
  <2>2. /\ content \in GatewayContent(StoredSpecs(g))
        /\ content.finalizer = gateways[g].content.finalizer
        /\ content.deleting = gateways[g].content.deleting
    BY <2>1 DEF GatewayContent, StoredSpecs
  <2>3. SetGateway(g, content) /\ UNCHANGED workerVars
    BY <1>2 DEF UpdateGateway, Change
  <2> HIDE DEF content
  <2> QED BY <2>1, <2>2, <2>3, NothingAssumption, SetGatewayRefines
<1>3. ASSUME NEW g \in Gateways, DeleteGateway(g) \/ EvictGateway(g)
      PROVE  Refining' /\ (Mapped!Next \/ UNCHANGED Mapped!access)
  BY <1>3, DeletionRefines DEF DeleteGateway, EvictGateway, Change, Mapped!Next
<1>4. ASSUME NEW k \in Keys, DeleteObject(k) \/ CollectGarbage(k) \/ EvictObject(k)
      PROVE  Refining' /\ UNCHANGED Mapped!access
  BY <1>4, RemovalRefines
<1>5. ASSUME UNCHANGED <<gateways, objects>>, UNCHANGED workerVars \/ Idle
      PROVE  Refining' /\ UNCHANGED Mapped!access
  BY <1>5, QuietRefines DEF WorkerGoesOn
<1>6. ASSUME NEW g \in Gateways, TerminateNamespace(g.ns) \/ DeliverGateway(g)
      PROVE  Refining' /\ UNCHANGED Mapped!access
  BY <1>5, <1>6 DEF TerminateNamespace, DeliverGateway, Change, serverVars
<1>7. ASSUME NEW k \in Keys, DeliverObject(k) PROVE Refining' /\ UNCHANGED Mapped!access
  BY <1>5, <1>7 DEF DeliverObject, serverVars
<1>8. CASE Crash
  BY <1>5, <1>8 DEF Crash, Restart, serverVars
<1> QED BY <1>1, <1>2, <1>3, <1>4, <1>6, <1>7, <1>8 DEF User, Cluster

-----------------------------------------------------------------------------
\* The worker and the bindings.

\* A call for an object writes no other object.
LEMMA CallWritesOne ==
    ASSUME TypeOK, NEW k \in Keys, NEW answer, CallForObject(k, answer)
    PROVE  /\ \A l \in Keys : l # k => objects'[l] = objects[l]
           /\ objects'[k] \in {objects[k], answer.object}
<1>1. Admitted(k, answer).object \in {objects[k], answer.object}
  BY DEF Admitted
<1> QED BY <1>1 DEF CallForObject, Store, TypeOK

\* The calls for other objects leave the bindings alone.
LEMMA OtherCallsKeepBindings ==
    ASSUME TypeOK, createServiceAccount \/ createClusterRole \/ createRole
                   \/ createRoleBinding \/ createConfigMap \/ createDeployment
    PROVE  \A k \in Keys : k.kind = "ClusterRoleBinding" => objects'[k] = objects[k]
<1>1. pc \in Kinds \ {"ClusterRoleBinding"} /\ pc # "idle"
  BY DEF createServiceAccount, createClusterRole, createRole, createRoleBinding, createConfigMap,
         createDeployment, TypeOK, AllKinds
<1>2. keyOf(pc) \in Keys /\ keyOf(pc).kind # "ClusterRoleBinding"
  BY <1>1, KeyOfFacts
<1>3. \E answer : CallForObject(keyOf(pc), answer)
  BY DEF createServiceAccount, createClusterRole, createRole, createRoleBinding, createConfigMap,
         createDeployment, CreateOrUpdateObject
<1> QED BY <1>2, <1>3, CallWritesOne

\* createService leaves the bindings alone, too.
LEMMA ServiceKeepsBindings ==
    ASSUME TypeOK, createService
    PROVE  \A k \in Keys : k.kind = "ClusterRoleBinding" => objects'[k] = objects[k]
<1>1. CASE UNCHANGED objects
  BY <1>1
<1>2. CASE ~UNCHANGED objects
  <2>1. pc = "Service" /\ "Service" \in Kinds
    BY DEF createService, TypeOK, AllKinds
  <2>2. keyOf("Service") \in Keys /\ keyOf("Service").kind # "ClusterRoleBinding"
    BY <2>1, KeyOfFacts
  <2>3. \E answer : CallForObject(keyOf("Service"), answer)
    BY <1>2 DEF createService, CreateOrUpdateObject, serverVars
  <2> QED BY <2>2, <2>3, CallWritesOne
<1> QED BY <1>1, <1>2

\* How the write of one binding moves the subjects.
LEMMA OneBindingIsWritten ==
    ASSUME SubjectsAreDistinct, TypeOK, pc # "idle", NEW k \in Keys,
           k = KeyOf("ClusterRoleBinding", req, wanted), k.kind = "ClusterRoleBinding",
           \A l \in Keys : l # k => objects'[l] = objects[l],
           Exists(objects[k]) => Exists(objects'[k]),
           \A s : s # Subject(req, wanted) =>
               (Exists(objects'[k]) /\ s \in objects'[k].content.subjects
                <=> Exists(objects[k]) /\ s \in objects[k].content.subjects)
    PROVE  \A g \in Gateways : g # req => (HasSubject(g)' <=> HasSubject(g))
<1> SUFFICES ASSUME NEW g \in Gateways, g # req PROVE HasSubject(g)' <=> HasSubject(g)
  OBVIOUS
<1>1. \A d \in DefaultedSpecs(g) : Subject(g, d) # Subject(req, wanted)
  BY WorkerFacts DEF SubjectsAreDistinct
<1>2. ASSUME NEW l \in Keys, NEW d \in DefaultedSpecs(g)
      PROVE  IsBinding(l)' /\ Subject(g, d) \in objects'[l].content.subjects
             <=> IsBinding(l) /\ Subject(g, d) \in objects[l].content.subjects
  BY <1>1 DEF IsBinding, Exists
<1> QED BY <1>2 DEF HasSubject

\* createClusterRoleBinding adds the worker's own subject to those that are there.
LEMMA BindingKeepsOthers ==
    ASSUME SubjectsAreDistinct, Inductive, createClusterRoleBinding
    PROVE  /\ \A g \in Gateways : g # req => (HasSubject(g)' <=> HasSubject(g))
           /\ \A g \in Gateways : HasSubject(g) => HasSubject(g)'
<1>1. TypeOK /\ CachesFollow /\ pc = "ClusterRoleBinding" /\ "ClusterRoleBinding" \in Kinds
  BY KindsAssumption DEF Inductive, Guarded, createClusterRoleBinding
<1>2. PICK k \in Keys : k = keyOf(pc) /\ k.kind = "ClusterRoleBinding"
                        /\ k = KeyOf("ClusterRoleBinding", req, wanted)
  BY <1>1, KeyOfFacts DEF keyOf
<1> DEFINE fresh == initClusterRoleBinding(req, wanted)
           mutated == IF Exists(Seen(k))
                      THEN updateClusterRoleBinding(Seen(k).content, req, wanted) ELSE fresh
           answer == CreateOrUpdate(objects[k], Seen(k), fresh, mutated, Forced(k))
           own == Subject(req, wanted)
<1>3. own \in Subjects
  BY <1>1, WorkerFacts
<1>4. CallForObject(k, answer)
  BY <1>2 DEF createClusterRoleBinding, CreateOrUpdateObject
<1>5. /\ objects[k] \in Object(ContentOf("ClusterRoleBinding"))
      /\ Seen(k) \in Object(ContentOf("ClusterRoleBinding"))
      /\ Follows(Seen(k), objects[k])
  BY <1>1, <1>2, SeenFacts
<1>6. fresh \in ContentOf("ClusterRoleBinding") /\ fresh.subjects = {own}
  BY <1>3 DEF initClusterRoleBinding, ContentOf
<1>7. Exists(Seen(k)) => /\ Seen(k).content \in ContentOf("ClusterRoleBinding")
                         /\ mutated.subjects = Seen(k).content.subjects \cup {own}
                         /\ mutated \in ContentOf("ClusterRoleBinding")
  <2>1. Exists(Seen(k)) => Seen(k).content \in ContentOf("ClusterRoleBinding")
    BY <1>5 DEF Object, Exists
  <2> HIDE DEF own
  <2>2. Exists(Seen(k)) => mutated = [Seen(k).content EXCEPT !.subjects = @ \cup {own}]
    BY DEF updateClusterRoleBinding, own
  <2> HIDE DEF mutated
  <2> QED BY <1>3, <2>1, <2>2 DEF ContentOf
<1>8. mutated \in ContentOf("ClusterRoleBinding")
  BY <1>6, <1>7
<1> HIDE DEF fresh, mutated, own
<1>9. \/ answer.object = objects[k]
      \/ ~Exists(objects[k]) /\ answer.object.content = fresh
      \/ /\ Exists(objects[k])
         /\ Seen(k).version = objects[k].version
         /\ answer.object.content = mutated
  <2>1. Forced(k) \in BOOLEAN
    BY DEF Forced
  <2> QED BY <1>5, <1>6, <1>8, <2>1, CreateOrUpdateFacts
<1>10. Nothing \notin ContentOf("ClusterRoleBinding")
  BY <1>1, NothingAssumption
<1>11. \/ answer.object = objects[k]
       \/ /\ ~Exists(objects[k]) /\ Exists(answer.object)
          /\ answer.object.content.subjects = {own}
       \/ /\ Exists(objects[k]) /\ Exists(answer.object)
          /\ answer.object.content.subjects = objects[k].content.subjects \cup {own}
  <2>1. CASE ~Exists(objects[k]) /\ answer.object.content = fresh
    BY <1>6, <1>10, <2>1 DEF Exists
  <2>2. CASE /\ Exists(objects[k])
             /\ Seen(k).version = objects[k].version
             /\ answer.object.content = mutated
    <3>1. Seen(k).content = objects[k].content /\ Exists(Seen(k))
      BY <1>5, <2>2 DEF Follows, Exists
    <3> QED BY <1>7, <1>8, <1>10, <2>2, <3>1 DEF Exists
  <2> QED BY <1>9, <2>1, <2>2
<1>12. /\ \A l \in Keys : l # k => objects'[l] = objects[l]
       /\ objects'[k] \in {objects[k], answer.object}
  BY <1>1, <1>2, <1>4, CallWritesOne
<1> HIDE DEF answer
<1>13. Exists(objects[k]) => /\ Exists(objects'[k])
                             /\ objects[k].content.subjects \subseteq objects'[k].content.subjects
  BY <1>11, <1>12
<1>14. \A s : s # own =>
           (Exists(objects'[k]) /\ s \in objects'[k].content.subjects
            <=> Exists(objects[k]) /\ s \in objects[k].content.subjects)
  BY <1>2, <1>11, <1>12 DEF IsBinding, Exists
<1>15. \A g \in Gateways : g # req => (HasSubject(g)' <=> HasSubject(g))
  BY <1>1, <1>2, <1>12, <1>13, <1>14, OneBindingIsWritten DEF own
<1>16. \A g \in Gateways : HasSubject(g) => HasSubject(g)'
  BY <1>12, <1>13 DEF HasSubject, IsBinding, Exists
<1> QED BY <1>15, <1>16

\* finalizeHigressGateway takes out the worker's own subject and no other.
LEMMA FinalizeKeepsOthers ==
    ASSUME SubjectsAreDistinct, Inductive, finalizeHigressGateway
    PROVE  /\ \A g \in Gateways : g # req => (HasSubject(g)' <=> HasSubject(g))
           /\ \A g \in Gateways : HasSubject(g)' => HasSubject(g)
<1> DEFINE own == Subject(req, wanted)
<1>1. /\ TypeOK /\ CachesFollow /\ pc # "idle" /\ "ClusterRoleBinding" \in Kinds
  BY KindsAssumption DEF Inductive, Guarded, finalizeHigressGateway
<1>2. PICK k \in Keys : /\ k = KeyOf("ClusterRoleBinding", req, wanted)
                        /\ k.kind = "ClusterRoleBinding"
                        /\ FinalizeEffect(k)
  BY <1>1, FinalizeTypes
<1> DEFINE result == Update(objects[k], Seen(k), Unbound(k))
<1>3. /\ objects[k] \in Object(ContentOf("ClusterRoleBinding"))
      /\ Seen(k) \in Object(ContentOf("ClusterRoleBinding"))
      /\ Follows(Seen(k), objects[k])
  BY <1>1, <1>2, SeenFacts
<1>4. Exists(Seen(k)) =>
        /\ Unbound(k) \in ContentOf("ClusterRoleBinding")
        /\ Unbound(k).subjects \subseteq Seen(k).content.subjects
        /\ \A s \in Seen(k).content.subjects : s # own => s \in Unbound(k).subjects
  <2>1. Exists(Seen(k)) => /\ Seen(k).content \in ContentOf("ClusterRoleBinding")
                           /\ Seen(k).content.subjects \subseteq Subjects
    BY <1>3 DEF Object, Exists, ContentOf
  <2>2. \A s \in Subjects :
           s.name = getServiceAccount(req, wanted) /\ s.ns = req.ns => s = own
    BY DEF Subjects, Subject
  <2> HIDE DEF own
  <2> QED BY <2>1, <2>2 DEF Unbound, SubjectsKept, ContentOf
<1>5. Exists(Seen(k)) =>
        \/ result.object = objects[k]
        \/ /\ Exists(objects[k])
           /\ result.object.content = Unbound(k)
           /\ Seen(k).content = objects[k].content
  <2>1. Exists(Seen(k)) =>
          /\ result.ok \in BOOLEAN
          /\ result.ok => /\ Exists(objects[k])
                          /\ objects[k].version = Seen(k).version
                          /\ result.object = Written(objects[k], Unbound(k))
          /\ ~result.ok => result.object = objects[k]
    BY <1>3, <1>4, UpdateFacts
  <2>2. Exists(Seen(k)) => Written(objects[k], Unbound(k)).content = Unbound(k)
    BY <1>3, <1>4, WrittenFacts
  <2> HIDE DEF result
  <2> QED BY <1>3, <2>1, <2>2 DEF Follows
<1> HIDE DEF own, result
<1>6. /\ \A l \in Keys : l # k => objects'[l] = objects[l]
      /\ objects'[k] = objects[k] \/ (Exists(Seen(k)) /\ objects'[k] = result.object)
  BY <1>1, <1>2 DEF FinalizeEffect, Store, TypeOK, result
<1>7. Nothing \notin ContentOf("ClusterRoleBinding")
  BY <1>1, NothingAssumption
<1>8. \/ objects'[k] = objects[k]
      \/ /\ Exists(objects[k]) /\ Exists(objects'[k])
         /\ objects'[k].content.subjects \subseteq objects[k].content.subjects
         /\ \A s \in objects[k].content.subjects : s # own => s \in objects'[k].content.subjects
  BY <1>4, <1>5, <1>6, <1>7 DEF Exists
<1>9. \A s : s # own =>
          (Exists(objects'[k]) /\ s \in objects'[k].content.subjects
           <=> Exists(objects[k]) /\ s \in objects[k].content.subjects)
  BY <1>8
<1>10. Exists(objects[k]) => Exists(objects'[k])
  BY <1>8
<1>11. \A g \in Gateways : g # req => (HasSubject(g)' <=> HasSubject(g))
  BY <1>1, <1>2, <1>6, <1>9, <1>10, OneBindingIsWritten DEF own
<1>12. \A g \in Gateways : HasSubject(g)' => HasSubject(g)
  <2>1. \A l \in Keys : \A s : Exists(objects'[l]) /\ s \in objects'[l].content.subjects =>
            Exists(objects[l]) /\ s \in objects[l].content.subjects
    BY <1>6, <1>8
  <2> QED BY <2>1 DEF HasSubject, IsBinding, Exists
<1> QED BY <1>11, <1>12

-----------------------------------------------------------------------------
\* The worker, step by step.

\* The steps after the finalizer bind the worker's gateway or change nothing.
LEMMA EnsureRefines ==
    ASSUME SubjectsAreDistinct, Refining, Inductive', Progress, EnsureEffect,
           \/ createClusterRoleBinding
           \/ \A k \in Keys : k.kind = "ClusterRoleBinding" => objects'[k] = objects[k]
    PROVE  Refining' /\ (Mapped!Next \/ UNCHANGED Mapped!access)
<1>1. /\ Registered(req) /\ req \in Gateways /\ pc \in Entering
      /\ SameRegistration /\ DeletionIsGuarded'
  <2>1. pc # "idle" /\ pc \in Entering /\ pc \in EnsureSteps
    BY DEF EnsureEffect, EnsureSteps, Order, Entering
  <2> QED BY <2>1, WorkerFacts, SameGatewaysSameRegistration
          DEF Refining, Inductive, Guarded, WorkerIsEntitled, EnsureEffect
<1>2. WorkerGoesOn
  BY <1>1 DEF EnsureEffect, WorkerGoesOn, Closing, EnsureSteps, Order
<1>3. CASE SameSubjects
  BY <1>1, <1>2, <1>3, StutterRefines
<1>4. CASE ~SameSubjects
  <2>1. createClusterRoleBinding
    BY <1>4, SameBindingsSameSubjects
  <2>2. /\ \A g \in Gateways : g # req => (HasSubject(g)' <=> HasSubject(g))
        /\ \A g \in Gateways : HasSubject(g) => HasSubject(g)'
    BY <2>1, BindingKeepsOthers DEF Refining
  <2>3. MarksKeep /\ BindsOnlyOwn
    BY <1>1, <2>2 DEF MarksKeep, SameRegistration, BindsOnlyOwn
  <2>4. \A g \in Gateways : HasSubject(g)' <=> HasSubject(g) \/ g = req
    BY <1>4, <2>2 DEF SameSubjects
  <2>5. Mapped!Bind(req)
    BY <1>1, <2>4 DEF Mapped!Bind, SameRegistration
  <2> QED BY <1>1, <1>2, <2>3, <2>5, RefiningStays DEF Mapped!Next
<1> QED BY <1>3, <1>4

\* finalizeHigressGateway unbinds a leaving gateway.
LEMMA FinalizeRefines ==
    ASSUME SubjectsAreDistinct, Refining, Inductive', Progress, finalizeHigressGateway
    PROVE  Refining' /\ (Mapped!Next \/ UNCHANGED Mapped!access)
<1>1. TypeOK /\ pc = "finalize" /\ pc # "idle" /\ req \in Gateways
  BY DEF finalizeHigressGateway, Refining, Inductive, Guarded, TypeOK
<1>2. UNCHANGED gateways /\ (Idle \/ (pc' = "removeFinalizer" /\ UNCHANGED <<req, instance>>))
  BY <1>1, FinalizeTypes DEF FinalizeEffect
<1>3. SameRegistration /\ DeletionIsGuarded'
  BY <1>2, SameGatewaysSameRegistration DEF Refining
<1>4. WorkerGoesOn
  BY <1>1, <1>2 DEF WorkerGoesOn, Entering, Closing, EnsureSteps, Order
<1>5. /\ \A g \in Gateways : g # req => (HasSubject(g)' <=> HasSubject(g))
      /\ \A g \in Gateways : HasSubject(g)' => HasSubject(g)
  BY FinalizeKeepsOthers DEF Refining
<1>6. CASE SameSubjects
  BY <1>3, <1>4, <1>6, StutterRefines
<1>7. CASE ~SameSubjects
  <2>1. Refining'
    BY <1>3, <1>4, <1>5, RefiningStays DEF MarksKeep, BindsOnlyOwn, SameRegistration
  <2>2. Leaves(req)
    BY <1>1, <1>5, <1>7 DEF SameSubjects, Refining, UnbinderIsRight, Closing
  <2>3. \A g \in Gateways : HasSubject(g)' <=> HasSubject(g) /\ g # req
    BY <1>5, <1>7 DEF SameSubjects
  <2>4. Mapped!Unbind(req)
    BY <1>1, <1>3, <2>2, <2>3 DEF Mapped!Unbind, SameRegistration
  <2> QED BY <1>1, <2>1, <2>4 DEF Mapped!Next
<1> QED BY <1>6, <1>7

\* addFinalizer registers the worker's gateway, which is not leaving.
LEMMA AddFinalizerRefines ==
    ASSUME Refining, Inductive', Progress, addFinalizer
    PROVE  Refining' /\ (Mapped!Next \/ UNCHANGED Mapped!access)
<1> DEFINE content == [instance.content EXCEPT !.finalizer = TRUE]
           answer == Update(gateways[req], instance, content)
           V == GatewayContent(StoredSpecs(req))
<1>1. /\ pc = "addFinalizer" /\ req \in Gateways /\ gateways[req] \in Object(V)
      /\ TypeOK /\ DeletionIsGuarded
  BY DEF addFinalizer, Refining, Inductive, Guarded, TypeOK
<1>2. /\ content \in V
      /\ content.finalizer
      /\ content.deleting = instance.content.deleting
      /\ content # Nothing
  BY <1>1, NothingAssumption DEF TypeOK, GatewayContent, StoredSpecs
<1>3. ~instance.content.deleting
  BY <1>1 DEF Refining, Inductive, Guarded, WorkerIsEntitled, Entering
<1> HIDE DEF content, V
<1>4. /\ answer.ok =>
           /\ Exists(gateways[req])
           /\ gateways[req].version = instance.version
           /\ answer.object = Written(gateways[req], content)
      /\ answer.ok \in BOOLEAN
      /\ ~answer.ok => answer.object = gateways[req]
      /\ Written(gateways[req], content).content = content
  BY <1>1, <1>2, UpdateFacts, WrittenFacts
<1>5. /\ \/ gateways' = gateways
         \/ gateways' = [gateways EXCEPT ![req] = answer.object]
      /\ UNCHANGED objects
      /\ Idle \/ Continue
  BY DEF addFinalizer, CallForGateway, Retry, content
<1>6. answer.ok => gateways[req].content.deleting = instance.content.deleting
  BY <1>1, <1>4 DEF Refining, Inductive, Guarded, InstanceFollows
<1> HIDE DEF answer
<1>7. WorkerGoesOn
  BY <1>1, <1>5, ContinueFacts DEF WorkerGoesOn, Entering, Closing, EnsureSteps, Order
<1>8. SameSubjects
  BY <1>5, SameBindingsSameSubjects
<1>9. CASE \A g \in Gateways : gateways'[g] = gateways[g]
  BY <1>1, <1>7, <1>8, <1>9, SameGatewaysSameRegistration, StutterRefines
<1>10. CASE answer.ok /\ gateways' = [gateways EXCEPT ![req] = answer.object]
  <2>1. \A g \in Gateways :
           gateways'[g] = IF g = req THEN Written(gateways[req], content) ELSE gateways[g]
    BY <1>1, <1>4, <1>10 DEF TypeOK
  <2>2. /\ \A g \in Gateways : Registered(g)' <=> Registered(g) \/ g = req
        /\ \A g \in Gateways : Leaves(g)' <=> Leaves(g)
        /\ DeletionIsGuarded'
    BY <1>1, <1>2, <1>3, <1>4, <1>6, <1>10, <2>1
    DEF DeletionIsGuarded, Registered, Leaves, Exists
  <2>3. Refining'
    BY <1>7, <1>8, <2>2, RefiningStays DEF MarksKeep, BindsOnlyOwn, SameSubjects
  <2>4. Mapped!Register(req) \/ UNCHANGED Mapped!access
    <3>1. CASE Registered(req)
      BY <1>8, <2>2, <3>1 DEF SameSubjects, Mapped!access
    <3>2. CASE ~Registered(req)
      BY <1>1, <1>8, <2>2, <3>2 DEF SameSubjects, Mapped!Register
    <3> QED BY <3>1, <3>2
  <2> QED BY <1>1, <2>3, <2>4 DEF Mapped!Next
<1>11. CASE ~answer.ok
  <2>1. \A g \in Gateways : gateways'[g] = gateways[g]
    BY <1>1, <1>4, <1>5, <1>11 DEF TypeOK
  <2> QED BY <1>9, <2>1
<1> QED BY <1>4, <1>5, <1>9, <1>10, <1>11

\* removeFinalizer unregisters a leaving gateway that is not bound.
LEMMA RemoveFinalizerRefines ==
    ASSUME AccountsAreStable, Refining, Inductive', Progress, removeFinalizer
    PROVE  Refining' /\ (Mapped!Next \/ UNCHANGED Mapped!access)
<1>1. TypeOK /\ pc = "removeFinalizer" /\ req \in Gateways /\ Guarded
  BY DEF removeFinalizer, Refining, Inductive, Guarded, TypeOK
<1>2. UNCHANGED <<objects, gatewayCache>> /\ Idle
  BY <1>1, RemoveFinalizerTypes DEF WritesGateway, cacheVars
<1>3. RemovesOnlyFinalizer
  <2>1. TypeOK' /\ CachesFollow'
    BY DEF Inductive, Guarded
  <2> QED BY <1>1, <2>1, RemoveFinalizerGuard
<1>4. SameSubjects /\ WorkerGoesOn
  BY <1>2, SameBindingsSameSubjects DEF WorkerGoesOn
<1>5. CASE gateways'[req] = gateways[req]
  <2>1. \A g \in Gateways : gateways'[g] = gateways[g]
    BY <1>3, <1>5 DEF RemovesOnlyFinalizer
  <2> QED BY <1>4, <2>1, SameGatewaysSameRegistration, StutterRefines DEF Refining
<1>6. CASE gateways'[req] # gateways[req]
  <2>1. ~Exists(gateways'[req]) /\ gateways[req].version = instance.version
    BY <1>3, <1>6 DEF RemovesOnlyFinalizer
  <2>2. Exists(gateways[req]) /\ gateways[req].content.deleting
    BY <1>1, <2>1 DEF Guarded, InstanceFollows, WorkerIsEntitled, Closing
  <2>3. Leaves(req)
    BY <1>1, <2>2 DEF Refining, DeletionIsGuarded, Leaves
  <2>4. ~HasSubject(req)
    <3>1. wanted \in DefaultedSpecs(req)
      BY <1>1, WorkerFacts
    <3>2. \A d \in DefaultedSpecs(req) : Subject(req, d) = Subject(req, wanted)
      BY <1>1, <3>1 DEF AccountsAreStable, Subject
    <3>3. \A k \in Keys : IsBinding(k) => Subject(req, wanted) \notin objects[k].content.subjects
      BY <1>1 DEF Refining, Inductive, SubjectIsDropped
    <3> QED BY <3>2, <3>3 DEF HasSubject
  <2>5. \A g \in Gateways : gateways'[g] = gateways[g] \/ (g = req /\ ~Exists(gateways'[g]))
    BY <1>3, <2>1 DEF RemovesOnlyFinalizer
  <2>6. /\ \A g \in Gateways : Registered(g)' <=> Registered(g) /\ g # req
        /\ \A g \in Gateways : Leaves(g)' <=> Leaves(g) /\ g # req
        /\ DeletionIsGuarded'
    BY <2>1, <2>5, <1>3
    DEF RemovesOnlyFinalizer, Refining, DeletionIsGuarded, Registered, Leaves, Exists
  <2>7. Mapped!Unregister(req)
    BY <1>1, <1>4, <2>3, <2>4, <2>6 DEF Mapped!Unregister, SameSubjects
  <2>8. DeletionIsSeen'
    BY <1>2, <1>4, <2>4, <2>6 DEF Refining, DeletionIsSeen, SameSubjects, Exists
  <2>9. BinderIsInTime' /\ UnbinderIsRight'
    BY <1>2 DEF Idle, BinderIsInTime, UnbinderIsRight, Entering, Closing, EnsureSteps, Order
  <2> QED BY <1>1, <2>6, <2>7, <2>8, <2>9 DEF Refining, Mapped!Next
<1> QED BY <1>5, <1>6

\* updateStatus is a stutter.
LEMMA StatusRefines ==
    ASSUME Refining, Inductive', Progress, updateStatus
    PROVE  Refining' /\ UNCHANGED Mapped!access
<1> DEFINE content == [gateways[req].content EXCEPT !.deployed = TRUE]
           V == GatewayContent(StoredSpecs(req))
           answer == Update(gateways[req], instance, content)
<1>1. /\ TypeOK /\ req \in Gateways /\ gateways[req] \in Object(V)
      /\ DeletionIsGuarded
  BY DEF updateStatus, Refining, Inductive, Guarded, TypeOK
<1>2. UNCHANGED objects /\ Idle
      /\ (gateways' = gateways \/ gateways' = [gateways EXCEPT ![req] = answer.object])
  BY <1>1, StatusTypes DEF WritesGateway
<1>3. Exists(gateways[req]) =>
        /\ content \in V
        /\ content.finalizer = gateways[req].content.finalizer
        /\ content.deleting = gateways[req].content.deleting
        /\ content # Nothing
  <2>1. Exists(gateways[req]) => gateways[req].content \in V
    BY <1>1 DEF Object, Exists
  <2> QED BY <1>1, <2>1, NothingAssumption DEF GatewayContent
<1> HIDE DEF content, V
<1>4. answer.object = gateways[req]
      \/ (Exists(gateways[req]) /\ answer.object = Written(gateways[req], content))
  <2>1. /\ answer.ok => /\ Exists(gateways[req])
                        /\ answer.object = Written(gateways[req], content)
        /\ answer.ok \in BOOLEAN
        /\ ~answer.ok => answer.object = gateways[req]
    BY <1>1, <1>3, UpdateFacts
  <2> HIDE DEF answer
  <2> QED BY <2>1
<1>5. Exists(gateways[req]) => Written(gateways[req], content).content = content
  BY <1>1, <1>3, WrittenFacts
<1> HIDE DEF answer
<1>6. \A g \in Gateways :
        \/ gateways'[g] = gateways[g]
        \/ /\ Exists(gateways[g]) /\ Exists(gateways'[g])
           /\ gateways'[g].content.finalizer = gateways[g].content.finalizer
           /\ gateways'[g].content.deleting = gateways[g].content.deleting
  BY <1>1, <1>2, <1>3, <1>4, <1>5 DEF TypeOK, Exists
<1>7. SameRegistration /\ DeletionIsGuarded'
  BY <1>1, <1>6 DEF SameRegistration, DeletionIsGuarded, Registered, Leaves, Exists
<1>8. SameSubjects /\ WorkerGoesOn
  BY <1>2, SameBindingsSameSubjects DEF WorkerGoesOn
<1> QED BY <1>7, <1>8, StutterRefines

\* Reconcile starts a pass that is entitled to unbind what it will unbind.
LEMMA ReconcileRefines ==
    ASSUME Refining, Inductive', Progress, NEW g \in Gateways, Reconcile(g)
    PROVE  Refining' /\ UNCHANGED Mapped!access
<1>1. UNCHANGED <<gateways, objects, gatewayCache>>
  BY DEF Reconcile, serverVars, cacheVars
<1>2. CASE UNCHANGED workerVars
  BY <1>1, <1>2, QuietRefines DEF WorkerGoesOn
<1>3. CASE /\ Exists(gatewayCache[g])
           /\ req' = g
           /\ pc' = IF gatewayCache[g].content.deleting THEN "finalize" ELSE "namespace"
  <2>1. SameRegistration /\ DeletionIsGuarded' /\ SameSubjects
    BY <1>1, SameGatewaysSameRegistration, SameBindingsSameSubjects DEF Refining
  <2>2. DeletionIsSeen'
    BY <1>1, <2>1 DEF Refining, DeletionIsSeen, SameRegistration, SameSubjects, Exists
  <2>3. BinderIsInTime'
    BY <1>1, <1>3 DEF BinderIsInTime, Entering, EnsureSteps, Order
  <2>4. UnbinderIsRight'
    <3>1. pc' \in Closing => gatewayCache'[g] = gatewayCache[g] /\ gatewayCache[g].content.deleting
      BY <1>1, <1>3 DEF Closing
    <3>2. pc' \in Closing => Leaves(g)' \/ ~HasSubject(g)'
      BY <1>1, <1>3, <2>2, <3>1 DEF DeletionIsSeen, Exists
    <3> QED BY <1>3, <3>2 DEF UnbinderIsRight, Leaves, Registered, HasSubject
  <2>5. UNCHANGED Mapped!access
    BY <2>1 DEF SameRegistration, SameSubjects, Mapped!access
  <2> QED BY <2>1, <2>2, <2>3, <2>4, <2>5 DEF Refining
<1> QED BY <1>2, <1>3 DEF Reconcile

\* Every step is a step of the specification of the access, or none of its business.
LEMMA StepRefines ==
    ASSUME AccountsAreStable, SubjectsAreDistinct, BindingsAreLeftAlone,
           Refining, [Next]_vars
    PROVE  Refining' /\ (Mapped!Next \/ UNCHANGED Mapped!access)
<1>1. Inductive /\ Inductive' /\ TypeOK /\ CachesFollow
  BY StepKeepsSubjects DEF Refining, Inductive, Guarded
<1>2. Progress
  BY <1>1, StepTypes
<1>3. CASE User \/ Cluster \/ Crash
  BY <1>1, <1>2, <1>3, EnvironmentRefines
<1>4. ASSUME NEW g \in Gateways, Reconcile(g) PROVE Refining' /\ UNCHANGED Mapped!access
  BY <1>1, <1>2, <1>4, ReconcileRefines
<1>5. CASE UNCHANGED <<gateways, objects>> /\ (UNCHANGED workerVars \/ Idle)
  BY <1>1, <1>2, <1>5, QuietRefines DEF WorkerGoesOn
<1>6. CASE Worker
  <2>1. CASE checkNamespace
    <3>1. UNCHANGED <<gateways, objects>> /\ pc = "namespace"
      BY <2>1 DEF checkNamespace, serverVars
    <3>2. Idle \/ (req' = req /\ pc' \notin Closing)
      BY <2>1, ContinueFacts
      DEF checkNamespace, Finish, GoTo, Closing, EnsureSteps, Order
    <3>3. WorkerGoesOn
      BY <3>1, <3>2 DEF WorkerGoesOn, Entering
    <3> QED BY <1>1, <1>2, <3>1, <3>3, QuietRefines
  <2>2. CASE addFinalizer
    BY <1>1, <1>2, <2>2, AddFinalizerRefines
  <2>3. CASE finalizeHigressGateway
    BY <1>1, <1>2, <2>3, FinalizeRefines
  <2>4. CASE removeFinalizer
    BY <1>1, <1>2, <2>4, RemoveFinalizerRefines
  <2>5. CASE createClusterRoleBinding
    BY <1>1, <1>2, <2>5, EnsuresClusterRoleBinding, EnsureRefines
  <2>6. CASE createServiceAccount \/ createClusterRole \/ createRole
             \/ createRoleBinding \/ createConfigMap \/ createDeployment
    <3>1. EnsureEffect
      BY <1>1, <2>6, EnsuresServiceAccount, EnsuresRules, EnsuresRoleBinding, EnsuresConfigMap,
         EnsuresDeployment
    <3> QED BY <1>1, <1>2, <2>6, <3>1, OtherCallsKeepBindings, EnsureRefines
  <2>7. CASE createService
    <3>1. CASE EnsureEffect
      BY <1>1, <1>2, <2>7, <3>1, ServiceKeepsBindings, EnsureRefines
    <3>2. CASE Restart /\ UNCHANGED <<serverVars, boundVars>>
      BY <1>5, <3>2 DEF Restart, serverVars
    <3> QED BY <1>1, <2>7, <3>1, <3>2, EnsuresService
  <2>8. CASE createSkywalkingConfigMap
    BY <1>1, <1>5, <2>8, SkywalkingTypes
  <2>9. CASE updateStatus
    BY <1>1, <1>2, <2>9, StatusRefines
  <2> QED BY <1>6, <2>1, <2>2, <2>3, <2>4, <2>5, <2>6, <2>7, <2>8, <2>9 DEF Worker
<1>7. CASE UNCHANGED vars
  BY <1>5, <1>7 DEF vars, serverVars
<1> QED BY <1>3, <1>4, <1>6, <1>7 DEF Next

\* At the start nobody is registered, leaving or bound.
LEMMA InitRefines ==
    ASSUME Init PROVE Refining /\ Mapped!Init
<1>1. Inductive
  BY InitGuard DEF Init, Inductive, SubjectsAreNamed, SubjectIsDropped, NoDanglingSubject,
                   IsBinding, NeverStored, Exists
<1>2. /\ \A g \in Gateways : ~Exists(gateways[g]) /\ ~Exists(gatewayCache[g])
      /\ \A g \in Gateways : ~HasSubject(g)
      /\ pc = "idle"
  BY DEF Init, HasSubject, IsBinding, NeverStored, Exists
<1>3. Refining
  BY <1>1, <1>2 DEF Refining, DeletionIsGuarded, DeletionIsSeen, BinderIsInTime, UnbinderIsRight,
                    Entering, Closing, EnsureSteps, Order
<1>4. Mapped!Init
  BY <1>2 DEF Mapped!Init, Registered, Leaves
<1> QED BY <1>3, <1>4

\* The refinement mapping of GatewayProperties and the one of this module
\* give the same sets.
MappingsAgree ==
    /\ {g \in Gateways : Bound(g)} = {g \in Gateways : HasSubject(g)}
    /\ {g \in Gateways : Registered(g) /\ gateways[g].content.deleting}
          = {g \in Gateways : Leaves(g)}

\* In the invariant both mappings are one.
LEMMA MappingIsRight ==
    ASSUME AccountsAreStable, SubjectsAreDistinct, Inductive
    PROVE  MappingsAgree
BY BoundIsMapped DEF Leaves, MappingsAgree

\* The controller implements the promise of cluster-wide access, for any number
\* of gateways over shared bindings, stale copies, conflicts, lost answers and
\* crashes: createClusterRoleBinding binds only who holds the finalizer and
\* disturbs nobody else, finalizeHigressGateway unbinds only who leaves, and
\* RemoveFinalizer lets go only of who is unbound.
THEOREM AccessIsImplemented ==
    ASSUME AccountsAreStable, SubjectsAreDistinct, BindingsAreLeftAlone
    PROVE  Spec => ImplementsClusterAccess
<1>1. Refining => MappingsAgree
  BY MappingIsRight DEF Refining
<1>2. (Refining => MappingsAgree)'
  BY <1>1, PTL
<1>3. Init => Refining /\ Access!Init
  BY <1>1, InitRefines DEF MappingsAgree, Access!Init, Mapped!Init
<1>4. Refining /\ [Next]_vars => Refining' /\ [Access!Next]_(Access!access)
  <2> SUFFICES ASSUME Refining, [Next]_vars
               PROVE  Refining' /\ (Access!Next \/ UNCHANGED Access!access)
    OBVIOUS
  <2>1. Refining' /\ (Mapped!Next \/ UNCHANGED Mapped!access)
    BY StepRefines
  <2>2. MappingsAgree /\ MappingsAgree'
    BY <1>1, <1>2, <2>1
  <2> QED BY <2>1, <2>2
          DEF MappingsAgree,
              Access!Next, Access!Register, Access!Bind, Access!Close, Access!Unbind,
              Access!Unregister, Access!access,
              Mapped!Next, Mapped!Register, Mapped!Bind, Mapped!Close, Mapped!Unbind,
              Mapped!Unregister, Mapped!access
<1> QED BY <1>3, <1>4, PTL DEF Spec, ImplementsClusterAccess, Access!Spec
=============================================================================
