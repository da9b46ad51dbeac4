----------------------- MODULE ControllerAccessProofs -----------------------
(***************************************************************************)
(* What the finalizer of a HigressController guards: nothing is created    *)
(* for one that does not hold it, nobody who is bound is released, and     *)
(* nobody is bound who does not hold it; and the types of all variables.   *)
(* For any set of HigressControllers, specs and steps, without a condition *)
(* on what users edit, but for the one named in part three.                *)
(***************************************************************************)
EXTENDS ControllerProperties, TLAPS

-----------------------------------------------------------------------------
\* The invariant.

\* A copy is the object itself or an older version of it.
Follows(copy, object) ==
    /\ copy.version <= object.version
    /\ copy.version = object.version => copy.content = object.content

IsBinding(k) == k.kind = "ClusterRoleBinding" /\ Exists(objects[k])

WorkerTyped ==
    /\ pc \in Steps
    /\ pc # "idle" =>
        /\ req \in Controllers
        /\ instance \in Object(ControllerContent(DefaultedSpecs(req)))
        /\ Exists(instance)

\* The types that the argument needs; the contents of most objects do not matter.
Typed ==
    /\ DOMAIN controllers = Controllers /\ DOMAIN controllerCache = Controllers
    /\ \A c \in Controllers :
        /\ controllers[c] \in Object(ControllerContent(StoredSpecs(c)))
        /\ controllerCache[c] \in Object(ControllerContent(StoredSpecs(c)))
        /\ Follows(controllerCache[c], controllers[c])
    /\ DOMAIN objects = Keys /\ DOMAIN objectCache = Keys
    /\ \A k \in Keys :
        /\ objects[k].version \in Nat /\ objectCache[k].version \in Nat
        /\ Follows(objectCache[k], objects[k])
        /\ IsBinding(k) => "subjects" \in DOMAIN objects[k].content
    /\ WorkerTyped

Entering == {"namespace", "addFinalizer"} \cup EnsureSteps
Closing == {"finalize", "removeFinalizer"}

\* A finalizer that the informer shows on a HigressController that is not
\* leaving is still there: only the worker takes it off, after it has seen the
\* deletion.
CacheShowsFinalizer ==
    \A c \in Controllers :
        LET copy == controllerCache[c]
        IN  Exists(copy) /\ copy.content.finalizer /\ ~copy.content.deleting =>
                Registered(c) /\ controllers[c].content.uid = copy.content.uid

\* The worker's instance is a copy of the stored resource, or outdated.
InstanceFollows ==
    pc # "idle" =>
        /\ instance.version <= controllers[req].version
        /\ instance.version = controllers[req].version =>
              /\ Exists(controllers[req])
              /\ controllers[req].content.uid = instance.content.uid
              /\ controllers[req].content.finalizer = instance.content.finalizer
              /\ controllers[req].content.deleting = instance.content.deleting
              /\ StoredSpec(req) = wanted

\* Past the finalizer the resource is registered, in the incarnation the worker
\* has read; on the way out the informer has seen the deletion.
WorkerIsEntitled ==
    /\ pc \in Entering /\ instance.content.finalizer =>
          Registered(req) /\ controllers[req].content.uid = instance.content.uid
    /\ pc \in EnsureSteps => instance.content.finalizer
    /\ pc \in Entering => ~instance.content.deleting
    /\ pc \in Closing =>
          /\ instance.content.deleting
          /\ instance.version <= controllerCache[req].version

\* Between the two calls of a deletion the subject is gone, if RBAC was on when
\* the worker read the spec.
SubjectIsDropped ==
    pc = "removeFinalizer" /\ Unbinds =>
        LET k == KeyOf("ClusterRoleBinding", req, wanted)
        IN  Exists(objects[k]) => Subject(req, wanted) \notin objects[k].content.subjects

Guarded ==
    /\ Typed
    /\ CacheShowsFinalizer
    /\ InstanceFollows
    /\ WorkerIsEntitled
    /\ SubjectIsDropped

-----------------------------------------------------------------------------
\* Values.

Advances(before, after) ==
    /\ after.version \in Nat
    /\ before.version <= after.version
    /\ before.version = after.version => before.content = after.content

\* A write is a step forward.
LEMMA WrittenFacts ==
    ASSUME NEW object, object.version \in Nat, NEW content
    PROVE  /\ Written(object, content).content = content
           /\ Advances(object, Written(object, content))
BY DEF Written, Advances

\* A write keeps an object an object.
LEMMA WrittenType ==
    ASSUME NEW V, NEW object \in Object(V), NEW content \in V \cup {Nothing}
    PROVE  Written(object, content) \in Object(V)
BY DEF Written, Object

\* The server takes an update of the version it has, and nothing else.
LEMMA UpdateFacts ==
    ASSUME NEW object, NEW seen, NEW content
    PROVE  LET answer == Update(object, seen, content)
           IN  /\ answer.ok \in BOOLEAN
               /\ answer.ok => /\ Exists(object) /\ object.version = seen.version
                               /\ answer.object = Written(object, content)
               /\ ~answer.ok => answer.object = object
BY DEF Update, Answer, AcceptsVersion, Exists

\* Filling in the defaults a second time changes nothing.
LEMMA DefaultsAreIdempotent ==
    ASSUME NEW c \in Controllers, NEW d \in DefaultedSpecs(c)
    PROVE  setDefaultValues(c, d) = d
<1>1. PICK s \in Specs : d = setDefaultValues(c, s)
  BY DEF DefaultedSpecs
<1>2. s \in HigressControllerSpec
  BY SpecsAssumption
<1> DEFINE rbac == IF s.rbac = Nil THEN TRUE ELSE s.rbac
           account == IF s.serviceAccount = Nil THEN [enable |-> TRUE, name |-> c.name]
                      ELSE s.serviceAccount
           selector == IF s.selector = "" THEN s.controller.name ELSE s.selector
<1>3. d = [s EXCEPT !.rbac = rbac, !.serviceAccount = account, !.selector = selector]
  BY <1>1 DEF setDefaultValues
<1> HIDE DEF rbac, account, selector
<1>4. /\ d.rbac = rbac /\ d.serviceAccount = account /\ d.selector = selector
      /\ d.controller = s.controller
  BY <1>2, <1>3 DEF HigressControllerSpec
<1>5. (IF d.rbac = Nil THEN TRUE ELSE d.rbac) = d.rbac
  BY <1>4 DEF rbac
<1>6. (IF d.serviceAccount = Nil THEN [enable |-> TRUE, name |-> c.name] ELSE d.serviceAccount)
         = d.serviceAccount
  BY <1>4 DEF account
<1>7. (IF d.selector = "" THEN d.controller.name ELSE d.selector) = d.selector
  BY <1>4 DEF selector
<1>8. setDefaultValues(c, d) = [d EXCEPT !.rbac = d.rbac, !.serviceAccount = d.serviceAccount,
                                         !.selector = d.selector]
  BY <1>5, <1>6, <1>7 DEF setDefaultValues
<1>9. [d EXCEPT !.rbac = d.rbac, !.serviceAccount = d.serviceAccount, !.selector = d.selector] = d
  BY <1>2, <1>3 DEF HigressControllerSpec
<1> QED BY <1>8, <1>9

\* What Reconcile makes of a stored spec is a spec with its defaults.
LEMMA StoredIsDefaulted ==
    ASSUME NEW c \in Controllers, NEW s \in StoredSpecs(c)
    PROVE  setDefaultValues(c, s) \in DefaultedSpecs(c)
<1>1. CASE s \in Specs
  BY <1>1 DEF DefaultedSpecs
<1>2. CASE s \in DefaultedSpecs(c)
  BY <1>2, DefaultsAreIdempotent
<1> QED BY <1>1, <1>2 DEF StoredSpecs

-----------------------------------------------------------------------------
\* The steps of the worker.

\* A step after the finalizer keeps an object or writes the status.
LEMMA StepNames == EnsureSteps \subseteq ControllerSteps \cup ConsoleSteps \cup {"Status"}
<1> DEFINE S == ControllerSteps \cup ConsoleSteps \cup {"Status"}
<1>1. ControllerPass \in Seq(S)
  BY DEF ControllerPass, ControllerSteps, RBACSteps
<1>2. ConsolePass \in Seq(S)
  BY DEF ConsolePass, ConsoleSteps
<1>3. <<"Status">> \in Seq(S)
  OBVIOUS
<1> HIDE DEF S
<1>4. Pass \in Seq(S)
  BY <1>1, <1>2, <1>3 DEF Pass
<1> QED BY <1>4 DEF EnsureSteps, S

\* The steps before the finalizer and those of a deletion are others.
LEMMA StepsDiffer == {"idle", "namespace", "addFinalizer", "finalize", "removeFinalizer"}
                     \cap EnsureSteps = {}
<1>1. {"idle", "namespace", "addFinalizer", "finalize", "removeFinalizer"}
      \cap (ControllerSteps \cup ConsoleSteps \cup {"Status"}) = {}
  BY DEF ControllerSteps, ConsoleSteps, RBACSteps
<1> QED BY <1>1, StepNames

\* Reconcile goes on to a later step with the instance it is given, or returns.
LEMMA ContinueFacts ==
    ASSUME NEW copy, Continue(copy)
    PROVE  /\ Idle \/ (pc' \in EnsureSteps /\ req' = req /\ instance' = copy)
           /\ UNCHANGED queue
<1>1. CASE Later(pc) = {}
  BY <1>1 DEF Continue, Finish
<1>2. CASE Later(pc) # {}
  <2>1. PICK i \in Later(pc) : GoTo(Pass[i])
    BY <1>2 DEF Continue
  <2>2. Pass[i] \in EnsureSteps
    BY <2>1 DEF Later, EnsureSteps
  <2> QED BY <1>2, <2>1, <2>2 DEF Continue, GoTo
<1> QED BY <1>1, <1>2

OwnOwner == {Nil, Owner(req, uid)}

\* The accounts that a pass binds: that of its HigressController and that of the console.
OwnSubjects == {Subject(req, wanted), [name |-> <<wanted.console.name>>, ns |-> req.ns]}

\* A new content belongs to nobody or to the worker's own HigressController.
Ours(fresh) == "owner" \in DOMAIN fresh /\ fresh.owner \in OwnOwner

\* What a content is mutated to belongs to nobody or to whom it belonged to.
KeepsOwner(mutated, stored) ==
    "owner" \in DOMAIN stored =>
        "owner" \in DOMAIN mutated /\ mutated.owner \in {Nil, stored.owner}

\* What the worker may make of an object: a later version, created for nobody or
\* for its own HigressController, and bound to nobody but its own accounts.
WritesOwn(k, object) ==
    /\ Advances(objects[k], object)
    /\ ~Exists(objects[k]) /\ Exists(object) => Ours(object.content)
    /\ Exists(objects[k]) /\ Exists(object) => KeepsOwner(object.content, objects[k].content)
    /\ k.kind = "ClusterRoleBinding" /\ Exists(object) =>
          /\ "subjects" \in DOMAIN object.content
          /\ \A subject \in object.content.subjects \ OwnSubjects :
                Exists(objects[k]) /\ subject \in objects[k].content.subjects

\* A binding of its own accounts, and of those that are in another one.
BindsOwn(binding, others) ==
    /\ "subjects" \in DOMAIN binding
    /\ binding.subjects \subseteq others \cup OwnSubjects

\* A step that writes at most one object, with its events.
Sends == UNCHANGED <<objects, pending>> \/ \E k, object : Store(k, object)

\* All that the steps after the finalizer have in common, but for the status.
EnsureEffect ==
    /\ pc \in EnsureSteps
    /\ UNCHANGED <<controllers, terminating, controllerCache, objectCache>>
    /\ Sends
    /\ queue' \subseteq queue \cup {req}
    /\ DOMAIN objects' = Keys
    /\ \A k \in Keys : WritesOwn(k, objects'[k])
    /\ Idle \/ (pc' \in EnsureSteps /\ UNCHANGED <<req, instance>>)

\* What is left alone is written by nobody.
LEMMA WritesNothing ==
    ASSUME Typed, NEW k \in Keys PROVE WritesOwn(k, objects[k])
BY DEF Typed, WritesOwn, Advances, IsBinding, KeepsOwner

\* A step that sends nothing goes on or returns.
LEMMA SendNothingEffect ==
    ASSUME Typed, pc \in EnsureSteps,
           SendNothing(Continue(instance)) \/ SendNothing(Retry)
    PROVE  EnsureEffect
<1>1. UNCHANGED <<controllers, terminating, controllerCache, objects, objectCache, pending>>
  BY DEF SendNothing, serverVars, cacheVars
<1>2. /\ Idle \/ (pc' \in EnsureSteps /\ UNCHANGED <<req, instance>>)
      /\ queue' \subseteq queue \cup {req}
  BY ContinueFacts DEF SendNothing, Retry
<1>3. DOMAIN objects' = Keys /\ \A k \in Keys : WritesOwn(k, objects'[k])
  BY <1>1, WritesNothing DEF Typed
<1> QED BY <1>1, <1>2, <1>3 DEF EnsureEffect, Sends

\* A call for an object writes that object and goes on or returns.
LEMMA CallEffect ==
    ASSUME Typed, pc \in EnsureSteps, NEW k, NEW answer,
           k \in Keys => WritesOwn(k, answer.object),
           CallForObject(k, answer)
    PROVE  EnsureEffect
<1> DEFINE result == Admitted(k, answer)
<1>1. result.object = answer.object \/ result.object = objects[k]
  BY DEF Admitted
<1>2. /\ UNCHANGED <<controllers, terminating, controllerCache, objectCache>>
      /\ UNCHANGED <<objects, pending>> \/ Store(k, result.object)
      /\ Continue(instance) \/ Retry
  BY DEF CallForObject
<1> HIDE DEF result
<1>3. DOMAIN objects' = Keys
  BY <1>2 DEF Typed, Store
<1>4. ASSUME NEW l \in Keys PROVE WritesOwn(l, objects'[l])
  <2>1. objects'[l] = objects[l] \/ (l = k /\ objects'[l] = result.object)
    BY <1>2, <1>4 DEF Typed, Store
  <2> QED BY <1>1, <1>4, <2>1, WritesNothing
<1>5. /\ Idle \/ (pc' \in EnsureSteps /\ UNCHANGED <<req, instance>>)
      /\ queue' \subseteq queue \cup {req}
  BY <1>2, ContinueFacts DEF Retry
<1>6. Sends
  BY <1>2 DEF Sends
<1> QED BY <1>2, <1>3, <1>4, <1>5, <1>6 DEF EnsureEffect

\* Create writes an object only where there is none.
LEMMA CreateEffect ==
    ASSUME Typed, NEW k \in Keys, NEW fresh, Ours(fresh),
           k.kind = "ClusterRoleBinding" => BindsOwn(fresh, {})
    PROVE  WritesOwn(k, Create(objects[k], fresh).object)
<1>1. Create(objects[k], fresh).object =
         IF Exists(objects[k]) THEN objects[k] ELSE Written(objects[k], fresh)
  BY DEF Create, Answer
<1>2. objects[k].version \in Nat
  BY DEF Typed
<1>3. CASE Exists(objects[k])
  BY <1>1, <1>3, WritesNothing
<1>4. CASE ~Exists(objects[k])
  BY <1>1, <1>2, <1>4, WrittenFacts DEF WritesOwn, BindsOwn
<1> QED BY <1>3, <1>4

\* Update writes an object only where there is one, and this is the one it read.
LEMMA UpdateEffect ==
    ASSUME Typed, NEW k \in Keys, NEW mutated,
           k.kind = "ClusterRoleBinding" /\ Exists(Seen(k))
               /\ "subjects" \in DOMAIN Seen(k).content =>
                   BindsOwn(mutated, Seen(k).content.subjects),
           Exists(Seen(k)) => KeepsOwner(mutated, Seen(k).content)
    PROVE  WritesOwn(k, Update(objects[k], Seen(k), mutated).object)
<1> DEFINE answer == Update(objects[k], Seen(k), mutated)
<1>1. /\ answer.ok => /\ Exists(objects[k]) /\ objects[k].version = Seen(k).version
                      /\ answer.object = Written(objects[k], mutated)
      /\ ~answer.ok => answer.object = objects[k]
  BY UpdateFacts
<1>2. objects[k].version \in Nat
  BY DEF Typed
<1> HIDE DEF answer
<1>3. ASSUME answer.ok PROVE WritesOwn(k, answer.object)
  <2>1. Seen(k).content = objects[k].content
    BY <1>1, <1>3 DEF Seen, Typed, Follows
  <2>2. k.kind = "ClusterRoleBinding" => BindsOwn(mutated, objects[k].content.subjects)
    BY <1>1, <1>3, <2>1 DEF Typed, IsBinding, Exists
  <2>3. KeepsOwner(mutated, objects[k].content)
    BY <1>1, <1>3, <2>1 DEF Exists
  <2> QED BY <1>1, <1>2, <1>3, <2>2, <2>3, WrittenFacts DEF WritesOwn, BindsOwn
<1>4. ASSUME ~answer.ok PROVE WritesOwn(k, answer.object)
  BY <1>1, <1>4, WritesNothing
<1> QED BY <1>3, <1>4 DEF answer

\* CreateOrUpdate does the one or the other, or nothing.
LEMMA CreateOrUpdateEffect ==
    ASSUME Typed, pc \in EnsureSteps, NEW k, NEW fresh, NEW mutated, NEW forced \in BOOLEAN,
           Ours(fresh),
           Exists(Seen(k)) => KeepsOwner(mutated, Seen(k).content),
           k.kind = "ClusterRoleBinding" => BindsOwn(fresh, {}),
           k.kind = "ClusterRoleBinding" /\ Exists(Seen(k))
               /\ "subjects" \in DOMAIN Seen(k).content =>
                   BindsOwn(mutated, Seen(k).content.subjects),
           CallForObject(k, CreateOrUpdate(objects[k], Seen(k), fresh, mutated, forced))
    PROVE  EnsureEffect
<1> DEFINE answer == CreateOrUpdate(objects[k], Seen(k), fresh, mutated, forced)
<1>1. \/ answer.object = Create(objects[k], fresh).object
      \/ answer.object = Update(objects[k], Seen(k), mutated).object
      \/ answer.object = objects[k]
  BY DEF CreateOrUpdate
<1>2. CallForObject(k, answer)
  OBVIOUS
<1> HIDE DEF answer
<1>3. k \in Keys => WritesOwn(k, answer.object)
  BY <1>1, CreateEffect, UpdateEffect, WritesNothing
<1> QED BY <1>2, <1>3, CallEffect

-----------------------------------------------------------------------------
\* The steps after the finalizer, one by one.

\* The kind of a key is the kind of the object that the step keeps.
LEMMA KindFacts ==
    ASSUME NEW step \in (ControllerSteps \cup ConsoleSteps) \
                            {"ClusterRoleBinding", "ConsoleClusterRoleBinding"}
    PROVE  keyOf(step).kind # "ClusterRoleBinding"
BY DEF keyOf, KeyOf, Key, ControllerSteps, ConsoleSteps, RBACSteps

\* A worker that keeps an object is past the finalizer.
LEMMA AtStep ==
    ASSUME Typed, pc \in ControllerSteps \cup ConsoleSteps PROVE pc \in EnsureSteps
BY DEF Typed, WorkerTyped, Steps, ControllerSteps, ConsoleSteps, RBACSteps

\* CreateOrUpdate of an object that is no ClusterRoleBinding.
LEMMA PlainEffect ==
    ASSUME Typed, pc \in (ControllerSteps \cup ConsoleSteps) \
                            {"ClusterRoleBinding", "ConsoleClusterRoleBinding"},
           NEW fresh, Ours(fresh), NEW mutated,
           Exists(Seen(keyOf(pc))) => KeepsOwner(mutated, Seen(keyOf(pc)).content),
           CallForObject(keyOf(pc),
               CreateOrUpdate(objects[keyOf(pc)], Seen(keyOf(pc)), fresh, mutated, Forced(pc)))
    PROVE  EnsureEffect
<1>1. Forced(pc) \in BOOLEAN /\ pc \in EnsureSteps
  BY AtStep DEF Forced
<1>2. keyOf(pc).kind # "ClusterRoleBinding"
  BY KindFacts
<1> HIDE DEF Forced
<1> QED BY <1>1, <1>2, CreateOrUpdateEffect

\* createCRDs reads the server itself.
LEMMA EnsuresCRDs == ASSUME Typed, createCRDs PROVE EnsureEffect
<1>1. pc = "CRD" /\ pc \in EnsureSteps
  BY AtStep DEF createCRDs, ControllerSteps
<1>2. keyOf(pc).kind = "CRD"
  BY <1>1 DEF keyOf, KeyOf, Key
<1>3. Seen(keyOf(pc)) = objects[keyOf(pc)]
  BY <1>2, StepsAssumption DEF Seen
<1>4. CallForObject(keyOf(pc), CreateOrUpdate(objects[keyOf(pc)], Seen(keyOf(pc)),
                                              CRDContent, CRDContent, FALSE))
  BY <1>3 DEF createCRDs
<1>5. Ours(CRDContent) /\ \A stored : KeepsOwner(CRDContent, stored)
  BY DEF CRDContent, Ours, OwnOwner, KeepsOwner
<1> QED BY <1>1, <1>2, <1>4, <1>5, CreateOrUpdateEffect

\* createServiceAccount of the controller and of the console create only.
LEMMA EnsuresServiceAccounts ==
    ASSUME Typed, createServiceAccount \/ createConsoleServiceAccount PROVE EnsureEffect
<1>1. pc \in {"ServiceAccount", "ConsoleServiceAccount"} /\ pc \in EnsureSteps
  BY AtStep DEF createServiceAccount, createConsoleServiceAccount, ControllerSteps, ConsoleSteps
<1>2. keyOf(pc).kind # "ClusterRoleBinding"
  BY <1>1, KindFacts DEF ControllerSteps, ConsoleSteps
<1>3. PICK fresh \in {initServiceAccount(req, uid), initConsoleServiceAccount} :
         CallForObject(keyOf(pc), CreateIfNotExists(objects[keyOf(pc)], fresh))
  BY DEF createServiceAccount, createConsoleServiceAccount
<1>4. Ours(fresh)
  BY DEF initServiceAccount, initConsoleServiceAccount, Ours, OwnOwner
<1>5. CreateIfNotExists(objects[keyOf(pc)], fresh).object = Create(objects[keyOf(pc)], fresh).object
  BY DEF CreateIfNotExists
<1> QED BY <1>1, <1>2, <1>3, <1>4, <1>5, CreateEffect, CallEffect

\* The roles.
LEMMA EnsuresRoles ==
    ASSUME Typed, createClusterRole \/ createRole \/ createConsoleRole PROVE EnsureEffect
<1>1. pc \in {"ClusterRole", "Role", "ConsoleRole"}
  BY DEF createClusterRole, createRole, createConsoleRole
<1>2. PICK rules \in {defaultRules, consoleDefaultRules} :
         CreateOrUpdateObject(keyOf(pc), initRole(rules),
                              LAMBDA stored : [stored EXCEPT !.rules = rules])
  BY DEF createClusterRole, createRole, createConsoleRole
<1>3. PICK mutated :
         /\ Exists(Seen(keyOf(pc))) => mutated = [Seen(keyOf(pc)).content EXCEPT !.rules = rules]
         /\ CallForObject(keyOf(pc), CreateOrUpdate(objects[keyOf(pc)], Seen(keyOf(pc)),
                                                   initRole(rules), mutated, Forced(pc)))
  BY <1>2 DEF CreateOrUpdateObject
<1>4. Ours(initRole(rules))
  BY DEF initRole, Ours, OwnOwner
<1>5. Exists(Seen(keyOf(pc))) => KeepsOwner(mutated, Seen(keyOf(pc)).content)
  BY <1>3 DEF KeepsOwner
<1> QED BY <1>1, <1>3, <1>4, <1>5, PlainEffect DEF ControllerSteps, ConsoleSteps, RBACSteps

\* A binding with one subject more has its owner and its shape.
LEMMA WithSubjectFacts ==
    ASSUME NEW stored, NEW roleRef, NEW subject
    PROVE  /\ "subjects" \in DOMAIN stored =>
                 /\ "subjects" \in DOMAIN WithSubject(stored, roleRef, subject)
                 /\ WithSubject(stored, roleRef, subject).subjects = stored.subjects \cup {subject}
           /\ KeepsOwner(WithSubject(stored, roleRef, subject), stored)
           /\ Ours(WithSubject(NoBinding, roleRef, subject))
           /\ "subjects" \in DOMAIN NoBinding /\ NoBinding.subjects = {}
BY DEF WithSubject, NoBinding, KeepsOwner, Ours, OwnOwner

\* A binding with one of the worker's accounts more binds nobody else.
LEMMA WithSubjectBindsOwn ==
    ASSUME NEW stored, NEW roleRef, NEW subject \in OwnSubjects, "subjects" \in DOMAIN stored
    PROVE  BindsOwn(WithSubject(stored, roleRef, subject), stored.subjects)
BY WithSubjectFacts DEF BindsOwn

\* createClusterRoleBinding writes a binding.
LEMMA EnsuresClusterRoleBinding ==
    ASSUME Typed, createClusterRoleBinding PROVE EnsureEffect
<1> DEFINE k == keyOf(pc)
           roleRef == <<req.ns, wanted.controller.name>>
           fresh == WithSubject(NoBinding, roleRef, Subject(req, wanted))
           mutated == IF Exists(Seen(k))
                      THEN WithSubject(Seen(k).content, roleRef, Subject(req, wanted)) ELSE fresh
<1>1. pc \in EnsureSteps /\ Forced(pc) \in BOOLEAN
  BY AtStep DEF createClusterRoleBinding, ControllerSteps, RBACSteps, Forced
<1>2. CallForObject(k, CreateOrUpdate(objects[k], Seen(k), fresh, mutated, Forced(pc)))
  BY DEF createClusterRoleBinding, CreateOrUpdateObject, updateClusterRoleBinding
<1>3. Ours(fresh) /\ BindsOwn(fresh, {})
  BY WithSubjectFacts, WithSubjectBindsOwn DEF OwnSubjects
<1>4. Exists(Seen(k)) /\ "subjects" \in DOMAIN Seen(k).content =>
         BindsOwn(mutated, Seen(k).content.subjects)
  BY WithSubjectBindsOwn DEF OwnSubjects
<1>5. Exists(Seen(k)) => KeepsOwner(mutated, Seen(k).content)
  BY WithSubjectFacts
<1> HIDE DEF k, fresh, mutated, Forced
<1> QED BY <1>1, <1>2, <1>3, <1>4, <1>5, CreateOrUpdateEffect

\* The bindings of one namespace.
LEMMA EnsuresRoleBindings ==
    ASSUME Typed, createRoleBinding \/ createConsoleRoleBinding PROVE EnsureEffect
<1>1. pc \in {"RoleBinding", "ConsoleRoleBinding"}
  BY DEF createRoleBinding, createConsoleRoleBinding
<1>2. \E roleRef, subject, mutated :
         /\ Exists(Seen(keyOf(pc))) =>
               mutated = WithSubject(Seen(keyOf(pc)).content, roleRef, subject)
         /\ CallForObject(keyOf(pc),
               CreateOrUpdate(objects[keyOf(pc)], Seen(keyOf(pc)),
                              WithSubject(NoBinding, roleRef, subject), mutated, Forced(pc)))
  BY DEF createRoleBinding, createConsoleRoleBinding, CreateOrUpdateObject,
         updateRoleBinding, updateConsoleRoleBinding
<1> QED BY <1>1, <1>2, WithSubjectFacts, PlainEffect
        DEF ControllerSteps, ConsoleSteps, RBACSteps

\* The ConfigMaps.
LEMMA EnsuresConfigMaps ==
    ASSUME Typed, createConfigMap \/ createConsoleConfigMap PROVE EnsureEffect
<1>1. pc \in {"ConfigMap", "ConsoleConfigMap"}
  BY DEF createConfigMap, createConsoleConfigMap
<1> DEFINE seen == Seen(keyOf(pc)).content
<1>2. \E fresh \in {initGatewayConfigMap(req, wanted), initConsoleConfigMap(wanted)} :
      \E mutated, mesh :
         /\ Exists(Seen(keyOf(pc))) =>
               mutated \in {[seen EXCEPT !.mesh = mesh], updateConsoleConfigMapSpec(seen, wanted)}
         /\ CallForObject(keyOf(pc),
               CreateOrUpdate(objects[keyOf(pc)], Seen(keyOf(pc)), fresh, mutated, Forced(pc)))
  BY DEF createConfigMap, createConsoleConfigMap, CreateOrUpdateObject
<1>3. Ours(initGatewayConfigMap(req, wanted))
  BY DEF initGatewayConfigMap, Ours, OwnOwner
<1>4. Ours(initConsoleConfigMap(wanted))
  BY DEF initConsoleConfigMap, updateConsoleConfigMapSpec, Ours, OwnOwner
<1>5. /\ \A mesh : KeepsOwner([seen EXCEPT !.mesh = mesh], seen)
      /\ KeepsOwner(updateConsoleConfigMapSpec(seen, wanted), seen)
  BY DEF KeepsOwner, updateConsoleConfigMapSpec
<1> HIDE DEF seen
<1> QED BY <1>1, <1>2, <1>3, <1>4, <1>5, PlainEffect DEF ControllerSteps, ConsoleSteps, seen

\* The Services.
LEMMA EnsuresServices ==
    ASSUME Typed, createService \/ createConsoleService PROVE EnsureEffect
<1> DEFINE owner == Owner(req, uid)
           seen == Seen(keyOf(pc)).content
<1>1. pc \in {"Service", "ConsoleService"}
  BY DEF createService, createConsoleService
<1>2. \E fresh \in {initService(wanted, owner), initConsoleService(wanted, owner)} : \E mutated :
         /\ Exists(Seen(keyOf(pc))) => mutated \in {updateServiceSpec(seen, wanted),
                                                   updateConsoleServiceSpec(seen, wanted)}
         /\ CallForObject(keyOf(pc),
               CreateOrUpdate(objects[keyOf(pc)], Seen(keyOf(pc)), fresh, mutated, Forced(pc)))
  BY DEF createService, createConsoleService, CreateOrUpdateObject
<1>3. Ours(initService(wanted, owner))
  BY DEF initService, updateServiceSpec, Ours, OwnOwner
<1>4. Ours(initConsoleService(wanted, owner))
  BY DEF initConsoleService, updateConsoleServiceSpec, Ours, OwnOwner
<1>5. /\ KeepsOwner(updateServiceSpec(seen, wanted), seen)
      /\ KeepsOwner(updateConsoleServiceSpec(seen, wanted), seen)
  BY DEF KeepsOwner, updateServiceSpec, updateConsoleServiceSpec
<1> HIDE DEF seen
<1> QED BY <1>1, <1>2, <1>3, <1>4, <1>5, PlainEffect DEF ControllerSteps, ConsoleSteps, seen

\* createIngressClass creates, or goes on whatever it has read.
LEMMA EnsuresIngressClass == ASSUME Typed, createIngressClass PROVE EnsureEffect
<1>1. pc = "IngressClass" /\ pc \in EnsureSteps
  BY AtStep DEF createIngressClass, ControllerSteps
<1>2. keyOf(pc).kind # "ClusterRoleBinding"
  BY <1>1, KindFacts DEF ControllerSteps
<1>3. CASE SendNothing(Continue(instance))
  BY <1>1, <1>3, SendNothingEffect
<1>4. CASE CallForObject(keyOf(pc), Create(objects[keyOf(pc)], initIngressclass(req, wanted, uid)))
  <2>1. Ours(initIngressclass(req, wanted, uid))
    BY DEF initIngressclass, Ours, OwnOwner
  <2> QED BY <1>1, <1>2, <1>4, <2>1, CreateEffect, CallEffect
<1>5. CASE Continue(instance) /\ UNCHANGED <<serverVars, cacheVars>>
  <2>1. /\ Idle \/ (pc' \in EnsureSteps /\ UNCHANGED <<req, instance>>)
        /\ UNCHANGED queue
    BY <1>5, ContinueFacts
  <2> QED BY <1>1, <1>5, <2>1, WritesNothing
          DEF EnsureEffect, Sends, serverVars, cacheVars, Typed
<1> QED BY <1>3, <1>4, <1>5 DEF createIngressClass

\* An update of a Deployment keeps its owner.
LEMMA UpdateKeepsOwner ==
    ASSUME NEW c, NEW spec, NEW stored
    PROVE  /\ KeepsOwner(updateDeploymentSpec(c, spec, stored), stored)
           /\ KeepsOwner(updateConsoleDeploymentSpec(spec, stored), stored)
BY DEF updateDeploymentSpec, updateConsoleDeploymentSpec, KeepsOwner

\* A new Deployment belongs to the HigressController.
LEMMA NewDeployments ==
    ASSUME NEW spec
    PROVE  /\ Ours(initDeployment(req, spec, Owner(req, uid)))
           /\ Ours(initConsoleDeployment(spec, Owner(req, uid)))
<1> DEFINE new == [NoDeployment EXCEPT !.owner = Owner(req, uid)]
           once == updateDeploymentSpec(req, spec, new)
<1>1. Ours(new)
  BY DEF NoDeployment, Ours, OwnOwner
<1> HIDE DEF new
<1>2. Ours(once)
  BY <1>1, UpdateKeepsOwner DEF Ours, OwnOwner, KeepsOwner
<1>3. Ours(updateDeploymentSpec(req, spec, once))
  BY <1>2, UpdateKeepsOwner DEF Ours, OwnOwner, KeepsOwner
<1>4. Ours(updateConsoleDeploymentSpec(spec, new))
  BY <1>1, UpdateKeepsOwner DEF Ours, OwnOwner, KeepsOwner
<1> QED BY <1>3, <1>4 DEF new, initDeployment, initConsoleDeployment

\* The end of the process.
Stops == Restart /\ UNCHANGED serverVars

\* createDeployment writes the Deployment it has found or one of its own, or panics.
LEMMA EnsuresDeployment == ASSUME Typed, createDeployment PROVE EnsureEffect \/ Stops
<1> DEFINE fresh == initDeployment(req, wanted, Owner(req, uid))
<1>1. pc = "Deployment" /\ pc \in EnsureSteps /\ Forced(pc) \in BOOLEAN
  BY AtStep DEF createDeployment, ControllerSteps, Forced
<1>2. \/ Restart /\ UNCHANGED serverVars
      \/ SendNothing(Continue(instance))
      \/ SendNothing(Retry)
      \/ \E k \in {LookedUp(req, wanted), keyOf(pc)} : \E mutated :
            /\ Exists(Seen(k)) => mutated = updateDeploymentSpec(req, wanted, Seen(k).content)
            /\ CallForObject(k, CreateOrUpdate(objects[k], Seen(k), fresh, mutated, Forced(pc)))
  BY DEF createDeployment, CreateOrUpdateObject
<1>3. \A k \in {LookedUp(req, wanted), keyOf(pc)} : k.kind # "ClusterRoleBinding"
  BY <1>1, KindFacts DEF LookedUp, Key, ControllerSteps
<1>4. Ours(fresh)
  BY NewDeployments
<1> HIDE DEF fresh, Forced
<1>5. ASSUME NEW k \in {LookedUp(req, wanted), keyOf(pc)}, NEW mutated,
             Exists(Seen(k)) => mutated = updateDeploymentSpec(req, wanted, Seen(k).content),
             CallForObject(k, CreateOrUpdate(objects[k], Seen(k), fresh, mutated, Forced(pc)))
      PROVE  EnsureEffect
  BY <1>1, <1>3, <1>4, <1>5, UpdateKeepsOwner, CreateOrUpdateEffect
<1> QED BY <1>1, <1>2, <1>5, SendNothingEffect DEF Stops

\* The console's Deployment.
LEMMA EnsuresConsoleDeployment == ASSUME Typed, createConsoleDeployment PROVE EnsureEffect
<1>1. pc = "ConsoleDeployment"
  BY DEF createConsoleDeployment
<1>2. \E mutated :
         /\ Exists(Seen(keyOf(pc))) =>
               mutated = updateConsoleDeploymentSpec(wanted, Seen(keyOf(pc)).content)
         /\ CallForObject(keyOf(pc), CreateOrUpdate(objects[keyOf(pc)], Seen(keyOf(pc)),
               initConsoleDeployment(wanted, Owner(req, uid)), mutated, Forced(pc)))
  BY DEF createConsoleDeployment, CreateOrUpdateObject
<1>3. Ours(initConsoleDeployment(wanted, Owner(req, uid)))
  BY NewDeployments
<1> QED BY <1>1, <1>2, <1>3, UpdateKeepsOwner, PlainEffect DEF ConsoleSteps

\* The cluster-scoped objects of the console, which it only creates.
LEMMA EnsuresConsoleClusterRoles ==
    ASSUME Typed, createConsoleClusterRole \/ createConsoleClusterRoleBinding
    PROVE  EnsureEffect
<1> DEFINE binding == updateConsoleClusterRoleBinding(NoBinding, req, wanted)
<1>1. pc \in {"ConsoleClusterRole", "ConsoleClusterRoleBinding"} /\ pc \in EnsureSteps
  BY AtStep DEF createConsoleClusterRole, createConsoleClusterRoleBinding, ConsoleSteps
<1>2. \/ SendNothing(Retry)
      \/ pc = "ConsoleClusterRole"
            /\ CallForObject(keyOf(pc), Create(objects[keyOf(pc)], initRole(consoleDefaultRules)))
      \/ CallForObject(keyOf(pc), Create(objects[keyOf(pc)], binding))
  BY DEF createConsoleClusterRole, createConsoleClusterRoleBinding, CreateOnly
<1>3. Ours(binding) /\ BindsOwn(binding, {})
  BY WithSubjectFacts, WithSubjectBindsOwn DEF updateConsoleClusterRoleBinding, OwnSubjects
<1>4. Ours(initRole(consoleDefaultRules))
  BY DEF initRole, Ours, OwnOwner
<1>5. pc = "ConsoleClusterRole" => keyOf(pc).kind # "ClusterRoleBinding"
  BY KindFacts DEF ConsoleSteps
<1> HIDE DEF binding
<1> QED BY <1>1, <1>2, <1>3, <1>4, <1>5, SendNothingEffect, CreateEffect, CallEffect

-----------------------------------------------------------------------------
\* What the steps leave of the invariant.

\* The server moves forward, and copies stay or catch up.
Progress ==
    /\ DOMAIN controllers' = Controllers /\ DOMAIN controllerCache' = Controllers
    /\ \A c \in Controllers :
        /\ controllers'[c] \in Object(ControllerContent(StoredSpecs(c)))
        /\ Advances(controllers[c], controllers'[c])
        /\ controllerCache'[c] \in {controllerCache[c], controllers[c]}
    /\ DOMAIN objects' = Keys /\ DOMAIN objectCache' = Keys
    /\ \A k \in Keys :
        /\ Advances(objects[k], objects'[k])
        /\ objectCache'[k] \in {objectCache[k], objects[k]}
        /\ k.kind = "ClusterRoleBinding" /\ Exists(objects'[k]) =>
              "subjects" \in DOMAIN objects'[k].content

\* A HigressController that holds the finalizer keeps it, and its uid.
RegistrationsKeep ==
    \A c \in Controllers : Registered(c) =>
        Registered(c)' /\ controllers'[c].content.uid = controllers[c].content.uid

\* Nobody adds a subject.
BindingsKeep ==
    \A k \in Keys : k.kind = "ClusterRoleBinding" /\ Exists(objects'[k]) =>
        objects'[k] = objects[k]

BindsNobody ==
    \A k \in Keys : k.kind = "ClusterRoleBinding" /\ Exists(objects'[k]) =>
        Exists(objects[k]) /\ objects'[k].content.subjects \subseteq objects[k].content.subjects

\* The types stay while the server moves forward.
LEMMA TypedStays == ASSUME Typed, Progress, WorkerTyped' PROVE Typed'
<1>1. \A c \in Controllers : Follows(controllerCache'[c], controllers'[c])
                            /\ controllerCache'[c] \in Object(ControllerContent(StoredSpecs(c)))
  <2> SUFFICES ASSUME NEW c \in Controllers
               PROVE  /\ Follows(controllerCache'[c], controllers'[c])
                      /\ controllerCache'[c] \in Object(ControllerContent(StoredSpecs(c)))
    OBVIOUS
  <2>1. {controllers[c].version, controllerCache[c].version} \subseteq Nat
    BY DEF Typed, Object
  <2> QED BY <2>1 DEF Typed, Progress, Follows, Advances
<1>2. \A k \in Keys : Follows(objectCache'[k], objects'[k]) /\ objectCache'[k].version \in Nat
                      /\ objects'[k].version \in Nat
  BY DEF Typed, Progress, Follows, Advances
<1>3. \A k \in Keys : IsBinding(k)' => "subjects" \in DOMAIN objects'[k].content
  BY DEF Progress, IsBinding, Exists
<1> QED BY <1>1, <1>2, <1>3 DEF Typed, Progress

\* While registrations stay, what the informers show of a finalizer stays true.
LEMMA CacheStaysRight ==
    ASSUME CacheShowsFinalizer, Progress, RegistrationsKeep PROVE CacheShowsFinalizer'
<1> SUFFICES ASSUME NEW c \in Controllers,
                    Exists(controllerCache'[c]),
                    controllerCache'[c].content.finalizer,
                    ~controllerCache'[c].content.deleting
             PROVE  Registered(c)' /\ controllers'[c].content.uid = controllerCache'[c].content.uid
  BY DEF CacheShowsFinalizer, Exists
<1>1. CASE controllerCache'[c] = controllers[c]
  BY <1>1 DEF Registered, RegistrationsKeep, Exists
<1>2. CASE controllerCache'[c] = controllerCache[c]
  BY <1>2 DEF CacheShowsFinalizer, RegistrationsKeep
<1> QED BY <1>1, <1>2 DEF Progress

\* An idle worker is entitled to nothing and needs nothing.
LEMMA IdleIsRight ==
    ASSUME pc' = "idle"
    PROVE  WorkerTyped' /\ InstanceFollows' /\ WorkerIsEntitled' /\ SubjectIsDropped'
<1>1. pc' \notin Entering /\ pc' \notin Closing /\ pc' \notin EnsureSteps
  BY StepsDiffer DEF Entering, Closing
<1> QED BY <1>1 DEF WorkerTyped, Steps, InstanceFollows, WorkerIsEntitled, SubjectIsDropped

\* The binding that a spec names is one of the objects.
LEMMA BindingIsAKey ==
    ASSUME NEW c \in Controllers, NEW spec \in DefaultedSpecs(c)
    PROVE  /\ KeyOf("ClusterRoleBinding", c, spec) \in Keys
           /\ KeyOf("ClusterRoleBinding", c, spec).kind = "ClusterRoleBinding"
<1> DEFINE k == KeyOf("ClusterRoleBinding", c, spec)
<1>1. k \in KeysOf(c, Tracked)
  <2>1. "ClusterRoleBinding" \notin ConsoleSteps
    BY DEF ConsoleSteps
  <2>2. "ClusterRoleBinding" \in Tracked
    BY StepsAssumption
  <2> HIDE DEF k
  <2>3. \E step \in {s \in Tracked : s \in ConsoleSteps => HasConsole(spec)} :
           k = KeyOf(step, c, spec)
    BY <2>1, <2>2 DEF k
  <2> QED BY <2>3 DEF KeysOf
<1>2. k.kind = "ClusterRoleBinding"
  BY DEF KeyOf, Key
<1> QED BY <1>1, <1>2 DEF Keys

\* The facts every step of the worker starts from.
LEMMA WorkerFacts ==
    ASSUME Typed, pc # "idle"
    PROVE  /\ req \in Controllers
           /\ instance.version \in Nat
           /\ instance.content \in ControllerContent(DefaultedSpecs(req))
           /\ wanted \in DefaultedSpecs(req)
           /\ KeyOf("ClusterRoleBinding", req, wanted) \in Keys
           /\ KeyOf("ClusterRoleBinding", req, wanted).kind = "ClusterRoleBinding"
<1>1. req \in Controllers /\ instance \in Object(ControllerContent(DefaultedSpecs(req)))
      /\ Exists(instance)
  BY DEF Typed, WorkerTyped
<1>2. instance.version \in Nat /\ instance.content \in ControllerContent(DefaultedSpecs(req))
  BY <1>1 DEF Object, Exists
<1>3. wanted \in DefaultedSpecs(req)
  BY <1>2 DEF ControllerContent, wanted
<1> QED BY <1>1, <1>2, <1>3, BindingIsAKey

\* A step that leaves the worker and the bindings alone leaves the worker
\* entitled to what it is doing.
LEMMA WorkerStaysEntitled ==
    ASSUME Guarded, Progress, RegistrationsKeep, BindingsKeep, UNCHANGED workerVars
    PROVE  WorkerTyped' /\ InstanceFollows' /\ WorkerIsEntitled' /\ SubjectIsDropped'
<1>1. UNCHANGED <<pc, req, instance>>
  BY DEF workerVars
<1>2. WorkerTyped'
  BY <1>1 DEF Guarded, Typed, WorkerTyped, Exists
<1>3. CASE pc = "idle"
  BY <1>1, <1>3, IdleIsRight
<1>4. CASE pc # "idle"
  <2> DEFINE k == KeyOf("ClusterRoleBinding", req, wanted)
  <2>1. req \in Controllers /\ instance.version \in Nat
        /\ k \in Keys /\ k.kind = "ClusterRoleBinding"
    BY <1>4, WorkerFacts DEF Guarded
  <2>2. /\ {controllers[req].version, controllers'[req].version} \subseteq Nat
        /\ {controllerCache[req].version, controllerCache'[req].version} \subseteq Nat
        /\ Advances(controllers[req], controllers'[req])
        /\ controllerCache'[req] \in {controllerCache[req], controllers[req]}
        /\ controllerCache[req].version <= controllers[req].version
    BY <2>1 DEF Guarded, Typed, Progress, Object, Follows
  <2>3. wanted' = wanted /\ k' = k
    BY <1>1 DEF wanted
  <2>4. InstanceFollows'
    BY <1>1, <1>4, <2>1, <2>2, <2>3
    DEF InstanceFollows, Guarded, Advances, Exists, StoredSpec
  <2>5. WorkerIsEntitled'
    BY <1>1, <2>1, <2>2 DEF WorkerIsEntitled, Guarded, Advances, RegistrationsKeep
  <2>6. SubjectIsDropped'
    <3> HIDE DEF k
    <3>1. Exists(objects'[k]) => objects'[k] = objects[k]
      BY <2>1 DEF BindingsKeep
    <3> QED BY <1>1, <2>3, <3>1 DEF k, SubjectIsDropped, Guarded, Unbinds, Exists
  <2> QED BY <1>2, <2>4, <2>5, <2>6
<1> QED BY <1>3, <1>4

\* A bystander keeps the invariant.
LEMMA BystanderKeepsGuard ==
    ASSUME Guarded, Progress, RegistrationsKeep, (UNCHANGED workerVars /\ BindingsKeep) \/ Idle
    PROVE  Guarded'
<1>1. WorkerTyped' /\ InstanceFollows' /\ WorkerIsEntitled' /\ SubjectIsDropped'
  BY WorkerStaysEntitled, IdleIsRight DEF Idle
<1>2. Typed' /\ CacheShowsFinalizer'
  BY <1>1, TypedStays, CacheStaysRight DEF Guarded
<1> QED BY <1>1, <1>2 DEF Guarded

-----------------------------------------------------------------------------
\* Users, the cluster and crashes take no finalizer away and add no subject.

Bystander ==
    /\ Progress
    /\ RegistrationsKeep
    /\ (UNCHANGED workerVars /\ BindingsKeep) \/ Idle

\* What stays is a step forward.
LEMMA StandStill ==
    ASSUME Typed
    PROVE  /\ \A c \in Controllers : Advances(controllers[c], controllers[c])
           /\ \A k \in Keys : Advances(objects[k], objects[k])
           /\ UNCHANGED controllers => RegistrationsKeep
           /\ UNCHANGED objects => BindingsKeep
<1>1. \A c \in Controllers : Advances(controllers[c], controllers[c])
  <2> SUFFICES ASSUME NEW c \in Controllers PROVE Advances(controllers[c], controllers[c])
    OBVIOUS
  <2>1. controllers[c].version \in Nat
    BY DEF Typed, Object
  <2> QED BY <2>1 DEF Advances
<1>2. \A k \in Keys : Advances(objects[k], objects[k])
  BY DEF Typed, Advances
<1>3. UNCHANGED controllers => RegistrationsKeep
  BY DEF RegistrationsKeep, Registered, Exists
<1>4. UNCHANGED objects => BindingsKeep
  BY DEF BindingsKeep
<1> QED BY <1>1, <1>2, <1>3, <1>4

\* A step that writes nothing to the server makes progress, whatever is delivered.
LEMMA NothingWritten ==
    ASSUME Typed, UNCHANGED <<controllers, objects>>,
           DOMAIN controllerCache' = Controllers, DOMAIN objectCache' = Keys,
           \A c \in Controllers : controllerCache'[c] \in {controllerCache[c], controllers[c]},
           \A k \in Keys : objectCache'[k] \in {objectCache[k], objects[k]}
    PROVE  Progress /\ RegistrationsKeep /\ BindingsKeep
<1>1. \A k \in Keys : k.kind = "ClusterRoleBinding" /\ Exists(objects'[k]) =>
         "subjects" \in DOMAIN objects'[k].content
  BY DEF Typed, IsBinding
<1> QED BY <1>1, StandStill DEF Progress, Typed

\* A write of one resource makes progress.
LEMMA OneController ==
    ASSUME Typed, NEW c \in Controllers,
           NEW object \in Object(ControllerContent(StoredSpecs(c))),
           Advances(controllers[c], object),
           controllers' = [controllers EXCEPT ![c] = object],
           UNCHANGED <<objects, controllerCache, objectCache>>
    PROVE  Progress /\ BindingsKeep
<1>1. /\ DOMAIN controllers' = Controllers
      /\ \A d \in Controllers : controllers'[d] = IF d = c THEN object ELSE controllers[d]
  BY DEF Typed
<1>2. \A d \in Controllers : /\ controllers'[d] \in Object(ControllerContent(StoredSpecs(d)))
                             /\ Advances(controllers[d], controllers'[d])
  BY <1>1, StandStill DEF Typed
<1>3. \A k \in Keys : k.kind = "ClusterRoleBinding" /\ Exists(objects'[k]) =>
         "subjects" \in DOMAIN objects'[k].content
  BY DEF Typed, IsBinding
<1> QED BY <1>1, <1>2, <1>3, StandStill DEF Progress, Typed

\* Who leaves the finalizer and the uid of a registered resource alone is a bystander.
LEMMA SetControllerKeeps ==
    ASSUME Typed, NEW c \in Controllers,
           NEW content \in ControllerContent(StoredSpecs(c)) \cup {Nothing},
           Registered(c) => /\ content # Nothing
                            /\ content.finalizer
                            /\ content.uid = controllers[c].content.uid,
           SetController(c, content), UNCHANGED <<controllerCache, objectCache, workerVars>>
    PROVE  Bystander
<1> DEFINE object == Written(controllers[c], content)
<1>1. object \in Object(ControllerContent(StoredSpecs(c)))
  BY WrittenType DEF Typed
<1>2. object.content = content /\ Advances(controllers[c], object)
  BY WrittenFacts DEF Typed, Object
<1>3. controllers' = [controllers EXCEPT ![c] = object] /\ UNCHANGED objects
  BY DEF SetController
<1> HIDE DEF object
<1>4. Progress /\ BindingsKeep
  BY <1>1, <1>2, <1>3, OneController
<1>5. RegistrationsKeep
  <2>1. \A d \in Controllers : controllers'[d] = IF d = c THEN object ELSE controllers[d]
    BY <1>3 DEF Typed
  <2> QED BY <1>2, <2>1 DEF RegistrationsKeep, Registered, Exists
<1> QED BY <1>4, <1>5 DEF Bystander

\* Who removes an object, or edits one that is no binding, is a bystander.
LEMMA SetObjectKeeps ==
    ASSUME Typed, NEW k \in Keys, NEW content,
           content = Nothing \/ k.kind # "ClusterRoleBinding",
           SetObject(k, Written(objects[k], content)),
           UNCHANGED <<controllerCache, objectCache, workerVars>>
    PROVE  Bystander
<1> DEFINE object == Written(objects[k], content)
<1>1. object.content = content /\ Advances(objects[k], object)
  BY WrittenFacts DEF Typed
<1>2. objects' = [objects EXCEPT ![k] = object] /\ UNCHANGED controllers
  BY DEF SetObject, Store
<1> HIDE DEF object
<1>3. /\ DOMAIN objects' = Keys
      /\ \A l \in Keys : objects'[l] = IF l = k THEN object ELSE objects[l]
  BY <1>2 DEF Typed
<1>4. BindingsKeep
  BY <1>1, <1>3 DEF BindingsKeep, Exists
<1>5. \A l \in Keys : l.kind = "ClusterRoleBinding" /\ Exists(objects'[l]) =>
         "subjects" \in DOMAIN objects'[l].content
  BY <1>4 DEF BindingsKeep, Typed, IsBinding
<1>6. \A l \in Keys : Advances(objects[l], objects'[l])
  BY <1>1, <1>3, StandStill
<1> QED BY <1>2, <1>3, <1>4, <1>5, <1>6, StandStill DEF Bystander, Progress, Typed

\* Who deletes a resource is a bystander: one that holds the finalizer is only marked.
LEMMA DeletionKeeps ==
    ASSUME Typed, NEW c \in Controllers, Exists(controllers[c]),
           SetController(c, Deletion(controllers[c].content)),
           UNCHANGED <<controllerCache, objectCache, workerVars>>
    PROVE  Bystander
<1> DEFINE before == controllers[c].content
           content == Deletion(before)
<1>1. before \in ControllerContent(StoredSpecs(c))
  BY DEF Typed, Object, Exists
<1>2. before.finalizer => /\ content \in ControllerContent(StoredSpecs(c))
                          /\ content.finalizer
                          /\ content.uid = before.uid
  BY <1>1 DEF Deletion, ControllerContent
<1>3. ~before.finalizer => content = Nothing
  BY DEF Deletion
<1>4. SetController(c, content)
  OBVIOUS
<1> HIDE DEF content
<1>5. content \in ControllerContent(StoredSpecs(c)) \cup {Nothing}
  BY <1>2, <1>3
<1>6. Registered(c) => /\ content # Nothing
                       /\ content.finalizer
                       /\ content.uid = controllers[c].content.uid
  BY <1>2, NothingAssumption DEF Registered
<1> QED BY <1>4, <1>5, <1>6, SetControllerKeeps

\* Users, informers, garbage collector, namespace controller and crashes are bystanders.
LEMMA EnvironmentKeeps ==
    ASSUME Typed, User \/ Cluster \/ Crash PROVE Bystander
<1>1. ASSUME NEW c \in Controllers, NEW manifest \in Specs, CreateController(c, manifest)
      PROVE  Bystander
  <2> DEFINE content == [uid |-> controllers[c].version + 1, deleting |-> FALSE,
                         finalizer |-> FALSE, deployed |-> FALSE, spec |-> manifest]
  <2>1. content \in ControllerContent(StoredSpecs(c))
    BY DEF Typed, Object, ControllerContent, StoredSpecs
  <2>2. SetController(c, content) /\ UNCHANGED <<controllerCache, objectCache, workerVars>>
        /\ ~Registered(c)
    BY <1>1 DEF CreateController, Change, Registered
  <2> HIDE DEF content
  <2> QED BY <2>1, <2>2, SetControllerKeeps
<1>2. ASSUME NEW c \in Controllers, NEW manifest \in Specs, UpdateController(c, manifest)
      PROVE  Bystander
  <2> DEFINE content == [controllers[c].content EXCEPT !.spec = manifest]
  <2>1. controllers[c].content \in ControllerContent(StoredSpecs(c))
    BY <1>2 DEF UpdateController, Typed, Object, Exists
  <2>2. content \in ControllerContent(StoredSpecs(c))
    BY <2>1 DEF ControllerContent, StoredSpecs
  <2>3. Registered(c) => content.finalizer /\ content.uid = controllers[c].content.uid
    BY <2>1 DEF Registered, ControllerContent
  <2>4. SetController(c, content) /\ UNCHANGED <<controllerCache, objectCache, workerVars>>
    BY <1>2 DEF UpdateController, Change
  <2> HIDE DEF content
  <2> QED BY <2>2, <2>3, <2>4, NothingAssumption, SetControllerKeeps
<1>3. ASSUME NEW c \in Controllers, DeleteController(c) \/ EvictController(c) PROVE Bystander
  BY <1>3, DeletionKeeps DEF DeleteController, EvictController, Live, Change
<1>4. ASSUME NEW c \in Controllers, TerminateNamespace(c.ns) PROVE Bystander
  BY <1>4, NothingWritten DEF TerminateNamespace, Change, Bystander, Typed
<1>5. ASSUME NEW k \in Keys, DriftObject(k) \/ CollectGarbage(k) \/ EvictObject(k)
      PROVE  Bystander
  <2>1. UNCHANGED <<controllerCache, objectCache, workerVars>>
    BY <1>5 DEF DriftObject, CollectGarbage, EvictObject, Change
  <2>2. \/ SetObject(k, Written(objects[k], Nothing))
        \/ k.kind = "CRD" /\ SetObject(k, Written(objects[k], EditedCRD))
    BY <1>5 DEF DriftObject, CollectGarbage, EvictObject, Removed
  <2> QED BY <2>1, <2>2, SetObjectKeeps
<1>6. ASSUME NEW c \in Controllers, DeliverController(c) PROVE Bystander
  BY <1>6, NothingWritten DEF DeliverController, serverVars, Bystander, Typed
<1>7. ASSUME NEW k \in Keys, DeliverObject(k) PROVE Bystander
  BY <1>7, NothingWritten DEF DeliverObject, serverVars, Bystander, Typed
<1>8. CASE Crash
  BY <1>8, NothingWritten DEF Crash, Restart, serverVars, Bystander, Typed
<1> QED BY <1>1, <1>2, <1>3, <1>4, <1>5, <1>6, <1>7, <1>8 DEF User, Cluster

-----------------------------------------------------------------------------
\* The steps of the worker keep the invariant.

\* The worker goes on with the copy it has.
WorkerMoves ==
    /\ UNCHANGED <<controllers, controllerCache, req, instance>>
    /\ \/ pc \in Entering /\ pc' = "addFinalizer"
       \/ pc \in Entering /\ pc' \in EnsureSteps /\ instance.content.finalizer
       \/ pc = "finalize" /\ pc' = "removeFinalizer"

\* A worker that goes on is entitled to the next step.
LEMMA MovesKeepGuard ==
    ASSUME Guarded, Progress, WorkerMoves, SubjectIsDropped' PROVE Guarded'
<1>1. pc # "idle" /\ (pc' \in EnsureSteps => pc' \notin Closing) /\ pc' \in Steps
  BY StepsDiffer DEF WorkerMoves, Entering, Closing, Steps
<1>2. WorkerTyped'
  BY <1>1 DEF WorkerMoves, Guarded, Typed, WorkerTyped, Exists
<1>3. InstanceFollows'
  BY <1>1 DEF WorkerMoves, Guarded, InstanceFollows, Exists, StoredSpec, wanted
<1>4. WorkerIsEntitled'
  <2>1. CASE pc \in Entering /\ pc' \in {"addFinalizer"} \cup EnsureSteps
    <3>1. pc' \in Entering /\ pc' \notin Closing
      BY <2>1, <1>1 DEF Entering, Closing
    <3>2. pc' \in EnsureSteps => instance.content.finalizer
      BY <2>1, StepsDiffer DEF WorkerMoves
    <3> QED BY <2>1, <3>1, <3>2
            DEF WorkerMoves, Guarded, WorkerIsEntitled, Registered, Exists
  <2>2. CASE pc = "finalize" /\ pc' = "removeFinalizer"
    <3>1. pc \in Closing /\ pc' \notin Entering /\ pc' \notin EnsureSteps
      BY <2>2, StepsDiffer DEF Entering, Closing
    <3> QED BY <2>2, <3>1 DEF WorkerMoves, Guarded, WorkerIsEntitled
  <2> QED BY <2>1, <2>2 DEF WorkerMoves
<1>5. Typed' /\ CacheShowsFinalizer'
  BY <1>2, TypedStays, CacheStaysRight, StandStill DEF Guarded, WorkerMoves
<1> QED BY <1>2, <1>3, <1>4, <1>5 DEF Guarded

\* Only between the two calls of a deletion is there a subject to have dropped.
LEMMA NothingToDrop == ASSUME pc' # "removeFinalizer" PROVE SubjectIsDropped'
BY DEF SubjectIsDropped

\* Reconcile: the pass that starts is entitled to what it reads.
LEMMA ReconcileGuard ==
    ASSUME Guarded, NEW c \in Controllers, Reconcile(c) PROVE Guarded'
<1> DEFINE read == controllerCache[c]
           ready == [read EXCEPT !.content.spec = setDefaultValues(c, @)]
<1>1. UNCHANGED <<controllers, controllerCache, objects, objectCache>>
  BY DEF Reconcile, serverVars, cacheVars
<1>2. Progress /\ RegistrationsKeep /\ BindingsKeep
  BY <1>1, NothingWritten DEF Guarded, Typed
<1>3. CASE UNCHANGED workerVars
  BY <1>2, <1>3, BystanderKeepsGuard
<1>4. CASE /\ Exists(read)
           /\ req' = c
           /\ instance' = ready
           /\ pc' = IF read.content.deleting THEN "finalize" ELSE "namespace"
  <2>1. read \in Object(ControllerContent(StoredSpecs(c)))
    BY DEF Guarded, Typed
  <2>2. read.content \in ControllerContent(StoredSpecs(c)) /\ read.version \in Nat
    BY <2>1, <1>4 DEF Object, Exists
  <2> DEFINE spec == setDefaultValues(c, read.content.spec)
             content == [read.content EXCEPT !.spec = spec]
  <2>3. spec \in DefaultedSpecs(c)
    BY <2>2, StoredIsDefaulted DEF ControllerContent
  <2>4. ready = [read EXCEPT !.content = content]
    BY <2>1, <2>2 DEF Object, ControllerContent
  <2> HIDE DEF spec
  <2>5. /\ content \in ControllerContent(DefaultedSpecs(c))
        /\ content.spec = spec
        /\ content.uid = read.content.uid
        /\ content.finalizer = read.content.finalizer
        /\ content.deleting = read.content.deleting
    BY <2>2, <2>3 DEF ControllerContent
  <2>6. content # Nothing
    <3>1. content \in ControllerContent(StoredSpecs(c))
      BY <2>5 DEF ControllerContent, StoredSpecs
    <3> QED BY <3>1, NothingAssumption
  <2> HIDE DEF content
  <2>7. /\ instance'.version = read.version
        /\ instance'.content = content
        /\ instance' \in Object(ControllerContent(DefaultedSpecs(c)))
    BY <1>4, <2>1, <2>4, <2>5 DEF Object
  <2>8. pc' \in {"finalize", "namespace"}
    BY <1>4
  <2>9. WorkerTyped'
    BY <1>4, <2>6, <2>7, <2>8 DEF WorkerTyped, Exists, Steps
  <2>10. Follows(read, controllers[c])
    BY DEF Guarded, Typed
  <2>11. InstanceFollows'
    <3>1. wanted' = spec
      BY <2>5, <2>7 DEF wanted
    <3>2. read.content = controllers[c].content => StoredSpec(c) = spec
      BY DEF StoredSpec, spec
    <3>3. StoredSpec(req)' = StoredSpec(c)
      BY <1>1, <1>4 DEF StoredSpec
    <3>4. controllers'[req'] = controllers[c]
      BY <1>1, <1>4
    <3> QED BY <1>4, <2>5, <2>7, <2>10, <3>1, <3>2, <3>3, <3>4
            DEF InstanceFollows, Follows, Exists
  <2>12. WorkerIsEntitled'
    <3>1. read.content.finalizer /\ ~read.content.deleting =>
             Registered(c) /\ controllers[c].content.uid = read.content.uid
      BY <1>4 DEF Guarded, CacheShowsFinalizer
    <3>2. Registered(c)' <=> Registered(c)
      BY <1>1 DEF Registered, Exists
    <3>3. pc' \notin EnsureSteps
      BY <2>8, StepsDiffer
    <3>4. read.content.deleting \in BOOLEAN
      BY <2>2 DEF ControllerContent
    <3>5. CASE read.content.deleting
      <4>1. pc' \notin Entering
        BY <1>4, <3>3, <3>5 DEF Entering
      <4>2. instance'.version <= controllerCache'[req'].version
        BY <1>1, <1>4, <2>2, <2>7
      <4> QED BY <2>5, <2>7, <3>3, <3>5, <4>1, <4>2 DEF WorkerIsEntitled
    <3>6. CASE ~read.content.deleting
      <4>1. pc' \notin Closing
        BY <1>4, <3>6 DEF Closing
      <4> QED BY <1>1, <1>4, <2>5, <2>7, <3>1, <3>2, <3>3, <3>6, <4>1
              DEF WorkerIsEntitled, Registered, Exists
    <3> QED BY <3>4, <3>5, <3>6
  <2>13. SubjectIsDropped'
    BY <2>8, NothingToDrop
  <2>14. Typed' /\ CacheShowsFinalizer'
    BY <1>2, <2>9, TypedStays, CacheStaysRight DEF Guarded
  <2> QED BY <2>11, <2>12, <2>13, <2>14 DEF Guarded
<1> QED BY <1>3, <1>4 DEF Reconcile

\* checkNamespace: only an instance that has the finalizer skips addFinalizer.
LEMMA NamespaceGuard == ASSUME Guarded, checkNamespace PROVE Guarded'
<1>1. Progress /\ RegistrationsKeep
  BY NothingWritten DEF checkNamespace, serverVars, cacheVars, Guarded, Typed
<1>2. CASE Idle
  BY <1>1, <1>2, BystanderKeepsGuard
<1>3. CASE ~Idle
  <2>1. /\ pc = "namespace"
        /\ UNCHANGED <<controllers, controllerCache, req, instance>>
        /\ \/ pc' \in EnsureSteps /\ instance.content.finalizer
           \/ pc' = "addFinalizer"
    BY <1>3, ContinueFacts
    DEF checkNamespace, NeedsFinalizer, Finish, GoTo, serverVars, cacheVars
  <2>2. pc \in Entering /\ pc' # "removeFinalizer"
    BY <2>1, StepsDiffer DEF Entering
  <2> QED BY <1>1, <2>1, <2>2, MovesKeepGuard, NothingToDrop DEF WorkerMoves
<1> QED BY <1>2, <1>3

\* What the steps after the finalizer write is progress.
LEMMA EnsureProgress == ASSUME Typed, EnsureEffect PROVE Progress /\ RegistrationsKeep
<1>1. \A k \in Keys : Advances(objects[k], objects'[k])
                      /\ (k.kind = "ClusterRoleBinding" /\ Exists(objects'[k]) =>
                             "subjects" \in DOMAIN objects'[k].content)
  BY DEF EnsureEffect, WritesOwn
<1> QED BY <1>1, StandStill DEF EnsureEffect, Progress, Typed

\* The create* steps write objects and leave the registration alone.
LEMMA EnsureGuard == ASSUME Guarded, EnsureEffect PROVE Guarded'
<1>1. Progress /\ RegistrationsKeep
  BY EnsureProgress DEF Guarded
<1>2. CASE Idle
  BY <1>1, <1>2, BystanderKeepsGuard
<1>3. CASE pc' \in EnsureSteps /\ UNCHANGED <<req, instance>>
  <2>1. pc \in Entering /\ instance.content.finalizer /\ pc' # "removeFinalizer"
    BY <1>3, StepsDiffer DEF EnsureEffect, Guarded, WorkerIsEntitled, Entering
  <2> QED BY <1>1, <1>3, <2>1, MovesKeepGuard, NothingToDrop DEF WorkerMoves, EnsureEffect
<1> QED BY <1>2, <1>3 DEF EnsureEffect

\* The process that panics starts anew.
LEMMA StopsGuard == ASSUME Guarded, Stops PROVE Guarded'
<1>1. Progress /\ RegistrationsKeep
  BY NothingWritten DEF Stops, Restart, serverVars, Guarded, Typed
<1> QED BY <1>1, BystanderKeepsGuard DEF Stops, Restart

\* What finalizeHigressController may do: rewrite objects that exist, and go on
\* only when the subject is dropped; nobody is bound.
FinalizeEffect ==
    /\ UNCHANGED <<controllers, terminating, controllerCache, objectCache>>
    /\ Sends
    /\ queue' \subseteq queue \cup {req}
    /\ DOMAIN objects' = Keys
    /\ \A k \in Keys : /\ WritesOwn(k, objects'[k])
                       /\ ~Exists(objects[k]) => objects'[k] = objects[k]
    /\ BindsNobody
    /\ \/ Idle
       \/ pc' = "removeFinalizer" /\ UNCHANGED <<req, instance>> /\ SubjectIsDropped'

\* finalizeHigressController goes on with the subject out of the binding.
LEMMA FinalizeFacts ==
    ASSUME Guarded, finalizeHigressController PROVE pc = "finalize" /\ FinalizeEffect
<1> DEFINE k == keyOf("ClusterRoleBinding")
           name == <<getServiceAccount(req, wanted)>>
           kept == {s \in Seen(k).content.subjects : s.name # name \/ s.ns # req.ns}
           mutated == [Seen(k).content EXCEPT !.subjects = kept]
           result == Update(objects[k], Seen(k), mutated)
<1>1. /\ pc = "finalize" /\ pc # "idle"
      /\ UNCHANGED <<controllers, terminating, controllerCache, objectCache>>
  BY DEF finalizeHigressController
<1>2. req \in Controllers /\ k \in Keys /\ k.kind = "ClusterRoleBinding"
  BY <1>1, WorkerFacts DEF Guarded, keyOf
<1>3. \/ Idle /\ objects' \in {objects, [objects EXCEPT ![k] = result.object]}
      \/ /\ pc' = "removeFinalizer" /\ UNCHANGED <<req, instance>>
         /\ \/ ~Unbinds /\ UNCHANGED objects
            \/ result.ok /\ objects' = [objects EXCEPT ![k] = result.object]
  BY DEF finalizeHigressController, Store, BindingNotFound, Retry, GoTo
<1>13. Sends /\ queue' \subseteq queue \cup {req}
  <2>1. UNCHANGED <<objects, pending>> \/ Store(k, result.object)
    BY DEF finalizeHigressController
  <2>2. UNCHANGED queue \/ Retry
    BY DEF finalizeHigressController, GoTo, BindingNotFound
  <2> QED BY <2>1, <2>2 DEF Sends, Retry
<1>4. /\ "subjects" \in DOMAIN Seen(k).content => BindsOwn(mutated, Seen(k).content.subjects)
      /\ KeepsOwner(mutated, Seen(k).content)
  BY DEF BindsOwn, KeepsOwner
<1> HIDE DEF mutated
<1>5. WritesOwn(k, result.object)
  BY <1>2, <1>4, UpdateEffect DEF Guarded
<1>6. /\ result.ok => /\ Exists(objects[k]) /\ objects[k].version = Seen(k).version
                      /\ result.object = Written(objects[k], mutated)
      /\ ~result.ok => result.object = objects[k]
      /\ result.ok \in BOOLEAN
  BY UpdateFacts
<1>7. /\ DOMAIN objects = Keys /\ objects[k].version \in Nat
      /\ IsBinding(k) => "subjects" \in DOMAIN objects[k].content
  BY <1>2 DEF Guarded, Typed
<1>8. Seen(k).version = objects[k].version => Seen(k).content = objects[k].content
  BY <1>2 DEF Guarded, Typed, Follows, Seen
<1> HIDE DEF result, k
<1>9. DOMAIN objects' = Keys
  BY <1>3, <1>7
<1>10. ASSUME NEW l \in Keys
       PROVE  WritesOwn(l, objects'[l]) /\ (~Exists(objects[l]) => objects'[l] = objects[l])
  <2>1. objects'[l] = objects[l] \/ (l = k /\ objects'[l] = result.object)
    BY <1>3, <1>7, <1>10
  <2> QED BY <1>5, <1>6, <1>10, <2>1, WritesNothing DEF Guarded
<1>11. ASSUME pc' = "removeFinalizer", UNCHANGED <<req, instance>>,
              \/ ~Unbinds /\ UNCHANGED objects
              \/ result.ok /\ objects' = [objects EXCEPT ![k] = result.object]
       PROVE  SubjectIsDropped'
  <2>1. wanted' = wanted /\ (Unbinds' <=> Unbinds)
    BY <1>11 DEF wanted, Unbinds
  <2>2. CASE ~Unbinds
    BY <2>1, <2>2 DEF SubjectIsDropped
  <2>3. CASE result.ok /\ objects' = [objects EXCEPT ![k] = result.object]
    <3>1. objects'[k].content = mutated
      BY <1>2, <1>6, <1>7, <2>3, WrittenFacts
    <3>2. "subjects" \in DOMAIN Seen(k).content
      BY <1>2, <1>6, <1>7, <1>8, <2>3 DEF IsBinding
    <3>3. mutated.subjects = kept
      BY <3>2 DEF mutated
    <3>4. Subject(req, wanted) \notin kept
      BY DEF Subject
    <3>5. k = KeyOf("ClusterRoleBinding", req, wanted)
      BY DEF k, keyOf
    <3> HIDE DEF kept
    <3> QED BY <1>11, <2>1, <3>1, <3>3, <3>4, <3>5 DEF SubjectIsDropped
  <2> QED BY <1>11, <2>2, <2>3
<1>12. BindsNobody
  <2> SUFFICES ASSUME NEW l \in Keys, l.kind = "ClusterRoleBinding", Exists(objects'[l])
               PROVE  /\ Exists(objects[l])
                      /\ objects'[l].content.subjects \subseteq objects[l].content.subjects
    BY DEF BindsNobody
  <2>1. CASE objects'[l] = objects[l]
    BY <2>1
  <2>2. CASE l = k /\ result.ok /\ objects'[l] = result.object
    <3>1. Exists(objects[k]) /\ objects'[k].content = mutated
      BY <1>6, <1>7, <2>2, WrittenFacts
    <3>2. "subjects" \in DOMAIN objects[k].content /\ Seen(k).content = objects[k].content
      BY <1>2, <1>6, <1>7, <1>8, <2>2, <3>1 DEF IsBinding
    <3>3. mutated.subjects \subseteq objects[k].content.subjects
      BY <3>2 DEF mutated
    <3> QED BY <2>2, <3>1, <3>3
  <2> QED BY <1>3, <1>6, <1>7, <2>1, <2>2
<1> QED BY <1>1, <1>3, <1>9, <1>10, <1>11, <1>12, <1>13 DEF FinalizeEffect

\* finalizeHigressController leaves the registration alone.
LEMMA FinalizeGuard == ASSUME Guarded, finalizeHigressController PROVE Guarded'
<1>1. pc = "finalize" /\ FinalizeEffect
  BY FinalizeFacts
<1>2. \A k \in Keys : Advances(objects[k], objects'[k])
                      /\ (k.kind = "ClusterRoleBinding" /\ Exists(objects'[k]) =>
                             "subjects" \in DOMAIN objects'[k].content)
  BY <1>1 DEF FinalizeEffect, WritesOwn
<1>3. Progress /\ RegistrationsKeep
  BY <1>1, <1>2, StandStill DEF FinalizeEffect, Progress, Guarded, Typed
<1>4. CASE Idle
  BY <1>3, <1>4, BystanderKeepsGuard
<1>5. CASE pc' = "removeFinalizer" /\ UNCHANGED <<req, instance>> /\ SubjectIsDropped'
  BY <1>1, <1>3, <1>5, MovesKeepGuard DEF WorkerMoves, FinalizeEffect
<1> QED BY <1>1, <1>4, <1>5 DEF FinalizeEffect

\* A call for the resource that is reconciled, as far as the server sees it.
WritesController(answer) ==
    /\ controllers' \in {controllers, [controllers EXCEPT ![req] = answer.object]}
    /\ UNCHANGED <<objects, controllerCache, objectCache>>

\* An update of the resource makes progress.
LEMMA ControllerProgress ==
    ASSUME Typed, req \in Controllers, NEW content,
           Exists(controllers[req]) =>
               content \in ControllerContent(StoredSpecs(req)) \cup {Nothing},
           WritesController(Update(controllers[req], instance, content))
    PROVE  Progress /\ BindingsKeep
<1> DEFINE answer == Update(controllers[req], instance, content)
           V == ControllerContent(StoredSpecs(req))
<1>1. controllers[req] \in Object(V) /\ controllers[req].version \in Nat
  BY DEF Typed, Object
<1>2. /\ answer.ok => Exists(controllers[req])
                      /\ answer.object = Written(controllers[req], content)
      /\ ~answer.ok => answer.object = controllers[req]
  BY UpdateFacts
<1>3. Exists(controllers[req]) => content \in V \cup {Nothing}
  OBVIOUS
<1>4. WritesController(answer)
  OBVIOUS
<1> HIDE DEF answer, V
<1>5. answer.object \in Object(V)
  BY <1>1, <1>2, <1>3, WrittenType
<1>6. Advances(controllers[req], answer.object)
  BY <1>1, <1>2, WrittenFacts, StandStill
<1>7. CASE controllers' = controllers
  BY <1>4, <1>7, NothingWritten DEF WritesController, Typed
<1>8. CASE controllers' = [controllers EXCEPT ![req] = answer.object]
  BY <1>4, <1>5, <1>6, <1>8, OneController DEF WritesController, V
<1> QED BY <1>4, <1>7, <1>8 DEF WritesController

\* addFinalizer: the update is refused unless the instance is the stored resource.
LEMMA AddFinalizerGuard ==
    ASSUME Guarded, addFinalizer PROVE Guarded' /\ RegistrationsKeep
<1> DEFINE content == [instance.content EXCEPT !.finalizer = TRUE]
           answer == Update(controllers[req], instance, content)
           V == ControllerContent(StoredSpecs(req))
<1>1. pc = "addFinalizer" /\ pc # "idle" /\ pc \in Entering
  BY DEF addFinalizer, Entering
<1>2. /\ req \in Controllers /\ controllers[req] \in Object(V)
      /\ controllers[req].version \in Nat
      /\ instance.content \in ControllerContent(DefaultedSpecs(req))
      /\ wanted \in DefaultedSpecs(req)
  BY <1>1, WorkerFacts DEF Guarded, Typed, Object
<1>3. /\ content \in ControllerContent(DefaultedSpecs(req))
      /\ content \in V
      /\ content.finalizer
      /\ content.uid = instance.content.uid
      /\ content.deleting = instance.content.deleting
      /\ content.spec = wanted
  BY <1>2 DEF ControllerContent, StoredSpecs, wanted
<1>4. content # Nothing
  BY <1>2, <1>3, NothingAssumption
<1>5. ~instance.content.deleting
  BY <1>1 DEF Guarded, WorkerIsEntitled
<1> HIDE DEF content
<1>6. /\ answer.ok =>
           /\ Exists(controllers[req])
           /\ controllers[req].version = instance.version
           /\ answer.object = Written(controllers[req], content)
      /\ ~answer.ok => answer.object = controllers[req]
      /\ answer.ok \in BOOLEAN
      /\ Written(controllers[req], content).content = content
      /\ Written(controllers[req], content).version \in Nat
  BY <1>2, UpdateFacts, WrittenFacts DEF Advances
<1>7. /\ WritesController(answer)
      /\ \/ Retry
         \/ /\ answer.ok /\ Continue(answer.object)
            /\ controllers' = [controllers EXCEPT ![req] = answer.object]
  BY DEF addFinalizer, CallForController, WritesController, cacheVars, content
<1>8. answer.ok => controllers[req].content.uid = instance.content.uid
  BY <1>1, <1>6 DEF Guarded, InstanceFollows
<1>9. Progress /\ BindingsKeep
  BY <1>2, <1>3, <1>7, ControllerProgress DEF Guarded, V
<1> HIDE DEF answer, V
<1>10. RegistrationsKeep
  <2>1. CASE controllers' = controllers
    BY <2>1, StandStill DEF Guarded
  <2>2. CASE controllers' = [controllers EXCEPT ![req] = answer.object]
    <3>1. \A c \in Controllers : controllers'[c] = IF c = req THEN answer.object ELSE controllers[c]
      BY <2>2 DEF Guarded, Typed
    <3>2. CASE answer.ok
      BY <1>3, <1>4, <1>6, <1>8, <3>1, <3>2 DEF RegistrationsKeep, Registered, Exists
    <3>3. CASE ~answer.ok
      BY <1>6, <3>1, <3>3 DEF RegistrationsKeep, Registered, Exists
    <3> QED BY <3>2, <3>3
  <2> QED BY <1>7, <2>1, <2>2 DEF WritesController
<1>11. CASE Idle
  BY <1>9, <1>10, <1>11, BystanderKeepsGuard
<1>12. CASE /\ answer.ok
            /\ pc' \in EnsureSteps /\ req' = req /\ instance' = answer.object
            /\ controllers' = [controllers EXCEPT ![req] = answer.object]
  <2>1. controllers'[req] = instance' /\ pc' \notin Closing /\ pc' \in Entering /\ pc' \in Steps
        /\ pc' # "removeFinalizer"
    BY <1>2, <1>12, StepsDiffer DEF Guarded, Typed, Closing, Entering, Steps
  <2>2. instance'.content = content /\ instance'.version \in Nat
    BY <1>6, <1>12
  <2>3. instance' \in Object(ControllerContent(DefaultedSpecs(req)))
    <3>1. instance' \in Object(V)
      BY <1>2, <1>3, <1>6, <1>12, WrittenType
    <3> QED BY <1>3, <2>2, <3>1 DEF Object
  <2>4. WorkerTyped'
    BY <1>2, <1>4, <1>12, <2>1, <2>2, <2>3 DEF WorkerTyped, Exists
  <2>5. StoredSpec(req)' = wanted'
    <3>1. StoredSpec(req)' = setDefaultValues(req, wanted) /\ wanted' = wanted
      BY <1>3, <1>12, <2>1, <2>2 DEF StoredSpec, wanted
    <3> QED BY <1>2, <3>1, DefaultsAreIdempotent
  <2>6. InstanceFollows'
    BY <1>4, <1>12, <2>1, <2>2, <2>5 DEF InstanceFollows, Exists
  <2>7. WorkerIsEntitled'
    BY <1>3, <1>4, <1>5, <1>12, <2>1, <2>2 DEF WorkerIsEntitled, Registered, Exists
  <2>8. Typed' /\ CacheShowsFinalizer' /\ SubjectIsDropped'
    BY <1>9, <1>10, <2>1, <2>4, TypedStays, CacheStaysRight, NothingToDrop DEF Guarded
  <2> QED BY <1>10, <2>6, <2>7, <2>8 DEF Guarded
<1>13. Idle \/ (pc' \in EnsureSteps /\ req' = req /\ instance' = answer.object)
  BY <1>7, ContinueFacts DEF Retry
<1> QED BY <1>7, <1>10, <1>11, <1>12, <1>13 DEF Retry

\* The finalizer comes off only where the informer has shown the deletion.
RemovesOnlyFinalizer ==
    /\ \A c \in Controllers \ {req} : controllers'[c] = controllers[c]
    /\ \/ controllers'[req] = controllers[req]
       \/ ~Exists(controllers'[req]) /\ controllers[req].version = instance.version

\* removeFinalizer takes the resource away after the informer has shown its deletion.
LEMMA RemoveFinalizerGuard ==
    ASSUME Guarded, removeFinalizer PROVE Guarded' /\ RemovesOnlyFinalizer
<1> DEFINE answer == Update(controllers[req], instance, Nothing)
           V == ControllerContent(StoredSpecs(req))
<1>1. pc = "removeFinalizer" /\ pc # "idle" /\ pc \in Closing
  BY DEF removeFinalizer, Closing
<1>2. /\ req \in Controllers /\ instance.version \in Nat
      /\ controllers[req].version \in Nat /\ controllerCache[req].version \in Nat
  BY <1>1, WorkerFacts DEF Guarded, Typed, Object
<1>3. /\ answer.ok => /\ Exists(controllers[req])
                      /\ controllers[req].version = instance.version
                      /\ answer.object = Written(controllers[req], Nothing)
      /\ ~answer.ok => answer.object = controllers[req]
      /\ answer.ok \in BOOLEAN
      /\ Written(controllers[req], Nothing).content = Nothing
  BY <1>2, UpdateFacts, WrittenFacts
<1>4. WritesController(answer) /\ Idle
  BY DEF removeFinalizer, CallForController, WritesController, cacheVars, Finish, Retry
<1>5. Progress
  BY <1>2, <1>4, ControllerProgress DEF Guarded
<1> HIDE DEF answer
<1>6. RemovesOnlyFinalizer
  <2>1. /\ \A c \in Controllers \ {req} : controllers'[c] = controllers[c]
        /\ controllers'[req] = controllers[req] \/ controllers'[req] = answer.object
    BY <1>2, <1>4 DEF Guarded, Typed, WritesController
  <2>2. CASE answer.ok
    BY <1>3, <2>1, <2>2 DEF RemovesOnlyFinalizer, Exists
  <2>3. CASE ~answer.ok
    BY <1>3, <2>1, <2>3 DEF RemovesOnlyFinalizer
  <2> QED BY <1>3, <2>2, <2>3
<1>7. CASE controllers'[req] = controllers[req]
  <2>1. RegistrationsKeep
    BY <1>6, <1>7 DEF RemovesOnlyFinalizer, RegistrationsKeep, Registered, Exists
  <2> QED BY <1>4, <1>5, <1>6, <2>1, BystanderKeepsGuard
<1>8. CASE ~Exists(controllers'[req]) /\ controllers[req].version = instance.version
  <2>1. controllers[req].content.deleting
    BY <1>1, <1>8 DEF Guarded, InstanceFollows, WorkerIsEntitled
  <2>2. controllerCache[req].version = controllers[req].version
    <3>1. instance.version <= controllerCache[req].version
      BY <1>1 DEF Guarded, WorkerIsEntitled
    <3>2. controllerCache[req].version <= controllers[req].version
      BY <1>2 DEF Guarded, Typed, Follows
    <3> QED BY <1>2, <1>8, <3>1, <3>2
  <2>3. controllerCache[req].content.deleting
    BY <1>2, <2>1, <2>2 DEF Guarded, Typed, Follows
  <2>4. CacheShowsFinalizer'
    BY <1>4, <1>6, <2>3
    DEF WritesController, RemovesOnlyFinalizer, Guarded, CacheShowsFinalizer, Registered, Exists
  <2>5. Typed' /\ InstanceFollows' /\ WorkerIsEntitled' /\ SubjectIsDropped'
    BY <1>4, <1>5, IdleIsRight, TypedStays DEF Idle, Guarded
  <2> QED BY <1>6, <2>4, <2>5 DEF Guarded
<1> QED BY <1>6, <1>7, <1>8 DEF RemovesOnlyFinalizer

\* updateStatus writes nothing but the status, of the version it has read.
LEMMA StatusGuard ==
    ASSUME Guarded, updateStatus PROVE Guarded' /\ RegistrationsKeep
<1> DEFINE content == [controllers[req].content EXCEPT !.deployed = TRUE]
           answer == Update(controllers[req], instance, content)
           copy == [instance EXCEPT !.version = answer.object.version, !.content.deployed = TRUE]
           V == ControllerContent(StoredSpecs(req))
<1>1. pc = "Status" /\ pc # "idle" /\ pc \in EnsureSteps
  BY DEF updateStatus, Guarded, Typed, WorkerTyped, Steps
<1>2. /\ req \in Controllers /\ controllers[req] \in Object(V)
      /\ controllers[req].version \in Nat
      /\ instance \in Object(ControllerContent(DefaultedSpecs(req)))
      /\ instance.content \in ControllerContent(DefaultedSpecs(req))
  BY <1>1, WorkerFacts DEF Guarded, Typed, Object, WorkerTyped
<1>3. Exists(controllers[req]) =>
        /\ content \in V
        /\ content # Nothing
        /\ content.finalizer = controllers[req].content.finalizer
        /\ content.deleting = controllers[req].content.deleting
        /\ content.uid = controllers[req].content.uid
        /\ content.spec = controllers[req].content.spec
  <2>1. Exists(controllers[req]) => controllers[req].content \in V
    BY <1>2 DEF Object, Exists
  <2> QED BY <1>2, <2>1, NothingAssumption DEF ControllerContent
<1> HIDE DEF content
<1>4. /\ answer.ok =>
           /\ Exists(controllers[req])
           /\ controllers[req].version = instance.version
           /\ answer.object = Written(controllers[req], content)
      /\ ~answer.ok => answer.object = controllers[req]
      /\ answer.ok \in BOOLEAN
      /\ Written(controllers[req], content).content = content
      /\ Written(controllers[req], content).version \in Nat
  BY <1>2, UpdateFacts, WrittenFacts DEF Advances
<1>5. CASE SendNothing(Continue(instance))
  <2>1. EnsureEffect
    BY <1>1, <1>5, SendNothingEffect DEF Guarded
  <2> QED BY <2>1, EnsureGuard, EnsureProgress DEF Guarded
<1>6. CASE ~SendNothing(Continue(instance))
  <2>1. /\ WritesController(answer)
        /\ \/ Retry
           \/ /\ answer.ok /\ Continue(copy)
              /\ controllers' = [controllers EXCEPT ![req] = answer.object]
    BY <1>6 DEF updateStatus, CallForController, WritesController, cacheVars, content
  <2>2. Progress /\ BindingsKeep
    BY <1>2, <1>3, <2>1, ControllerProgress DEF Guarded, V
  <2> HIDE DEF answer, V
  <2>3. RegistrationsKeep
    <3>1. /\ \A c \in Controllers \ {req} : controllers'[c] = controllers[c]
          /\ controllers'[req] = controllers[req] \/ controllers'[req] = answer.object
      BY <1>2, <2>1 DEF Guarded, Typed, WritesController
    <3>2. CASE answer.ok
      BY <1>3, <1>4, <3>1, <3>2 DEF RegistrationsKeep, Registered, Exists
    <3>3. CASE ~answer.ok
      BY <1>4, <3>1, <3>3 DEF RegistrationsKeep, Registered, Exists
    <3> QED BY <1>4, <3>2, <3>3
  <2>4. CASE Idle
    BY <2>2, <2>3, <2>4, BystanderKeepsGuard
  <2>5. CASE /\ answer.ok
             /\ pc' \in EnsureSteps /\ req' = req /\ instance' = copy
             /\ controllers' = [controllers EXCEPT ![req] = answer.object]
    <3>1. /\ controllers'[req] = answer.object /\ answer.object.content = content
          /\ answer.object.version \in Nat
          /\ pc' \notin Closing /\ pc' \in Entering /\ pc' \in Steps /\ pc' # "removeFinalizer"
      BY <1>2, <1>4, <2>5, StepsDiffer DEF Guarded, Typed, Closing, Entering, Steps
    <3>2. /\ instance' \in Object(ControllerContent(DefaultedSpecs(req)))
          /\ instance'.version = answer.object.version
          /\ instance'.content \in ControllerContent(DefaultedSpecs(req))
          /\ instance'.content.uid = instance.content.uid
          /\ instance'.content.finalizer = instance.content.finalizer
          /\ instance'.content.deleting = instance.content.deleting
          /\ instance'.content.spec = instance.content.spec
      BY <1>2, <2>5, <3>1 DEF Object, ControllerContent
    <3>3. Exists(instance')
      <4>1. instance'.content \in V
        BY <3>2 DEF ControllerContent, StoredSpecs, V
      <4> QED BY <1>2, <4>1, NothingAssumption DEF Exists, V
    <3>4. WorkerTyped'
      BY <1>2, <2>5, <3>1, <3>2, <3>3 DEF WorkerTyped, Exists
    <3>5. /\ controllers[req].content.uid = instance.content.uid
          /\ controllers[req].content.finalizer = instance.content.finalizer
          /\ controllers[req].content.deleting = instance.content.deleting
          /\ StoredSpec(req) = wanted
      BY <1>1, <1>4, <2>5 DEF Guarded, InstanceFollows
    <3>6. StoredSpec(req)' = wanted'
      BY <1>3, <1>4, <2>5, <3>1, <3>2, <3>5 DEF StoredSpec, wanted
    <3>7. InstanceFollows'
      BY <1>3, <1>4, <2>5, <3>1, <3>2, <3>5, <3>6 DEF InstanceFollows, Exists
    <3>8. instance.content.finalizer /\ ~instance.content.deleting /\ Registered(req)
          /\ controllers[req].content.uid = instance.content.uid
      BY <1>1 DEF Guarded, WorkerIsEntitled, Entering
    <3>9. Registered(req)' /\ controllers'[req].content.uid = instance.content.uid
      BY <1>2, <2>3, <2>5, <3>8 DEF RegistrationsKeep, Registered, Exists
    <3>10. WorkerIsEntitled'
      BY <2>5, <3>1, <3>2, <3>8, <3>9 DEF WorkerIsEntitled, Registered, Exists
    <3>11. Typed' /\ CacheShowsFinalizer' /\ SubjectIsDropped'
      BY <2>2, <2>3, <3>1, <3>4, TypedStays, CacheStaysRight, NothingToDrop DEF Guarded
    <3> QED BY <2>3, <3>7, <3>10, <3>11 DEF Guarded
  <2>6. Idle \/ (pc' \in EnsureSteps /\ req' = req /\ instance' = copy)
    <3> HIDE DEF copy
    <3> QED BY <2>1, ContinueFacts DEF Retry
  <2> QED BY <2>1, <2>3, <2>4, <2>5, <2>6 DEF Retry
<1> QED BY <1>5, <1>6

\* The steps that keep an object, all of them.
LEMMA WorkerSteps ==
    ASSUME Typed, Worker
    PROVE  \/ checkNamespace \/ addFinalizer \/ finalizeHigressController
           \/ removeFinalizer \/ updateStatus \/ EnsureEffect \/ Stops
BY EnsuresCRDs, EnsuresServiceAccounts, EnsuresRoles, EnsuresClusterRoleBinding,
   EnsuresRoleBindings, EnsuresConfigMaps, EnsuresDeployment, EnsuresIngressClass,
   EnsuresServices, EnsuresConsoleClusterRoles, EnsuresConsoleDeployment
DEF Worker, Console

\* Every step of the worker keeps the invariant.
LEMMA WorkerGuard == ASSUME Guarded, Worker PROVE Guarded'
BY WorkerSteps, NamespaceGuard, AddFinalizerGuard, FinalizeGuard, RemoveFinalizerGuard,
   StatusGuard, EnsureGuard, StopsGuard DEF Guarded

\* The invariant holds at the start.
LEMMA InitGuard == ASSUME Init PROVE Guarded
<1>1. pc = "idle" /\ pc \notin Entering /\ pc \notin Closing /\ pc \notin EnsureSteps
  BY StepsDiffer DEF Init, Entering, Closing
<1>2. Typed
  BY <1>1 DEF Init, Typed, WorkerTyped, Steps, IsBinding, Follows, NeverStored, Object, Exists
<1>3. CacheShowsFinalizer
  BY DEF Init, CacheShowsFinalizer, NeverStored, Exists
<1>4. InstanceFollows /\ WorkerIsEntitled /\ SubjectIsDropped
  BY <1>1 DEF InstanceFollows, WorkerIsEntitled, SubjectIsDropped
<1> QED BY <1>2, <1>3, <1>4 DEF Guarded

\* A step of nobody makes progress as well.
LEMMA StutterKeeps == ASSUME Typed, UNCHANGED vars PROVE Bystander
BY NothingWritten DEF vars, serverVars, cacheVars, Bystander, Typed

\* Every step of the system keeps the invariant.
LEMMA StepGuard == ASSUME Guarded, [Next]_vars PROVE Guarded'
<1>1. CASE \E c \in Controllers : Reconcile(c)
  BY <1>1, ReconcileGuard
<1>2. CASE Worker
  BY <1>2, WorkerGuard
<1>3. CASE User \/ Cluster \/ Crash \/ UNCHANGED vars
  BY <1>3, EnvironmentKeeps, StutterKeeps, BystanderKeepsGuard DEF Bystander, Guarded
<1> QED BY <1>1, <1>2, <1>3 DEF Next

-----------------------------------------------------------------------------
\* Part one: nothing is created for a HigressController without the finalizer.

\* What CreatedUnderFinalizer says of a step.
CreatesUnderFinalizer ==
    \A k \in Keys : ~Exists(objects[k]) /\ Exists(objects'[k]) =>
        /\ Registered(req)
        /\ objects'[k].content.owner \in {Nil, Owner(req, controllers[req].content.uid)}

\* A write of an object that exists creates none, nor does the end of one.
LEMMA RewriteCreatesNothing ==
    ASSUME Typed, NEW k \in Keys, NEW object,
           ~Exists(objects[k]) => ~Exists(object), SetObject(k, object)
    PROVE  CreatesUnderFinalizer
<1>1. \A l \in Keys : objects'[l] = IF l = k THEN object ELSE objects[l]
  BY DEF SetObject, Store, Typed
<1> QED BY <1>1 DEF CreatesUnderFinalizer, Exists

\* The create* steps create for the one being reconciled, in its own name.
LEMMA EnsureCreates == ASSUME Guarded, EnsureEffect PROVE CreatesUnderFinalizer
<1>1. Registered(req) /\ controllers[req].content.uid = uid
  BY DEF Guarded, WorkerIsEntitled, EnsureEffect, Entering, uid
<1> QED BY <1>1 DEF EnsureEffect, WritesOwn, Ours, OwnOwner, CreatesUnderFinalizer

\* Whatever a step of the system creates is created under the finalizer.
LEMMA StepCreates == ASSUME Guarded, [Next]_vars PROVE CreatesUnderFinalizer
<1>1. CASE objects' = objects
  BY <1>1 DEF CreatesUnderFinalizer, Exists
<1>2. CASE Worker
  <2>1. CASE EnsureEffect
    BY <2>1, EnsureCreates
  <2>2. CASE finalizeHigressController
    BY <2>2, FinalizeFacts DEF FinalizeEffect, CreatesUnderFinalizer, Exists
  <2>3. CASE Stops
    BY <1>1, <2>3 DEF Stops, serverVars
  <2>4. CASE checkNamespace \/ addFinalizer \/ removeFinalizer \/ updateStatus
    <3>1. objects' = objects
      BY <2>4 DEF checkNamespace, addFinalizer, removeFinalizer, updateStatus,
                  CallForController, SendNothing, serverVars
    <3> QED BY <1>1, <3>1
  <2> QED BY <1>2, <2>1, <2>2, <2>3, <2>4, WorkerSteps DEF Guarded
<1>3. CASE User \/ Cluster
  <2>1. ASSUME NEW k \in Keys, DriftObject(k) \/ CollectGarbage(k) \/ EvictObject(k)
        PROVE  CreatesUnderFinalizer
    <3>1. PICK object \in {Written(objects[k], EditedCRD), Removed(objects[k])} :
             SetObject(k, object) /\ Exists(objects[k])
      BY <2>1 DEF DriftObject, CollectGarbage, Garbage, EvictObject
    <3> QED BY <3>1, RewriteCreatesNothing DEF Guarded
  <2>2. objects' = objects \/ \E k \in Keys :
           DriftObject(k) \/ CollectGarbage(k) \/ EvictObject(k)
    BY <1>3 DEF User, CreateController, UpdateController, DeleteController, TerminateNamespace,
                Cluster, DeliverController, EvictController, SetController, DeliverObject,
                serverVars
  <2> QED BY <1>1, <2>1, <2>2
<1>4. CASE Crash \/ UNCHANGED vars \/ \E c \in Controllers : Reconcile(c)
  BY <1>1, <1>4 DEF Crash, Reconcile, vars, serverVars
<1> QED BY <1>2, <1>3, <1>4 DEF Next

\* An object is created, for the controller or for its console, only while the
\* finalizer of the HigressController is stored, under the uid of its present
\* incarnation, however old the copies are that the worker acts on.
THEOREM CreationIsGuarded == Spec => CreatedUnderFinalizer
<1>1. Init => Guarded
  BY InitGuard
<1>2. Guarded /\ [Next]_vars => Guarded'
  BY StepGuard
<1>3. Guarded /\ [Next]_vars =>
        [\A k \in Keys : ~Exists(objects[k]) /\ Exists(objects'[k]) =>
            /\ Registered(req)
            /\ objects'[k].content.owner \in {Nil, Owner(req, controllers[req].content.uid)}]_vars
  BY StepCreates DEF CreatesUnderFinalizer
<1> QED BY <1>1, <1>2, <1>3, PTL DEF Spec, CreatedUnderFinalizer

-----------------------------------------------------------------------------
\* Part two: nobody is released while bound.

\* What UnboundWhenReleased says of a step.
ReleasesUnbound ==
    \A c \in Controllers :
        Registered(c) /\ ~Registered(c)' /\ AccessOn(StoredSpec(c)) => ~Bound(c)

\* removeFinalizer releases the version that finalizeHigressController has unbound.
LEMMA RemovalReleasesUnbound ==
    ASSUME Guarded, removeFinalizer PROVE ReleasesUnbound
<1> SUFFICES ASSUME NEW c \in Controllers,
                    Registered(c) /\ ~Registered(c)' /\ AccessOn(StoredSpec(c))
             PROVE  ~Bound(c)
  BY DEF ReleasesUnbound
<1>1. pc = "removeFinalizer" /\ pc # "idle" /\ RemovesOnlyFinalizer
  BY RemoveFinalizerGuard DEF removeFinalizer
<1>2. c = req /\ controllers[req].version = instance.version
  BY <1>1 DEF RemovesOnlyFinalizer, Registered, Exists
<1>3. StoredSpec(req) = wanted
  BY <1>1, <1>2 DEF Guarded, InstanceFollows
<1>4. Unbinds
  BY <1>2, <1>3 DEF Unbinds
<1>5. LET k == KeyOf("ClusterRoleBinding", req, wanted)
      IN  Exists(objects[k]) => Subject(req, wanted) \notin objects[k].content.subjects
  BY <1>1, <1>4 DEF Guarded, SubjectIsDropped
<1> QED BY <1>2, <1>3, <1>5 DEF Bound, BindingOf, KeyFor

\* Who keeps the registrations releases nobody.
LEMMA KeepingReleasesNobody == ASSUME RegistrationsKeep PROVE ReleasesUnbound
BY DEF RegistrationsKeep, ReleasesUnbound

\* Whoever a step of the system releases is unbound.
LEMMA StepReleases == ASSUME Guarded, [Next]_vars PROVE ReleasesUnbound
<1>1. CASE controllers' = controllers
  BY <1>1, StandStill, KeepingReleasesNobody DEF Guarded
<1>2. CASE Worker
  <2>1. CASE EnsureEffect \/ finalizeHigressController \/ Stops \/ checkNamespace
    <3>1. controllers' = controllers
      BY <2>1, FinalizeFacts
      DEF EnsureEffect, FinalizeEffect, Stops, checkNamespace, serverVars
    <3> QED BY <1>1, <3>1
  <2>2. CASE addFinalizer \/ updateStatus
    BY <2>2, AddFinalizerGuard, StatusGuard, KeepingReleasesNobody
  <2>3. CASE removeFinalizer
    BY <2>3, RemovalReleasesUnbound
  <2> QED BY <1>2, <2>1, <2>2, <2>3, WorkerSteps DEF Guarded
<1>3. CASE User \/ Cluster \/ Crash \/ UNCHANGED vars
  BY <1>3, EnvironmentKeeps, StutterKeeps, KeepingReleasesNobody DEF Bystander, Guarded
<1>4. CASE \E c \in Controllers : Reconcile(c)
  BY <1>1, <1>4 DEF Reconcile, serverVars
<1> QED BY <1>2, <1>3, <1>4 DEF Next

\* A HigressController that grants access loses its finalizer only after its
\* account is out of the ClusterRoleBinding, whatever edits switched RBAC on and
\* off before: the update that takes the finalizer off is refused unless it is
\* of the version whose spec finalizeHigressController has acted on.
THEOREM ReleaseIsUnbound == Spec => UnboundWhenReleased
<1>1. Init => Guarded
  BY InitGuard
<1>2. Guarded /\ [Next]_vars => Guarded'
  BY StepGuard
<1>3. Guarded /\ [Next]_vars =>
        [\A c \in Controllers :
            Registered(c) /\ ~Registered(c)' /\ AccessOn(StoredSpec(c)) => ~Bound(c)]_vars
  BY StepReleases DEF ReleasesUnbound
<1> QED BY <1>1, <1>2, <1>3, PTL DEF Spec, UnboundWhenReleased

-----------------------------------------------------------------------------
\* Part three: nobody is bound without the finalizer.

\* No spec of a HigressController names an account that a spec of another one
\* names for itself or for its console.  In one namespace the names are up to
\* the users, and a subject is no more than a name.
AccountsAreTheirOwn ==
    \A c, d \in Controllers : \A s \in DefaultedSpecs(c), t \in DefaultedSpecs(d) :
        c # d => Subject(c, s) \notin {Subject(d, t), [name |-> <<t.console.name>>, ns |-> d.ns]}

\* What BoundUnderFinalizer says of a step.
BindsUnderFinalizer ==
    \A c \in Controllers : ~Bound(c) /\ Bound(c)' /\ objects' # objects => Registered(c)

\* The binding of a stored HigressController is one of the objects.
LEMMA BoundFacts ==
    ASSUME Typed, NEW c \in Controllers, Exists(controllers[c])
    PROVE  /\ StoredSpec(c) \in DefaultedSpecs(c)
           /\ KeyFor("ClusterRoleBinding", c) \in Keys
           /\ KeyFor("ClusterRoleBinding", c).kind = "ClusterRoleBinding"
<1>1. controllers[c].content.spec \in StoredSpecs(c)
  BY DEF Typed, Object, ControllerContent, Exists
<1>2. StoredSpec(c) \in DefaultedSpecs(c)
  BY <1>1, StoredIsDefaulted DEF StoredSpec
<1> QED BY <1>2, BindingIsAKey DEF KeyFor

\* A step that writes objects writes no resource, so that whom it newly binds is
\* a subject that it adds.
LEMMA NewlyBound ==
    ASSUME Typed, UNCHANGED controllers, NEW c \in Controllers, ~Bound(c), Bound(c)'
    PROVE  \E k \in Keys : /\ k.kind = "ClusterRoleBinding" /\ Exists(objects'[k])
                           /\ Subject(c, StoredSpec(c)) \in objects'[k].content.subjects
                           /\ Exists(objects[k]) =>
                                 Subject(c, StoredSpec(c)) \notin objects[k].content.subjects
                           /\ StoredSpec(c) \in DefaultedSpecs(c)
<1> DEFINE k == KeyFor("ClusterRoleBinding", c)
<1>1. StoredSpec(c)' = StoredSpec(c) /\ k' = k /\ Exists(controllers[c])
  BY DEF StoredSpec, KeyFor, Bound, Exists
<1>2. k \in Keys /\ k.kind = "ClusterRoleBinding" /\ StoredSpec(c) \in DefaultedSpecs(c)
  BY <1>1, BoundFacts
<1>3. BindingOf(c) = objects[k] /\ BindingOf(c)' = objects'[k]
  BY <1>1 DEF BindingOf
<1> HIDE DEF k
<1>4. /\ Exists(objects'[k]) /\ Subject(c, StoredSpec(c)) \in objects'[k].content.subjects
      /\ Exists(objects[k]) => Subject(c, StoredSpec(c)) \notin objects[k].content.subjects
  BY <1>1, <1>3 DEF Bound, Exists
<1> QED BY <1>2, <1>4

\* Who binds nobody binds nobody without the finalizer.
LEMMA BindsNobodyIsSafe ==
    ASSUME Typed, UNCHANGED controllers, BindsNobody PROVE BindsUnderFinalizer
BY NewlyBound DEF BindsNobody, BindsUnderFinalizer

\* The create* steps bind the account of the HigressController that is reconciled.
LEMMA EnsureBinds ==
    ASSUME AccountsAreTheirOwn, Guarded, EnsureEffect PROVE BindsUnderFinalizer
<1> SUFFICES ASSUME NEW c \in Controllers, ~Bound(c), Bound(c)' PROVE Registered(c)
  BY DEF BindsUnderFinalizer
<1>1. PICK k \in Keys :
         /\ k.kind = "ClusterRoleBinding" /\ Exists(objects'[k])
         /\ Subject(c, StoredSpec(c)) \in objects'[k].content.subjects
         /\ Exists(objects[k]) => Subject(c, StoredSpec(c)) \notin objects[k].content.subjects
         /\ StoredSpec(c) \in DefaultedSpecs(c)
  BY NewlyBound DEF Guarded, EnsureEffect
<1>2. Subject(c, StoredSpec(c)) \in OwnSubjects
  BY <1>1 DEF EnsureEffect, WritesOwn
<1>3. pc # "idle" /\ Registered(req)
  BY StepsDiffer DEF EnsureEffect, Guarded, WorkerIsEntitled, Entering
<1>4. req \in Controllers /\ wanted \in DefaultedSpecs(req)
  BY <1>3, WorkerFacts DEF Guarded
<1>5. c = req
  BY <1>1, <1>2, <1>4 DEF AccountsAreTheirOwn, OwnSubjects
<1> QED BY <1>3, <1>5

\* Whoever a step of the system binds holds the finalizer.
LEMMA StepBinds ==
    ASSUME AccountsAreTheirOwn, Guarded, [Next]_vars PROVE BindsUnderFinalizer
<1>1. CASE objects' = objects
  BY <1>1 DEF BindsUnderFinalizer
<1>2. CASE Worker
  <2>1. CASE EnsureEffect
    BY <2>1, EnsureBinds
  <2>2. CASE finalizeHigressController
    BY <2>2, FinalizeFacts, BindsNobodyIsSafe DEF FinalizeEffect, Guarded
  <2>3. CASE Stops
    BY <1>1, <2>3 DEF Stops, serverVars
  <2>4. CASE checkNamespace \/ addFinalizer \/ removeFinalizer \/ updateStatus
    <3>1. objects' = objects
      BY <2>4 DEF checkNamespace, addFinalizer, removeFinalizer, updateStatus,
                  CallForController, SendNothing, serverVars
    <3> QED BY <1>1, <3>1
  <2> QED BY <1>2, <2>1, <2>2, <2>3, <2>4, WorkerSteps DEF Guarded
<1>3. CASE User \/ Cluster
  <2>1. ASSUME NEW k \in Keys, DriftObject(k) \/ CollectGarbage(k) \/ EvictObject(k)
        PROVE  BindsUnderFinalizer
    <3>1. UNCHANGED <<controllers, workerVars>> /\ pc' = pc
      BY <2>1 DEF DriftObject, CollectGarbage, EvictObject, Change, SetObject, workerVars
    <3>2. BindsNobody
      <4>1. PICK content : /\ content = Nothing \/ k.kind # "ClusterRoleBinding"
                           /\ SetObject(k, Written(objects[k], content))
        BY <2>1 DEF DriftObject, CollectGarbage, EvictObject, Removed
      <4>2. \A l \in Keys : objects'[l] = IF l = k THEN Written(objects[k], content)
                                          ELSE objects[l]
        BY <4>1 DEF SetObject, Store, Guarded, Typed
      <4>3. Written(objects[k], content).content = content
        BY WrittenFacts DEF Guarded, Typed
      <4> QED BY <4>1, <4>2, <4>3 DEF BindsNobody, Exists
    <3> QED BY <3>1, <3>2, BindsNobodyIsSafe DEF Guarded
  <2>2. objects' = objects \/ \E k \in Keys :
           DriftObject(k) \/ CollectGarbage(k) \/ EvictObject(k)
    BY <1>3 DEF User, CreateController, UpdateController, DeleteController, TerminateNamespace,
                Cluster, DeliverController, EvictController, SetController, DeliverObject,
                serverVars
  <2> QED BY <1>1, <2>1, <2>2
<1>4. CASE Crash \/ UNCHANGED vars \/ \E c \in Controllers : Reconcile(c)
  BY <1>1, <1>4 DEF Crash, Reconcile, vars, serverVars
<1> QED BY <1>2, <1>3, <1>4 DEF Next

\* If no two HigressControllers share an account, whoever createRBAC binds holds
\* the finalizer at that moment, so that its deletion waits for
\* finalizeHigressController, however old the copies are that the pass works with.
THEOREM BindingIsGuarded ==
    ASSUME AccountsAreTheirOwn PROVE Spec => BoundUnderFinalizer
<1>1. Init => Guarded
  BY InitGuard
<1>2. Guarded /\ [Next]_vars => Guarded'
  BY StepGuard
<1>3. Guarded /\ [Next]_vars =>
        [\A c \in Controllers :
            ~Bound(c) /\ Bound(c)' /\ objects' # objects => Registered(c)]_vars
  BY StepBinds DEF BindsUnderFinalizer
<1> QED BY <1>1, <1>2, <1>3, PTL DEF Spec, BoundUnderFinalizer

-----------------------------------------------------------------------------
\* Part four: every variable has its type.

Incarnations == UNION {{Owner(c, u) : u \in 1 .. controllers[c].version} : c \in Controllers}

\* A uid is the version an incarnation was created with.
UidIsPast(object) == Exists(object) => object.content.uid \in 1 .. object.version

UidsArePast ==
    /\ \A c \in Controllers : UidIsPast(controllers[c]) /\ UidIsPast(controllerCache[c])
    /\ pc # "idle" => UidIsPast(instance)

OwnersAreKnown ==
    \A k \in Keys : Exists(objects[k]) =>
        /\ "owner" \in DOMAIN objects[k].content
        /\ objects[k].content.owner \in {Nil} \cup Incarnations

Namespaces == {c.ns : c \in Controllers}

Bookkeeping ==
    /\ pending \in [Keys -> SUBSET Controllers]
    /\ terminating \subseteq Namespaces
    /\ queue \subseteq Controllers
    /\ pc = "idle" => req = Nil /\ instance = NeverStored

Accounted == UidsArePast /\ OwnersAreKnown /\ Bookkeeping

\* What a step has to show of what it writes: resources keep a uid that is past,
\* copies are copies, and objects change hands to nobody.
ControllersFollow ==
    /\ \A c \in Controllers :
        /\ controllers[c].version <= controllers'[c].version
        /\ UidIsPast(controllers'[c])
        /\ controllerCache'[c] \in {controllerCache[c], controllers[c]}
    /\ pc' # "idle" => UidIsPast(instance')

ObjectsFollow ==
    \A k \in Keys : Exists(objects'[k]) =>
        \/ Exists(objects[k]) /\ KeepsOwner(objects'[k].content, objects[k].content)
        \/ pc # "idle" /\ Ours(objects'[k].content)

\* The worker's own HigressController, in the incarnation it has read, is known.
LEMMA OwnIsKnown ==
    ASSUME Guarded, Accounted, pc # "idle" PROVE OwnOwner \subseteq {Nil} \cup Incarnations
<1>1. /\ req \in Controllers /\ instance.version \in Nat /\ Exists(instance)
      /\ instance.version <= controllers[req].version /\ controllers[req].version \in Nat
  BY WorkerFacts DEF Guarded, InstanceFollows, Typed, WorkerTyped, Object
<1>2. uid \in 1 .. instance.version
  BY <1>1 DEF Accounted, UidsArePast, UidIsPast, uid
<1>3. uid \in 1 .. controllers[req].version
  BY <1>1, <1>2
<1> QED BY <1>1, <1>3 DEF OwnOwner, Incarnations

\* Who was an owner once stays one that was there.
LEMMA IncarnationsGrow ==
    ASSUME Typed, Typed', ControllersFollow PROVE Incarnations \subseteq Incarnations'
<1> SUFFICES ASSUME NEW c \in Controllers, NEW u \in 1 .. controllers[c].version
             PROVE  Owner(c, u) \in Incarnations'
  BY DEF Incarnations
<1>1. /\ controllers[c].version \in Nat /\ controllers'[c].version \in Nat
      /\ controllers[c].version <= controllers'[c].version
  BY DEF Typed, Object, ControllersFollow
<1>2. u \in 1 .. controllers'[c].version
  BY <1>1
<1> QED BY <1>2 DEF Incarnations

\* A known owner is one of the HigressControllers.
LEMMA KnownOwners ==
    ASSUME NEW owner \in {Nil} \cup Incarnations
    PROVE  owner = Nil \/ owner.controller \in Controllers
BY DEF Incarnations, Owner

\* The events of an object are for its owner.
LEMMA OwnersOfFacts ==
    ASSUME NEW k, NEW object,
           Exists(object) => \/ object.content.owner = Nil
                             \/ object.content.owner.controller \in Controllers
    PROVE  OwnersOf(k, object) \subseteq Controllers
BY DEF OwnersOf

\* The owners of a stored object, before and after a step.
LEMMA StoredOwners ==
    ASSUME NEW k \in Keys, OwnersAreKnown PROVE OwnersOf(k, objects[k]) \subseteq Controllers
<1>1. Exists(objects[k]) => \/ objects[k].content.owner = Nil
                            \/ objects[k].content.owner.controller \in Controllers
  BY KnownOwners DEF OwnersAreKnown
<1> QED BY <1>1, OwnersOfFacts

\* The same, one step later.
LEMMA StoredOwnersLater ==
    ASSUME NEW k \in Keys, OwnersAreKnown' PROVE OwnersOf(k, objects'[k]) \subseteq Controllers
<1>1. Exists(objects'[k]) => objects'[k].content.owner \in {Nil} \cup Incarnations'
  BY DEF OwnersAreKnown, Exists
<1>2. \A owner \in Incarnations' : owner.controller \in Controllers
  BY DEF Incarnations, Owner
<1> QED BY <1>1, <1>2, OwnersOfFacts

\* The events of a write are for HigressControllers.
LEMMA EventsFollow ==
    ASSUME Typed, Accounted, OwnersAreKnown', Sends
    PROVE  pending' \in [Keys -> SUBSET Controllers]
<1>1. CASE UNCHANGED <<objects, pending>>
  BY <1>1 DEF Accounted, Bookkeeping
<1>2. ASSUME NEW k, NEW object, Store(k, object)
      PROVE  pending' \in [Keys -> SUBSET Controllers]
  <2>1. pending \in [Keys -> SUBSET Controllers]
    BY DEF Accounted, Bookkeeping
  <2>2. CASE k \notin Keys
    BY <1>2, <2>1, <2>2 DEF Store
  <2>3. CASE k \in Keys
    <3>1. objects'[k] = object
      BY <1>2, <2>3 DEF Store, Typed
    <3>2. OwnersOf(k, objects[k]) \subseteq Controllers /\ OwnersOf(k, object) \subseteq Controllers
      BY <2>3, <3>1, StoredOwners, StoredOwnersLater DEF Accounted
    <3>3. PICK events \in SUBSET Controllers : pending' = [pending EXCEPT ![k] = events]
      BY <1>2, <2>1, <2>3, <3>2 DEF Store
    <3> QED BY <2>1, <3>3
  <2> QED BY <2>2, <2>3
<1> QED BY <1>1, <1>2 DEF Sends

\* What a step has to show is enough.
LEMMA AccountStays ==
    ASSUME Guarded, Accounted, Typed', ControllersFollow, ObjectsFollow,
           Sends \/ pending' \in [Keys -> SUBSET Controllers],
           terminating' \subseteq Namespaces, queue' \subseteq Controllers,
           pc' = "idle" => req' = Nil /\ instance' = NeverStored
    PROVE  Accounted'
<1>1. Typed
  BY DEF Guarded
<1>2. UidsArePast'
  BY DEF UidsArePast, ControllersFollow, Accounted, UidIsPast, Exists
<1>3. OwnersAreKnown'
  <2> SUFFICES ASSUME NEW k \in Keys, Exists(objects'[k])
               PROVE  /\ "owner" \in DOMAIN objects'[k].content
                      /\ objects'[k].content.owner \in {Nil} \cup Incarnations
    BY <1>1, IncarnationsGrow DEF OwnersAreKnown, Exists
  <2>1. CASE Exists(objects[k]) /\ KeepsOwner(objects'[k].content, objects[k].content)
    BY <2>1 DEF Accounted, OwnersAreKnown, KeepsOwner
  <2>2. CASE pc # "idle" /\ Ours(objects'[k].content)
    BY <2>2, OwnIsKnown DEF Ours
  <2> QED BY <2>1, <2>2 DEF ObjectsFollow
<1>4. pending' \in [Keys -> SUBSET Controllers]
  BY <1>1, <1>3, EventsFollow
<1> QED BY <1>2, <1>3, <1>4 DEF Accounted, Bookkeeping, Namespaces

\* A step that leaves resources and worker alone, as far as uids go.
LEMMA NoControllerWritten ==
    ASSUME Typed, Accounted, UNCHANGED controllers,
           \A c \in Controllers : controllerCache'[c] \in {controllerCache[c], controllers[c]},
           pc' # "idle" => pc # "idle" /\ UNCHANGED instance
    PROVE  ControllersFollow
<1>1. \A c \in Controllers : controllers[c].version <= controllers'[c].version
  BY DEF Typed, Object
<1>2. /\ \A c \in Controllers : UidIsPast(controllers'[c])
      /\ pc' # "idle" => UidIsPast(instance')
  BY DEF Accounted, UidsArePast, UidIsPast, Exists
<1> QED BY <1>1, <1>2 DEF ControllersFollow

\* A step that writes no object.
LEMMA NoObjectWritten ==
    ASSUME Accounted, UNCHANGED objects PROVE ObjectsFollow
BY DEF Accounted, OwnersAreKnown, ObjectsFollow, KeepsOwner

\* A write keeps an object at or past its uid.
LEMMA WrittenUid ==
    ASSUME NEW object, object.version \in Nat, UidIsPast(object), NEW content,
           \/ content = Nothing
           \/ content.uid \in 1 .. object.version
           \/ ~Exists(object) /\ content.uid = object.version + 1
    PROVE  UidIsPast(Written(object, content)) /\ object.version <= Written(object, content).version
<1>1. CASE object.content = content
  BY <1>1 DEF Written
<1>2. CASE object.content # content
  <2> DEFINE after == [version |-> object.version + 1, content |-> content]
  <2>1. Written(object, content) = after
    BY <1>2 DEF Written
  <2>2. after.version = object.version + 1 /\ after.content = content
    OBVIOUS
  <2> HIDE DEF after
  <2>3. content # Nothing => content.uid \in 1 .. object.version + 1
    BY DEF Exists
  <2> QED BY <2>1, <2>2, <2>3 DEF UidIsPast, Exists
<1> QED BY <1>1, <1>2

\* The create* steps and finalizeHigressController write objects only.
LEMMA EnsureAccounts ==
    ASSUME Guarded, Accounted, Typed', EnsureEffect \/ (pc = "finalize" /\ FinalizeEffect)
    PROVE  Accounted'
<1>1. /\ pc # "idle" /\ UNCHANGED <<controllers, terminating, controllerCache>>
      /\ \A k \in Keys : WritesOwn(k, objects'[k])
      /\ Sends /\ queue' \subseteq queue \cup {req}
      /\ Idle \/ (pc' # "idle" /\ UNCHANGED <<req, instance>>)
  BY StepsDiffer DEF EnsureEffect, FinalizeEffect
<1>2. req \in Controllers
  BY <1>1, WorkerFacts DEF Guarded
<1>3. ControllersFollow
  BY <1>1, NoControllerWritten DEF Guarded, Idle
<1>4. ObjectsFollow
  BY <1>1 DEF WritesOwn, ObjectsFollow
<1>5. terminating' \subseteq Namespaces /\ queue' \subseteq Controllers
  BY <1>1, <1>2 DEF Accounted, Bookkeeping
<1>6. pc' = "idle" => req' = Nil /\ instance' = NeverStored
  BY <1>1 DEF Idle
<1> QED BY <1>1, <1>3, <1>4, <1>5, <1>6, AccountStays

\* The end of the process: its successor lists what is there.
LEMMA StopsAccounts ==
    ASSUME Guarded, Accounted, Typed', Stops PROVE Accounted'
<1>1. /\ UNCHANGED <<controllers, objects, terminating>> /\ Idle
      /\ controllerCache' = controllers
      /\ pending' = [k \in Keys |-> {}]
      /\ queue' = {c \in Controllers : Exists(controllers[c])}
                  \cup UNION {OwnersOf(k, objects[k]) : k \in Followed}
  BY DEF Stops, Restart, serverVars
<1>2. ControllersFollow
  BY <1>1, NoControllerWritten DEF Guarded, Idle
<1>3. ObjectsFollow
  BY <1>1, NoObjectWritten
<1>4. queue' \subseteq Controllers
  <2>1. \A k \in Followed : OwnersOf(k, objects[k]) \subseteq Controllers
    BY StoredOwners DEF Followed, Accounted
  <2> QED BY <1>1, <2>1
<1>5. pending' \in [Keys -> SUBSET Controllers]
  BY <1>1
<1>6. terminating' \subseteq Namespaces
  BY <1>1 DEF Accounted, Bookkeeping
<1> QED BY <1>1, <1>2, <1>3, <1>4, <1>5, <1>6, AccountStays DEF Idle

\* A step that writes nothing to the server and moves only the worker.
LEMMA MoveAccounts ==
    ASSUME Guarded, Accounted, Typed',
           UNCHANGED <<controllers, objects, terminating, controllerCache, pending>>,
           queue' \subseteq queue \cup {req}, req \in Controllers \/ queue' \subseteq queue,
           \/ Idle
           \/ pc # "idle" /\ pc' # "idle" /\ UNCHANGED instance
    PROVE  Accounted'
<1>1. ControllersFollow
  BY NoControllerWritten DEF Guarded, Idle
<1>2. ObjectsFollow
  BY NoObjectWritten
<1>3. terminating' \subseteq Namespaces /\ queue' \subseteq Controllers
  BY DEF Accounted, Bookkeeping
<1> QED BY <1>1, <1>2, <1>3, AccountStays DEF Idle, Sends

\* checkNamespace sends nothing.
LEMMA NamespaceAccounts ==
    ASSUME Guarded, Accounted, Typed', checkNamespace PROVE Accounted'
<1>1. /\ UNCHANGED <<controllers, objects, terminating, controllerCache, pending>>
      /\ pc = "namespace" /\ pc # "idle"
  BY DEF checkNamespace, serverVars, cacheVars
<1>2. UNCHANGED queue /\ (Idle \/ (pc' # "idle" /\ UNCHANGED instance))
  BY StepsDiffer, ContinueFacts DEF checkNamespace, Finish, GoTo
<1> QED BY <1>1, <1>2, MoveAccounts

\* Reconcile takes a copy of the informer's copy.
LEMMA ReconcileAccounts ==
    ASSUME Guarded, Accounted, Typed', NEW c \in Controllers, Reconcile(c) PROVE Accounted'
<1> DEFINE read == controllerCache[c]
           ready == [read EXCEPT !.content.spec = setDefaultValues(c, @)]
<1>1. /\ UNCHANGED <<controllers, objects, terminating, controllerCache, pending>>
      /\ queue' \subseteq queue /\ pc = "idle"
      /\ \/ UNCHANGED workerVars
         \/ /\ Exists(read) /\ instance' = ready
            /\ pc' = IF read.content.deleting THEN "finalize" ELSE "namespace"
  BY DEF Reconcile, serverVars, cacheVars
<1>2. UidIsPast(read) /\ read \in Object(ControllerContent(StoredSpecs(c)))
  BY DEF Guarded, Typed, Accounted, UidsArePast
<1>3. pc' # "idle" => UidIsPast(instance')
  <2> SUFFICES ASSUME Exists(read), instance' = ready PROVE UidIsPast(instance')
    BY <1>1 DEF workerVars
  <2>1. read.content \in ControllerContent(StoredSpecs(c))
    BY <1>2 DEF Object, Exists
  <2>2. ready.version = read.version /\ ready.content.uid = read.content.uid
    BY <1>2, <2>1 DEF Object, ControllerContent
  <2> HIDE DEF ready
  <2> QED BY <1>2, <2>2 DEF UidIsPast
<1>4. ControllersFollow
  <2>1. \A d \in Controllers : controllers[d].version <= controllers'[d].version
    BY <1>1 DEF Guarded, Typed, Object
  <2> QED BY <1>1, <1>3, <2>1 DEF ControllersFollow, Accounted, UidsArePast, UidIsPast, Exists
<1>5. ObjectsFollow
  BY <1>1, NoObjectWritten
<1>6. terminating' \subseteq Namespaces /\ queue' \subseteq Controllers /\ Sends
  BY <1>1 DEF Accounted, Bookkeeping, Sends
<1>7. pc' = "idle" => req' = Nil /\ instance' = NeverStored
  BY <1>1 DEF Accounted, Bookkeeping, workerVars
<1> QED BY <1>4, <1>5, <1>6, <1>7, AccountStays

\* A write of the HigressController that is reconciled.
LEMMA AnswerAccounts ==
    ASSUME Guarded, Accounted, req \in Controllers, NEW content,
           Exists(controllers[req]) /\ controllers[req].version = instance.version =>
               content = Nothing \/ content.uid \in 1 .. controllers[req].version,
           WritesController(Update(controllers[req], instance, content))
    PROVE  /\ \A c \in Controllers :
                /\ controllers[c].version <= controllers'[c].version
                /\ UidIsPast(controllers'[c])
           /\ UidIsPast(Update(controllers[req], instance, content).object)
           /\ controllers[req].version
                  <= Update(controllers[req], instance, content).object.version
<1> DEFINE answer == Update(controllers[req], instance, content)
<1>1. \A c \in Controllers : controllers[c].version \in Nat /\ UidIsPast(controllers[c])
  BY DEF Guarded, Typed, Object, Accounted, UidsArePast
<1>2. /\ answer.ok => /\ Exists(controllers[req]) /\ controllers[req].version = instance.version
                      /\ answer.object = Written(controllers[req], content)
      /\ ~answer.ok => answer.object = controllers[req]
      /\ answer.ok \in BOOLEAN
  BY UpdateFacts
<1>3. controllers' \in {controllers, [controllers EXCEPT ![req] = answer.object]}
  BY DEF WritesController
<1> HIDE DEF answer
<1>4. UidIsPast(answer.object) /\ controllers[req].version <= answer.object.version
  BY <1>1, <1>2, WrittenUid
<1>5. \A c \in Controllers : controllers'[c] = controllers[c]
                             \/ (c = req /\ controllers'[c] = answer.object)
  BY <1>3 DEF Guarded, Typed
<1>6. \A c \in Controllers : controllers[c].version <= controllers'[c].version
                             /\ UidIsPast(controllers'[c])
  BY <1>1, <1>4, <1>5
<1> QED BY <1>4, <1>6 DEF answer

\* A step that writes the HigressController that is reconciled, and no object.
LEMMA CallAccounts ==
    ASSUME Guarded, Accounted, Typed', req \in Controllers,
           UNCHANGED <<objects, terminating, cacheVars>>,
           \A c \in Controllers : /\ controllers[c].version <= controllers'[c].version
                                  /\ UidIsPast(controllers'[c]),
           queue' \subseteq queue \cup {req},
           Idle \/ (pc' # "idle" /\ UidIsPast(instance'))
    PROVE  Accounted'
<1>1. UNCHANGED <<controllerCache, objectCache, pending>>
  BY DEF cacheVars
<1>2. ControllersFollow
  BY <1>1 DEF ControllersFollow, Idle
<1>3. ObjectsFollow
  BY NoObjectWritten
<1>4. terminating' \subseteq Namespaces /\ queue' \subseteq Controllers
  BY DEF Accounted, Bookkeeping
<1> QED BY <1>1, <1>2, <1>3, <1>4, AccountStays DEF Idle, Sends

\* addFinalizer and updateStatus write the resource of the uid that was read, and
\* removeFinalizer takes it away.
LEMMA ControllerAccounts ==
    ASSUME Guarded, Accounted, Typed', addFinalizer \/ removeFinalizer \/ updateStatus
    PROVE  Accounted'
<1>1. pc # "idle" /\ req \in Controllers /\ instance.version \in Nat
      /\ instance \in Object(ControllerContent(DefaultedSpecs(req)))
      /\ instance.content \in ControllerContent(DefaultedSpecs(req))
      /\ controllers[req] \in Object(ControllerContent(StoredSpecs(req)))
  <2>1. pc # "idle"
    BY DEF addFinalizer, removeFinalizer, updateStatus
  <2> QED BY <2>1, WorkerFacts DEF Guarded, Typed, WorkerTyped
<1>2. UidIsPast(instance) /\ UidIsPast(controllers[req]) /\ Exists(instance)
  BY <1>1 DEF Accounted, UidsArePast, Guarded, Typed, WorkerTyped
<1>3. instance.content.uid \in 1 .. instance.version
  BY <1>2 DEF UidIsPast
<1>4. CASE addFinalizer
  <2> DEFINE content == [instance.content EXCEPT !.finalizer = TRUE]
             answer == Update(controllers[req], instance, content)
  <2>1. content.uid = instance.content.uid
    BY <1>1 DEF ControllerContent
  <2>2. /\ WritesController(answer)
        /\ UNCHANGED <<objects, terminating, cacheVars>>
        /\ Retry \/ Continue(answer.object)
    BY <1>4 DEF addFinalizer, CallForController, WritesController, cacheVars
  <2> HIDE DEF content
  <2>3. /\ \A c \in Controllers : /\ controllers[c].version <= controllers'[c].version
                                  /\ UidIsPast(controllers'[c])
        /\ UidIsPast(answer.object)
    BY <1>1, <1>3, <2>1, <2>2, AnswerAccounts
  <2> HIDE DEF answer
  <2>4. /\ Idle \/ (pc' # "idle" /\ UidIsPast(instance'))
        /\ queue' \subseteq queue \cup {req}
    BY <2>2, <2>3, ContinueFacts, StepsDiffer DEF Retry
  <2> QED BY <1>1, <2>2, <2>3, <2>4, CallAccounts
<1>5. CASE removeFinalizer
  <2> DEFINE answer == Update(controllers[req], instance, Nothing)
  <2>1. /\ WritesController(answer)
        /\ UNCHANGED <<objects, terminating, cacheVars>>
        /\ Idle /\ queue' \subseteq queue \cup {req}
    BY <1>5 DEF removeFinalizer, CallForController, WritesController, cacheVars, Finish, Retry
  <2>2. \A c \in Controllers : /\ controllers[c].version <= controllers'[c].version
                               /\ UidIsPast(controllers'[c])
    BY <1>1, <2>1, AnswerAccounts
  <2> QED BY <1>1, <2>1, <2>2, CallAccounts
<1>6. CASE updateStatus
  <2> DEFINE content == [controllers[req].content EXCEPT !.deployed = TRUE]
             answer == Update(controllers[req], instance, content)
             copy == [instance EXCEPT !.version = answer.object.version,
                                      !.content.deployed = TRUE]
  <2>1. CASE SendNothing(Continue(instance))
    <3>1. EnsureEffect
      BY <1>6, <2>1, SendNothingEffect DEF updateStatus, Guarded, Typed, WorkerTyped, Steps
    <3> QED BY <3>1, EnsureAccounts
  <2>2. CASE ~SendNothing(Continue(instance))
    <3>1. Exists(controllers[req]) =>
             /\ controllers[req].content.uid \in 1 .. controllers[req].version
             /\ content.uid = controllers[req].content.uid
      <4>1. Exists(controllers[req]) =>
               controllers[req].content \in ControllerContent(StoredSpecs(req))
        BY <1>1 DEF Object, Exists
      <4> QED BY <1>2, <4>1 DEF UidIsPast, ControllerContent
    <3>2. /\ WritesController(answer)
          /\ UNCHANGED <<objects, terminating, cacheVars>>
          /\ Retry \/ (answer.ok /\ Continue(copy))
      BY <1>6, <2>2 DEF updateStatus, CallForController, WritesController, cacheVars
    <3> HIDE DEF content
    <3>3. /\ \A c \in Controllers : /\ controllers[c].version <= controllers'[c].version
                                    /\ UidIsPast(controllers'[c])
          /\ UidIsPast(answer.object) /\ controllers[req].version <= answer.object.version
      BY <1>1, <3>1, <3>2, AnswerAccounts
    <3>4. answer.ok => /\ controllers[req].version = instance.version
                       /\ answer.object = Written(controllers[req], content)
      BY UpdateFacts
    <3>5. answer.ok => answer.object.version \in Nat
      BY <1>1, <3>4, WrittenFacts DEF Object, Advances
    <3> HIDE DEF answer
    <3>6. answer.ok => UidIsPast(copy)
      <4>1. copy.version = answer.object.version /\ copy.content.uid = instance.content.uid
        BY <1>1 DEF Object, ControllerContent
      <4> HIDE DEF copy
      <4>2. answer.ok => instance.content.uid \in 1 .. answer.object.version
        BY <1>1, <1>3, <3>3, <3>4, <3>5
      <4> QED BY <4>1, <4>2 DEF UidIsPast
    <3> HIDE DEF copy
    <3>7. /\ Idle \/ (pc' # "idle" /\ UidIsPast(instance'))
          /\ queue' \subseteq queue \cup {req}
      BY <3>2, <3>6, ContinueFacts, StepsDiffer DEF Retry
    <3> QED BY <1>1, <3>2, <3>3, <3>7, CallAccounts
  <2> QED BY <2>1, <2>2
<1> QED BY <1>4, <1>5, <1>6

\* Who writes a resource from outside gives it its uid once.
LEMMA SetControllerAccounts ==
    ASSUME Guarded, Accounted, Typed', NEW c \in Controllers, NEW content,
           \/ content = Nothing
           \/ Exists(controllers[c]) /\ content.uid = controllers[c].content.uid
           \/ ~Exists(controllers[c]) /\ content.uid = controllers[c].version + 1,
           SetController(c, content), UNCHANGED <<controllerCache, queue, workerVars>>
    PROVE  Accounted'
<1>1. \A d \in Controllers : controllers[d].version \in Nat /\ UidIsPast(controllers[d])
  BY DEF Guarded, Typed, Object, Accounted, UidsArePast
<1>2. \A d \in Controllers : controllers'[d] = IF d = c THEN Written(controllers[c], content)
                                               ELSE controllers[d]
  BY DEF SetController, Guarded, Typed
<1>3. UidIsPast(Written(controllers[c], content))
      /\ controllers[c].version <= Written(controllers[c], content).version
  <2>1. Exists(controllers[c]) => controllers[c].content.uid \in 1 .. controllers[c].version
    BY <1>1 DEF UidIsPast
  <2> QED BY <1>1, <2>1, WrittenUid
<1>4. \A d \in Controllers : controllers[d].version <= controllers'[d].version
                             /\ UidIsPast(controllers'[d])
  BY <1>1, <1>2, <1>3
<1>5. UNCHANGED <<objects, pending, terminating, pc, req, instance>>
  BY DEF SetController, workerVars
<1>6. ControllersFollow
  BY <1>4, <1>5 DEF ControllersFollow, Accounted, UidsArePast, UidIsPast, Exists
<1>7. ObjectsFollow
  BY <1>5, NoObjectWritten
<1> QED BY <1>5, <1>6, <1>7, AccountStays DEF Accounted, Bookkeeping, Sends

\* Who writes an object from outside removes it, or writes what nobody owns.
LEMMA SetObjectAccounts ==
    ASSUME Guarded, Accounted, Typed', NEW k \in Keys, NEW content,
           content = Nothing \/ content = EditedCRD, Exists(objects[k]),
           SetObject(k, Written(objects[k], content)),
           UNCHANGED <<controllerCache, queue, workerVars>>
    PROVE  Accounted'
<1>1. UNCHANGED <<controllers, terminating, pc, req, instance>>
  BY DEF SetObject, workerVars
<1>2. Sends
  BY DEF SetObject, Sends
<1>3. Written(objects[k], content).content = content
  BY WrittenFacts DEF Guarded, Typed
<1>4. \A l \in Keys : objects'[l] = objects[l]
                      \/ (l = k /\ objects'[l].content = content)
  BY <1>3 DEF SetObject, Store, Guarded, Typed
<1>5. KeepsOwner(EditedCRD, objects[k].content)
  BY DEF EditedCRD, CRDContent, KeepsOwner
<1>6. ObjectsFollow
  BY <1>4, <1>5 DEF ObjectsFollow, KeepsOwner, Exists
<1>7. ControllersFollow
  BY <1>1, NoControllerWritten DEF Guarded
<1> QED BY <1>1, <1>2, <1>6, <1>7, AccountStays DEF Accounted, Bookkeeping

\* Users, the cluster and crashes.
LEMMA EnvironmentAccounts ==
    ASSUME Guarded, Accounted, Typed', User \/ Cluster \/ Crash PROVE Accounted'
<1>1. ASSUME NEW c \in Controllers, NEW manifest \in Specs, CreateController(c, manifest)
      PROVE  Accounted'
  <2> DEFINE content == [uid |-> controllers[c].version + 1, deleting |-> FALSE,
                         finalizer |-> FALSE, deployed |-> FALSE, spec |-> manifest]
  <2>1. SetController(c, content) /\ UNCHANGED <<controllerCache, queue, workerVars>>
        /\ ~Exists(controllers[c]) /\ content.uid = controllers[c].version + 1
    BY <1>1 DEF CreateController, Change
  <2> HIDE DEF content
  <2> QED BY <2>1, SetControllerAccounts
<1>2. ASSUME NEW c \in Controllers, NEW manifest \in Specs, UpdateController(c, manifest)
      PROVE  Accounted'
  <2> DEFINE content == [controllers[c].content EXCEPT !.spec = manifest]
  <2>1. controllers[c].content \in ControllerContent(StoredSpecs(c)) /\ Exists(controllers[c])
    BY <1>2 DEF UpdateController, Guarded, Typed, Object, Exists
  <2>2. content.uid = controllers[c].content.uid
    BY <2>1 DEF ControllerContent
  <2>3. SetController(c, content) /\ UNCHANGED <<controllerCache, queue, workerVars>>
    BY <1>2 DEF UpdateController, Change
  <2> HIDE DEF content
  <2> QED BY <2>1, <2>2, <2>3, SetControllerAccounts
<1>3. ASSUME NEW c \in Controllers, DeleteController(c) \/ EvictController(c) PROVE Accounted'
  <2> DEFINE content == Deletion(controllers[c].content)
  <2>1. Exists(controllers[c])
        /\ SetController(c, content) /\ UNCHANGED <<controllerCache, queue, workerVars>>
    BY <1>3 DEF DeleteController, EvictController, Change, Live
  <2>2. controllers[c].content \in ControllerContent(StoredSpecs(c))
    BY <2>1 DEF Guarded, Typed, Object, Exists
  <2>3. content = Nothing \/ content.uid = controllers[c].content.uid
    BY <2>2 DEF Deletion, ControllerContent
  <2> HIDE DEF content
  <2> QED BY <2>1, <2>3, SetControllerAccounts
<1>4. ASSUME NEW c \in Controllers, TerminateNamespace(c.ns) PROVE Accounted'
  <2>1. /\ UNCHANGED <<controllers, objects, pending, controllerCache, queue, workerVars>>
        /\ terminating' = terminating \cup {c.ns}
    BY <1>4 DEF TerminateNamespace, Change
  <2>2. ControllersFollow /\ ObjectsFollow
    BY <2>1, NoControllerWritten, NoObjectWritten DEF Guarded, workerVars
  <2> QED BY <2>1, <2>2, AccountStays DEF Accounted, Bookkeeping, Namespaces, Sends, workerVars
<1>5. ASSUME NEW k \in Keys, DriftObject(k) \/ CollectGarbage(k) \/ EvictObject(k)
      PROVE  Accounted'
  <2>1. UNCHANGED <<controllerCache, queue, workerVars>> /\ Exists(objects[k])
    BY <1>5 DEF DriftObject, CollectGarbage, EvictObject, Change, Garbage
  <2>2. \E content \in {Nothing, EditedCRD} : SetObject(k, Written(objects[k], content))
    BY <1>5 DEF DriftObject, CollectGarbage, EvictObject, Removed
  <2> QED BY <2>1, <2>2, SetObjectAccounts
<1>6. ASSUME NEW c \in Controllers, DeliverController(c) PROVE Accounted'
  <2>1. /\ UNCHANGED <<controllers, objects, pending, terminating, workerVars>>
        /\ queue' = queue \cup {c}
        /\ \A d \in Controllers : controllerCache'[d] \in {controllerCache[d], controllers[d]}
    BY <1>6 DEF DeliverController, serverVars, Guarded, Typed
  <2>2. ControllersFollow /\ ObjectsFollow
    BY <2>1, NoControllerWritten, NoObjectWritten DEF Guarded, workerVars
  <2> QED BY <2>1, <2>2, AccountStays DEF Accounted, Bookkeeping, Sends, workerVars
<1>7. ASSUME NEW k \in Keys, DeliverObject(k) PROVE Accounted'
  <2>1. /\ UNCHANGED <<controllers, objects, terminating, controllerCache, workerVars>>
        /\ queue' = queue \cup pending[k]
        /\ pending' = [pending EXCEPT ![k] = {}]
    BY <1>7 DEF DeliverObject, serverVars
  <2>2. ControllersFollow /\ ObjectsFollow
    BY <2>1, NoControllerWritten, NoObjectWritten DEF Guarded, workerVars
  <2>3. /\ pending' \in [Keys -> SUBSET Controllers]
        /\ queue' \subseteq Controllers
    BY <2>1 DEF Accounted, Bookkeeping
  <2> QED BY <2>1, <2>2, <2>3, AccountStays DEF Accounted, Bookkeeping, workerVars
<1>8. CASE Crash
  BY <1>8, StopsAccounts DEF Crash, Stops
<1> QED BY <1>1, <1>2, <1>3, <1>4, <1>5, <1>6, <1>7, <1>8 DEF User, Cluster

\* What the invariants say is what TypeOK says.
LEMMA AccountsAreTypes == ASSUME Guarded, Accounted PROVE TypeOK
<1>1. /\ \A c \in Controllers :
            {controllers[c], controllerCache[c]} \subseteq Object(ControllerContent(StoredSpecs(c)))
      /\ DOMAIN objects = Keys /\ DOMAIN objectCache = Keys
      /\ \A k \in Keys : objectCache[k].version <= objects[k].version
      /\ pc \in Steps
  BY DEF Guarded, Typed, Follows, WorkerTyped
<1>2. \A k \in Keys : Exists(objects[k]) => objects[k].content.owner \in {Nil} \cup
              UNION {{Owner(c, u) : u \in 1 .. controllers[c].version} : c \in Controllers}
  BY DEF Accounted, OwnersAreKnown, Incarnations
<1>3. IF pc = "idle"
      THEN req = Nil /\ instance = NeverStored
      ELSE req \in Controllers /\ instance.content \in ControllerContent(DefaultedSpecs(req))
  BY WorkerFacts DEF Guarded, Accounted, Bookkeeping
<1> QED BY <1>1, <1>2, <1>3 DEF TypeOK, Accounted, Bookkeeping, Namespaces

\* Nothing is there at the start.
LEMMA InitAccounts == ASSUME Init PROVE Guarded /\ Accounted
<1>1. /\ \A c \in Controllers : ~Exists(controllers[c]) /\ ~Exists(controllerCache[c])
      /\ \A k \in Keys : ~Exists(objects[k])
  BY DEF Init, Exists, NeverStored
<1>2. UidsArePast /\ OwnersAreKnown
  BY <1>1 DEF UidsArePast, OwnersAreKnown, UidIsPast, Init
<1>3. Bookkeeping
  BY DEF Init, Bookkeeping, Namespaces
<1> QED BY <1>2, <1>3, InitGuard DEF Accounted

\* Every step keeps the accounts.
LEMMA StepAccounts ==
    ASSUME Guarded, Accounted, [Next]_vars PROVE Guarded' /\ Accounted'
<1>1. Guarded' /\ Typed /\ Typed'
  BY StepGuard DEF Guarded
<1>2. ASSUME NEW c \in Controllers, Reconcile(c) PROVE Accounted'
  BY <1>1, <1>2, ReconcileAccounts
<1>3. CASE Worker
  BY <1>1, <1>3, WorkerSteps, NamespaceAccounts, ControllerAccounts, FinalizeFacts,
     EnsureAccounts, StopsAccounts
<1>4. CASE Cluster \/ User \/ Crash
  BY <1>1, <1>4, EnvironmentAccounts
<1>5. CASE UNCHANGED vars
  <2>1. UNCHANGED <<controllers, objects, terminating, controllerCache, pending, queue,
                    pc, req, instance>>
    BY <1>5 DEF vars, serverVars, cacheVars, workerVars
  <2>2. ControllersFollow /\ ObjectsFollow
    BY <1>1, <2>1, NoControllerWritten, NoObjectWritten
  <2> QED BY <1>1, <2>1, <2>2, AccountStays DEF Accounted, Bookkeeping, Sends
<1> QED BY <1>1, <1>2, <1>3, <1>4, <1>5 DEF Next

\* Every variable has its type in every reachable state; no owner is an
\* incarnation that was never there, and no copy runs ahead of the server.
THEOREM TypeCorrect == Spec => []TypeOK
<1>1. Init => Guarded /\ Accounted
  BY InitAccounts
<1>2. Guarded /\ Accounted /\ [Next]_vars => (Guarded /\ Accounted)'
  BY StepAccounts
<1>3. Guarded /\ Accounted => TypeOK
  BY AccountsAreTypes
<1> QED BY <1>1, <1>2, <1>3, PTL DEF Spec
=============================================================================
