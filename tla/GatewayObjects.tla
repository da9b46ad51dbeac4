--------------------------- MODULE GatewayObjects ---------------------------
(***************************************************************************)
(* What a HigressGateway asks for and the objects the operator derives     *)
(* from it.  A gateway is its namespaced name [ns, name].  A spec keeps    *)
(* what the control flow looks at, and `config` for all the rest; Nil is a *)
(* pointer the manifest leaves unset.  Contents have the owner reference   *)
(* as field `owner`, Nil when the code sets none.                          *)
(***************************************************************************)
EXTENDS Naturals, FiniteSets

CONSTANTS Gateways,   \* the names a HigressGateway can be created under
          Specs,      \* the specs a user may write
          Nil

Text == STRING \cup {"", "istiod"}
Name == Text \ {""}

ServiceAccountSpec == [enable : BOOLEAN, name : Text]
SkywalkingSpec == [enable : BOOLEAN, scripted : BOOLEAN]
ServiceSpec == [loadBalancerIP : Text]

GatewaySpec == [rbac : BOOLEAN \cup {Nil},
          serviceAccount : ServiceAccountSpec \cup {Nil},
          skywalking : SkywalkingSpec \cup {Nil},
          service : ServiceSpec \cup {Nil},
          selector : Text,          \* "" while SelectorLabels is empty
          enableHigressIstio : BOOLEAN,
          discoveryAddress : Text,
          network : BOOLEAN,          \* NetWorkGateway is set
          labelled : BOOLEAN,         \* metadata.labels is not empty
          env : SUBSET Text,        \* the keys of the map Env
          config : Text]

ASSUME GatewaysAssumption == Gateways \subseteq [ns : Name, name : Name]
ASSUME SpecsAssumption == Specs \subseteq GatewaySpec

setDefaultValues(g, spec) ==
    [spec EXCEPT
        !.rbac = IF @ = Nil THEN TRUE ELSE @,
        !.serviceAccount = IF @ = Nil THEN [enable |-> TRUE, name |-> g.name] ELSE @,
        !.selector = IF @ = "" THEN g.name ELSE @,
        !.service = IF @ = Nil THEN [loadBalancerIP |-> ""] ELSE @,
        !.skywalking = IF @ = Nil THEN [enable |-> FALSE, scripted |-> FALSE] ELSE @]

\* The specs of g once the defaults are in, and all that a resource can hold:
\* the defaults are stored with the finalizer.
DefaultedSpecs(g) == {setDefaultValues(g, spec) : spec \in Specs}
StoredSpecs(g) == Specs \cup DefaultedSpecs(g)

-----------------------------------------------------------------------------
\* Identities.

getServiceAccount(g, spec) ==
    IF spec.serviceAccount.name # "" THEN spec.serviceAccount.name ELSE g.name

Subject(g, spec) == [name |-> getServiceAccount(g, spec), ns |-> g.ns]

\* The controller reference: the kind is always HigressGateway.
Owner(g, uid) == [gateway |-> g, uid |-> uid]

AllKinds == {"ServiceAccount", "ClusterRole", "ClusterRoleBinding", "Role",
             "RoleBinding", "ConfigMap", "Deployment", "Service"}

role == "higress-gateway"
clusterRole == "higress-gateway"

Key(kind, ns, name) == [name |-> name, ns |-> ns, kind |-> kind]

\* The metadata of each init function: initServiceAccount, initClusterRole,
\* initClusterRoleBinding, initRole, initRoleBinding, initGatewayConfigMap,
\* initDeployment, initService.  Cluster scoped objects have the namespace "".
KeyOf(kind, g, spec) ==
    CASE kind = "ServiceAccount" -> Key(kind, g.ns, getServiceAccount(g, spec))
      [] kind = "ClusterRole" -> Key(kind, "", clusterRole)
      [] kind = "ClusterRoleBinding" -> Key(kind, "", getServiceAccount(g, spec))
      [] kind \in {"Role", "RoleBinding"} -> Key(kind, g.ns, role)
      [] OTHER -> Key(kind, g.ns, g.name)

KeysOf(g, kinds) == {KeyOf(kind, g, spec) : kind \in kinds, spec \in DefaultedSpecs(g)}

-----------------------------------------------------------------------------
\* The contents of the objects, by kind.

\* The range over the map Env at the end of genEnv: any order of its entries.
Orderings(S) ==
    {f \in [1 .. Cardinality(S) -> S] : \A i, j \in DOMAIN f : f[i] = f[j] => i = j}

Subjects == UNION {{Subject(g, spec) : spec \in DefaultedSpecs(g)} : g \in Gateways}
Owners == [gateway : Gateways, uid : Nat]
Environments == UNION {Orderings(spec.env) : spec \in Specs}

ContentOf(kind) ==
    CASE kind = "ServiceAccount" -> [owner : Owners]
      [] kind \in {"ClusterRole", "Role"} -> [owner : {Nil}, rules : {"secrets"}]
      [] kind \in {"ClusterRoleBinding", "RoleBinding"} ->
            [owner : {Nil}, subjects : SUBSET Subjects]
      [] kind = "ConfigMap" ->
            [owner : {Nil}, mesh : [discoveryAddress : Text, config : Text]]
      [] kind = "Deployment" ->
            [owner : Owners, serviceAccountName : Text, selector : Text,
             config : Text, env : Environments]
      [] kind = "Service" ->
            [owner : Owners, labelled : BOOLEAN, selector : Text,
             loadBalancerIP : Text, config : Text]

-----------------------------------------------------------------------------
\* The contents: init* builds a new object, update* and mute* change a stored one.

initServiceAccount(g, uid) == [owner |-> Owner(g, uid)]

initRules == [owner |-> Nil, rules |-> "secrets"]
muteRules(stored) == [stored EXCEPT !.rules = "secrets"]

initClusterRoleBinding(g, spec) == [owner |-> Nil, subjects |-> {Subject(g, spec)}]
updateClusterRoleBinding(stored, g, spec) ==
    [stored EXCEPT !.subjects = @ \cup {Subject(g, spec)}]

initRoleBinding(g, spec) == [owner |-> Nil, subjects |-> {Subject(g, spec)}]
WithoutNamespace(stored, g, spec) ==    \* variant: the subject names no namespace
    [stored EXCEPT !.subjects = @ \cup {[name |-> getServiceAccount(g, spec), ns |-> ""]}]
updateRoleBinding(stored, g, spec) ==
    [stored EXCEPT !.subjects = @ \cup {Subject(g, spec)}]

\* Each call writes the mesh configuration it copied before it fills in the
\* discovery address of the instance: only the next call on the same instance
\* writes the address.
updateGatewayConfigMapSpec(g, spec) ==
    [mesh |-> [discoveryAddress |-> spec.discoveryAddress, config |-> spec.config],
     spec |-> [spec EXCEPT !.discoveryAddress =
                  IF @ # "" THEN @
                  ELSE IF spec.enableHigressIstio THEN "istiod" ELSE g.name]]

WrittenOnce(g, spec) ==     \* variant: the address of the first call is the last word
    [owner |-> Nil, mesh |-> updateGatewayConfigMapSpec(g, spec).mesh]

\* CreateOrUpdate is given an initialised object and mutates it once more,
\* whether it creates or updates.
GatewayConfigMap(g, spec) ==
    LET initialised == updateGatewayConfigMapSpec(g, spec)
        muted == updateGatewayConfigMapSpec(g, initialised.spec)
    IN  [owner |-> Nil, mesh |-> muted.mesh]

\* Without a script updateSkywalkingConfigMap is an error; with one, the script is
\* put into the nil map of a ConfigMap that has no data yet.
SkywalkingPanics(spec) == spec.skywalking.scripted

updateDeploymentSpec(g, spec, owner, env) ==
    [owner |-> owner,
     serviceAccountName |->
        IF spec.serviceAccount.enable THEN spec.serviceAccount.name ELSE "",
     selector |-> spec.selector,
     config |-> spec.config,
     env |-> env]

\* Labels are set when the Service is created and on no later update.  An
\* address that is cleared in the spec stays on the Service.
initService(g, uid, spec) ==
    [owner |-> Owner(g, uid),
     labelled |-> spec.labelled,
     selector |-> spec.selector,
     loadBalancerIP |-> spec.service.loadBalancerIP,
     config |-> spec.config]

ResetLabels(stored, spec) ==    \* variant: an update starts from an empty object
    [owner |-> stored.owner, labelled |-> FALSE, selector |-> spec.selector,
     loadBalancerIP |-> spec.service.loadBalancerIP, config |-> spec.config]
updateServiceSpec(stored, spec) ==
    [stored EXCEPT
        !.selector = spec.selector,
        !.loadBalancerIP = IF spec.service.loadBalancerIP # ""
                           THEN spec.service.loadBalancerIP ELSE @,
        !.config = spec.config]

\* The topology label is written into the labels of the Service: a nil map if
\* there are none.
ServicePanics(spec, labelled) == spec.network /\ ~labelled
=============================================================================
