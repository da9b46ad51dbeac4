--------------------------- MODULE ControllerPods ---------------------------
(***************************************************************************)
(* What the Deployments and Services of a HigressController and of its     *)
(* console are built from.  A HigressController is its namespaced name     *)
(* [ns, name].  The operator does not own these objects alone: updates     *)
(* merge containers, variables and ports into what is stored.              *)
(*                                                                         *)
(* Variables, flags and ports are sets of records.  What is the same for   *)
(* every spec (fixed variables and flags, mount paths, probes) is left     *)
(* out; so are switches of the spec that end up in one variable or flag in *)
(* the way of one that is kept.                                            *)
(***************************************************************************)
EXTENDS Naturals, Sequences

CONSTANTS Nil, Specs    \* the specs a user may write; Nil is an unset pointer

\* The texts that the code itself writes.  They are strings like any other; they
\* are named because the provers do not know that of a literal.
Literals ==
    {"", "POD_NAMESPACE", "POD_NAME", "SERVICE_ACCOUNT", "JWT_POLICY", "CLUSTER_ID", "Kubernetes",
     "ISTIOD_ADDR", "istiod", "PILOT_TRACE_SAMPLING", "CUSTOM_CA_CERT_NAME",
     "higress-ca-root-cert", "third-party-jwt", "first-party-jwt", "log", "config", "local-certs",
     "cacerts", "istio-kubeconfig", "istio-token", "extracacerts", "higress-core", "discovery",
     "sidecar", "Always", "gatewaySelectorValue", "ingressClass", "log_output_level",
     "enableStatus", "false", "watchNamespace", "http", "grpc", "grpc-xds", "http-service",
     "https-dns", "https-webhook", "https-monitoring"}

Text == STRING \cup Literals

Var(name, value) == [name |-> name, value |-> value]
Reference(names) == {Var(name, "") : name \in names}    \* valueFrom: no value of its own
Port(name, port) == [name |-> name, port |-> port]
If(condition, S) == IF condition THEN S ELSE {}
Given(text) == {text} \ {""}                            \* an optional string

ContainerSpec == [name : Text, image : Text, pullPolicy : Text, logLevel : Text,
                  env : SUBSET [name : Text, value : Text],
                  ports : SUBSET [name : Text, port : Nat],
                  resources : Text \cup {Nil}]

HigressControllerSpec ==
    [rbac : BOOLEAN \cup {Nil},
     serviceAccount : [enable : BOOLEAN, name : Text] \cup {Nil},
     selector : Text,                   \* "" while SelectorLabels is empty
     service : (SUBSET [name : Text, port : Nat]) \cup {Nil},     \* its ports
     enableHigressIstio : BOOLEAN, enableStatus : BOOLEAN,
     jwtPolicy : {"third-party-jwt", "first-party-jwt"},
     ingressClass : Text, revision : Text,
     discoveryAddress : Text, config : Text,    \* the mesh configuration
     controller : ContainerSpec, gatewayName : Text, watchNamespace : Text,
     pilot : ContainerSpec, traceSampling : Text, jwksResolveExtraRootCA : Text,
     console : ContainerSpec, consoleSelector : Text, consoleConfig : Text]

ASSUME SpecsAssumption == Specs \subseteq HigressControllerSpec

setDefaultValues(c, spec) ==
    [spec EXCEPT
        !.rbac = IF @ = Nil THEN TRUE ELSE @,
        !.serviceAccount = IF @ = Nil THEN [enable |-> TRUE, name |-> c.name] ELSE @,
        !.selector = IF @ = "" THEN spec.controller.name ELSE @]

-----------------------------------------------------------------------------
\* higresscontroller/deployment.go: the parts of the two containers.

genControllerName(spec) ==
    IF spec.controller.name # "" THEN spec.controller.name ELSE "higress-core"
genPilotName(spec) == IF spec.pilot.name # "" THEN spec.pilot.name ELSE "discovery"
OwnNames(spec) == {genControllerName(spec), genPilotName(spec)}

getServiceAccount(c, spec) ==
    IF spec.serviceAccount.name # "" THEN spec.serviceAccount.name ELSE c.name

genControllerArgs(c, spec) ==
    {<<"gatewaySelectorValue", c.ns, spec.gatewayName>>, <<"ingressClass", spec.ingressClass>>}
    \cup {<<"log_output_level", level>> : level \in Given(spec.controller.logLevel)}
    \cup If(~spec.enableStatus, {<<"enableStatus", "false">>})
    \cup {<<"watchNamespace", ns>> : ns \in Given(spec.watchNamespace)}

genPilotArgs(spec) ==
    {<<"discovery">>} \cup {<<"log_output_level", level>> : level \in Given(spec.pilot.logLevel)}

genControllerPorts(spec) ==
    IF spec.controller.ports # {} THEN spec.controller.ports
    ELSE {Port("http", 8888), Port("grpc", 15051)}

\* The default ports of the pilot have no names.
genPilotPorts(spec) ==
    IF spec.pilot.ports # {} THEN spec.pilot.ports
    ELSE {Port("", 8080), Port("", 15017), Port("", 15010)}

genControllerVolumeMounts == {"log"}

genPilotVolumeMounts(spec) ==
    {"config", "local-certs", "cacerts", "istio-kubeconfig"}
    \cup If(spec.jwtPolicy = "third-party-jwt", {"istio-token"})
    \cup If(spec.jwksResolveExtraRootCA # "", {"extracacerts"})

WithoutToken(spec) ==   \* variant: the volume of the token is forgotten
    {"log", "local-certs", "cacerts", "istio-kubeconfig"}
    \cup If(~spec.enableHigressIstio, {"config"})
    \cup If(spec.jwksResolveExtraRootCA # "", {"extracacerts"})
genVolumes(spec) ==
    {"log", "local-certs", "cacerts", "istio-kubeconfig"}
    \cup If(~spec.enableHigressIstio, {"config"})
    \cup If(spec.jwtPolicy = "third-party-jwt", {"istio-token"})
    \cup If(spec.jwksResolveExtraRootCA # "", {"extracacerts"})

-----------------------------------------------------------------------------
\* The environment: the stored one is kept while no variable that is wanted
\* differs from it, because the server has completed it with defaults.  A
\* variable that is not there reads as "".

Value(env, name) ==
    IF \E e \in env : e.name = name THEN (CHOOSE e \in env : e.name = name).value ELSE ""
Has(env, name) == \E e \in env : e.name = name

KeepOld(wanted, old, required) == old       \* variant: the stored environment always wins
MergeEnv(wanted, old, required) ==
    IF \E e \in wanted : \/ Value(old, e.name) # e.value
                         \/ e.name \in required /\ ~Has(old, e.name)
    THEN wanted ELSE old

ControllerEnv(spec) == Reference({"POD_NAMESPACE", "POD_NAME"}) \cup spec.controller.env
genControllerEnv(spec, old) == MergeEnv(ControllerEnv(spec), old, {"POD_NAMESPACE", "POD_NAME"})

PilotEnv(spec) ==
    Reference({"POD_NAMESPACE", "POD_NAME", "SERVICE_ACCOUNT"})
    \cup {Var("JWT_POLICY", spec.jwtPolicy), Var("CLUSTER_ID", "Kubernetes")}
    \cup {Var("ISTIOD_ADDR", IF spec.revision # "" THEN spec.revision ELSE "istiod")}
    \cup {Var("PILOT_TRACE_SAMPLING", sampling) : sampling \in Given(spec.traceSampling)}
    \cup If(~spec.enableHigressIstio, {Var("CUSTOM_CA_CERT_NAME", "higress-ca-root-cert")})
    \cup spec.pilot.env
genPilotEnv(spec, old) == MergeEnv(PilotEnv(spec), old, {})

-----------------------------------------------------------------------------
\* The merge of the containers.

Container == [name : Text, pullPolicy : Text, image : Text,
              env : SUBSET [name : Text, value : Text],
              ports : SUBSET [name : Text, port : Nat],
              args : SUBSET Seq(Text), resources : Text \cup {Nil}, mounts : SUBSET Text]

\* A stored container with the name of the controller or of the pilot is
\* rewritten; both get the resources of the controller, and neither gets a new
\* pull policy.  Any other container is not the operator's.
ControllerContainer(c, spec, old) ==
    [old EXCEPT !.image = spec.controller.image,
                !.env = genControllerEnv(spec, @),
                !.ports = genControllerPorts(spec),
                !.args = genControllerArgs(c, spec),
                !.resources = spec.controller.resources,
                !.mounts = genControllerVolumeMounts]

PilotContainer(c, spec, old) ==
    [old EXCEPT !.image = spec.pilot.image,
                !.env = genPilotEnv(spec, @),
                !.ports = genPilotPorts(spec),
                !.args = genPilotArgs(spec),
                !.resources = spec.controller.resources,
                !.mounts = genPilotVolumeMounts(spec)]

Refreshed(c, spec, old) ==
    CASE old.name = genControllerName(spec) -> ControllerContainer(c, spec, old)
      [] old.name = genPilotName(spec) /\ old.name # genControllerName(spec) ->
            PilotContainer(c, spec, old)
      [] OTHER -> old

Blank(name, policy) ==
    [name |-> name, pullPolicy |-> policy, image |-> "", env |-> {}, ports |-> {},
     args |-> {}, resources |-> Nil, mounts |-> {}]

\* A container that is appended has what a rewritten one has, except that the
\* resources of the pilot are its own.
NewController(c, spec) ==
    ControllerContainer(c, spec, Blank(genControllerName(spec), spec.controller.pullPolicy))
NewPilot(c, spec) ==
    [PilotContainer(c, spec, Blank(genPilotName(spec), spec.controller.pullPolicy))
        EXCEPT !.resources = spec.pilot.resources]

Contains(containers, name) == \E i \in DOMAIN containers : containers[i].name = name
ControllerExists(spec, containers) == Contains(containers, genControllerName(spec))
PilotExists(spec, containers) ==
    genPilotName(spec) # genControllerName(spec) /\ Contains(containers, genPilotName(spec))

Rebuild(c, spec, containers) == <<NewController(c, spec), NewPilot(c, spec)>>    \* variant
MergeContainers(c, spec, containers) ==
    [i \in DOMAIN containers |-> Refreshed(c, spec, containers[i])]
    \o (IF ControllerExists(spec, containers) THEN <<>> ELSE <<NewController(c, spec)>>)
    \o (IF PilotExists(spec, containers) THEN <<>> ELSE <<NewPilot(c, spec)>>)

\* A manifest may leave the resources out; the code dereferences them.
DeploymentPanics(spec, containers) ==
    \/ spec.controller.resources = Nil
    \/ spec.pilot.resources = Nil /\ ~PilotExists(spec, containers)

NoDeployment == [owner |-> Nil, selector |-> "", account |-> "", volumes |-> {},
                 containers |-> <<>>]

updateDeploymentSpec(c, spec, stored) ==
    [stored EXCEPT !.selector = spec.selector,
                   !.account = getServiceAccount(c, spec),
                   !.volumes = genVolumes(spec),
                   !.containers = MergeContainers(c, spec, @)]

UpdatedOnce(c, spec, owner) ==      \* variant: what is created was updated once
    updateDeploymentSpec(c, spec, [NoDeployment EXCEPT !.owner = owner])

Unowned(c, spec, owner) ==          \* variant: the owner reference is forgotten
    UpdatedOnce(c, spec, Nil)

\* CreateOrUpdate mutates the object it is given before it creates it, so a new
\* Deployment has been through the update twice.
initDeployment(c, spec, owner) ==
    updateDeploymentSpec(c, spec,
        updateDeploymentSpec(c, spec, [NoDeployment EXCEPT !.owner = owner]))

\* What the API server asks of a Deployment.
ValidDeployment(deployment) ==
    /\ \A i \in DOMAIN deployment.containers :
          deployment.containers[i].mounts \subseteq deployment.volumes
    /\ \A i, j \in DOMAIN deployment.containers :
          deployment.containers[i].name = deployment.containers[j].name => i = j

\* What it asks of a Service: ports, no two of one name and no two of one number.
ValidPorts(ports) ==
    /\ ports # {}
    /\ \A p, q \in ports : p.name = q.name \/ p.port = q.port => p = q

-----------------------------------------------------------------------------
\* higressconsole/deployment.go.

genConsoleEnv(spec) == spec.controller.env
genConsolePorts(spec) ==
    IF spec.controller.ports # {} THEN spec.console.ports ELSE {Port("http", 8080)}

NewConsole(spec) ==
    [name |-> "higressconsole", pullPolicy |-> spec.controller.pullPolicy,
     image |-> spec.console.image, env |-> genConsoleEnv(spec), ports |-> genConsolePorts(spec),
     args |-> {}, resources |-> Nil, mounts |-> {"access-token"}]

\* The loop edits its own copy of a stored container: nothing of it changes.
updateConsoleDeploymentSpec(spec, stored) ==
    [stored EXCEPT !.selector = spec.selector,
                   !.account = spec.console.name,
                   !.volumes = {"access-token"},
                   !.containers = IF Contains(@, "higressconsole") THEN @
                                  ELSE Append(@, NewConsole(spec))]

initConsoleDeployment(spec, owner) ==
    updateConsoleDeploymentSpec(spec, [NoDeployment EXCEPT !.owner = owner])

-----------------------------------------------------------------------------
\* The two Services.

DefaultPorts == {Port("grpc-xds", 15010), Port("http-service", 8888), Port("https-dns", 15012),
                 Port("https-webhook", 443), Port("https-monitoring", 15014)}

\* The ports whose name is not taken yet.
Missing(wanted, ports) == {p \in wanted : \A q \in ports : q.name # p.name}

\* Without a service in the spec the stored ports are the start.
Overwrite(spec, ports) ==   \* variant: the default ports replace those of the same name
    DefaultPorts \cup (IF spec.service = Nil THEN ports ELSE spec.service)
ServicePorts(spec, ports) ==
    LET start == IF spec.service = Nil THEN ports ELSE spec.service
    IN  start \cup If(~spec.enableHigressIstio, Missing(DefaultPorts, start))

\* The console's Service takes the service of the controller, and only ports
\* it does not have.
ConsoleServicePorts(spec, ports) ==
    IF spec.service = Nil THEN ports ELSE ports \cup Missing(spec.service, ports)
=============================================================================
