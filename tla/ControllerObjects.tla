-------------------------- MODULE ControllerObjects --------------------------
(***************************************************************************)
(* The objects the operator keeps for a HigressController and for its      *)
(* console: their names and what init*, update* and mute* put into them.   *)
(* A name is the sequence of the parts the code joins.                     *)
(***************************************************************************)
EXTENDS ControllerPods

CONSTANT Controllers    \* the names a HigressController can be created under

ASSUME ControllersAssumption == Controllers \subseteq [ns : Text \ {""}, name : Text \ {""}]

DefaultedSpecs(c) == {setDefaultValues(c, spec) : spec \in Specs}
StoredSpecs(c) == Specs \cup DefaultedSpecs(c)

HasConsole(spec) == spec.console.name # ""
AccessOn(spec) == spec.rbac /\ spec.serviceAccount.enable

-----------------------------------------------------------------------------
\* The steps of a pass that keep an object, and the object each one keeps.

RBACSteps == {"ClusterRole", "ClusterRoleBinding", "Role", "RoleBinding"}
ControllerSteps == {"CRD", "ServiceAccount", "ConfigMap", "Deployment", "IngressClass", "Service"}
                   \cup RBACSteps
ConsoleSteps == {"ConsoleClusterRole", "ConsoleClusterRoleBinding", "ConsoleRole",
                 "ConsoleRoleBinding", "ConsoleServiceAccount", "ConsoleConfigMap",
                 "ConsoleDeployment", "ConsoleService"}

Key(kind, ns, name) == [kind |-> kind, ns |-> ns, name |-> name]

role == <<"higress-controller">>

\* The metadata that the init function of each step gives its object, here and in
\* higressconsole.  Cluster scoped objects have the namespace "".  One of the
\* embedded CRDs stands for all of them.
KeyOf(step, c, spec) ==
    LET account == getServiceAccount(c, spec)
        console == spec.console.name
    IN  CASE step = "CRD" -> Key(step, "", <<"crd">>)
          [] step = "ServiceAccount" -> Key(step, c.ns, <<account>>)
          [] step = "ClusterRole" -> Key(step, "", <<c.ns, spec.controller.name>>)
          [] step = "ClusterRoleBinding" -> Key(step, "", <<c.ns, account>>)
          [] step = "Role" -> Key(step, c.ns, role)
          [] step = "RoleBinding" -> Key(step, c.ns, <<account>>)
          [] step = "ConfigMap" -> Key(step, c.ns, <<"cm", c.name>>)
          [] step \in {"Deployment", "Service"} -> Key(step, c.ns, <<c.name>>)
          [] step = "IngressClass" -> Key(step, "", <<spec.ingressClass>>)
          [] step = "ConsoleClusterRole" -> Key("ClusterRole", "", <<console, c.ns>>)
          [] step = "ConsoleClusterRoleBinding" ->
                Key("ClusterRoleBinding", "", <<c.ns, console>>)
          [] step = "ConsoleRole" -> Key("Role", c.ns, <<console>>)
          [] step = "ConsoleRoleBinding" -> Key("RoleBinding", c.ns, <<console>>)
          [] step = "ConsoleServiceAccount" -> Key("ServiceAccount", c.ns, <<console>>)
          [] step = "ConsoleConfigMap" -> Key("ConfigMap", c.ns, <<console>>)
          [] step = "ConsoleDeployment" -> Key("Deployment", c.ns, <<console>>)
          [] step = "ConsoleService" -> Key("Service", c.ns, <<console>>)

\* createDeployment first looks for a Deployment of this name.
LookedUp(c, spec) == Key("Deployment", c.ns, <<spec.controller.name>>)

KeysOf(c, steps) ==
    UNION {LET taken == {s \in steps : s \in ConsoleSteps => HasConsole(spec)}
           IN  {KeyOf(step, c, spec) : step \in taken} : spec \in DefaultedSpecs(c)}

-----------------------------------------------------------------------------
\* The contents.  Those without an owner reference have the owner Nil.

Owner(c, uid) == [controller |-> c, uid |-> uid]

\* What createCRDs compares the stored spec with and writes: the embedded manifest.
CRDContent == [owner |-> Nil, spec |-> "embedded"]
EditedCRD == [CRDContent EXCEPT !.spec = "edited"]

WithoutUid(c, uid) == [owner |-> Owner(c, 0)]   \* variant: the reference has no uid
initServiceAccount(c, uid) == [owner |-> Owner(c, uid)]
initConsoleServiceAccount == [owner |-> Nil]

\* The rules of initClusterRole of the console never reach the server: the
\* object is mutated before it is created.
defaultRules == "controller"
consoleDefaultRules == "console"
initRole(rules) == [owner |-> Nil, rules |-> rules]

Subject(c, spec) == [name |-> <<getServiceAccount(c, spec)>>, ns |-> c.ns]

NoBinding == [owner |-> Nil, roleRef |-> <<>>, subjects |-> {}]

\* update* of a binding: the role it refers to is written again, the subject is
\* added to those that are there.
WithSubject(stored, roleRef, subject) ==
    [stored EXCEPT !.roleRef = roleRef, !.subjects = @ \cup {subject}]

updateClusterRoleBinding(stored, c, spec) ==
    WithSubject(stored, <<c.ns, spec.controller.name>>, Subject(c, spec))
updateRoleBinding(stored, c, spec) == WithSubject(stored, role, Subject(c, spec))
updateConsoleClusterRoleBinding(stored, c, spec) ==
    WithSubject(stored, <<spec.console.name, c.ns>>, [name |-> <<spec.console.name>>, ns |-> c.ns])

\* The subject is no account the operator creates.
updateConsoleRoleBinding(stored, c, spec) ==
    WithSubject(stored, <<spec.console.name>>, [name |-> <<spec.console.name, c.ns>>, ns |-> c.ns])

\* As for the gateway, a call writes the mesh configuration it copied before it
\* fills in the discovery address, and the second call of the pass writes it.
updateGatewayConfigMapSpec(c, spec) ==
    [mesh |-> <<spec.discoveryAddress, spec.config>>,
     spec |-> [spec EXCEPT !.discoveryAddress =
                  IF @ # "" THEN @ ELSE IF spec.enableHigressIstio THEN "istiod" ELSE c.name]]

OnlyOnce(c, spec) ==    \* variant: the ConfigMap is built once
    [owner |-> Nil, mesh |-> updateGatewayConfigMapSpec(c, spec).mesh]
initGatewayConfigMap(c, spec) ==
    [owner |-> Nil,
     mesh |-> updateGatewayConfigMapSpec(c, updateGatewayConfigMapSpec(c, spec).spec).mesh]

\* Keys are added to the data of the console, none is removed.
updateConsoleConfigMapSpec(stored, spec) ==
    [stored EXCEPT !.data = (@ \ {e \in @ : e[1] = "ingressClass"})
                            \cup {<<"ingressClass", spec.ingressClass>>}
                            \cup {<<key>> : key \in Given(spec.consoleConfig)}]
initConsoleConfigMap(spec) == updateConsoleConfigMapSpec([owner |-> Nil, data |-> {}], spec)

initIngressclass(c, spec, uid) == [owner |-> Owner(c, uid), controller |-> spec.ingressClass]

updateServiceSpec(stored, spec) ==
    [stored EXCEPT !.selector = spec.selector, !.ports = ServicePorts(spec, @)]
initService(spec, owner) ==
    updateServiceSpec([owner |-> owner, selector |-> "", ports |-> {}], spec)

\* The selector is set while the Service has no type, that is, once.
updateConsoleServiceSpec(stored, spec) ==
    [stored EXCEPT !.ports = ConsoleServicePorts(spec, @)]
initConsoleService(spec, owner) ==
    updateConsoleServiceSpec(
        [owner |-> owner, selector |-> spec.consoleSelector, ports |-> {Port("http", 8080)}], spec)
=============================================================================
