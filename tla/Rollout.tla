------------------------------- MODULE Rollout -------------------------------
(***************************************************************************)
(* One HigressController whose spec is edited again and again, and the     *)
(* Deployment and the Service it leaves in the cluster, one pass at a      *)
(* time: what the merges of ControllerPods make of a long history of       *)
(* specs.  Somebody else may put a container of his own into the pods.     *)
(***************************************************************************)
EXTENDS ControllerPods

CONSTANT Self       \* the HigressController

ASSUME SelfAssumption == Self \in [ns : Text \ {""}, name : Text \ {""}]

VARIABLES
    spec,           \* what the user asks for
    deployment,     \* the stored Deployment, NoDeployment before the first pass
    ports,          \* the ports of the stored Service
    rolled          \* the last pass saw this spec

vars == <<spec, deployment, ports, rolled>>

Sidecar == Blank("sidecar", "Always")

\* What Reconcile works with.
wanted == setDefaultValues(Self, spec)

Init ==
    /\ spec \in Specs
    /\ deployment = NoDeployment
    /\ ports = {}
    /\ rolled = FALSE

Edit(s) ==
    /\ s # spec
    /\ spec' = s
    /\ rolled' = FALSE
    /\ UNCHANGED <<deployment, ports>>

\* createDeployment and createService of one pass.
Roll ==
    /\ ~DeploymentPanics(wanted, deployment.containers)
    /\ deployment' = IF deployment = NoDeployment
                     THEN initDeployment(Self, wanted, Self)
                     ELSE updateDeploymentSpec(Self, wanted, deployment)
    /\ ports' = ServicePorts(wanted, ports)
    /\ rolled' = TRUE
    /\ UNCHANGED spec

Inject ==
    /\ deployment # NoDeployment
    /\ ~Contains(deployment.containers, Sidecar.name)
    /\ deployment' = [deployment EXCEPT !.containers = Append(@, Sidecar)]
    /\ UNCHANGED <<spec, ports, rolled>>

Next == (\E s \in Specs : Edit(s)) \/ Roll \/ Inject

Spec == Init /\ [][Next]_vars

-----------------------------------------------------------------------------
\* The pods.

\* Every variable has its type, and what the operator has created has its owner:
\* SetControllerReference of initDeployment.
TypeOK ==
    /\ spec \in Specs
    /\ deployment \in [owner : {Self}, selector : Text, account : Text, volumes : SUBSET Text,
                       containers : Seq(Container)] \cup {NoDeployment}
    /\ ports \subseteq [name : Text, port : Nat]
    /\ rolled \in BOOLEAN

OwnContainer(name) ==
    CHOOSE container \in {deployment.containers[i] : i \in DOMAIN deployment.containers} :
        container.name = name

\* After a pass the containers are those the present spec asks for, whatever
\* specs and containers were there before: the parts that are rebuilt, and every
\* variable that is wanted, although genControllerEnv and genPilotEnv may keep
\* the stored environment as a whole.
SpecReachesThePods ==
    rolled =>
        LET controller == OwnContainer(genControllerName(wanted))
            pilot == OwnContainer(genPilotName(wanted))
            rebuilt == ControllerContainer(Self, wanted, controller)
            rebuiltPilot == PilotContainer(Self, wanted, pilot)
        IN  /\ controller = [rebuilt EXCEPT !.env = controller.env]
            /\ pilot = [rebuiltPilot EXCEPT !.env = pilot.env]
            /\ \A e \in ControllerEnv(wanted) : Value(controller.env, e.name) = e.value
            /\ \A e \in PilotEnv(wanted) : Value(pilot.env, e.name) = e.value

\* The API server takes what a pass builds: no container mounts a volume that
\* genVolumes leaves out, and no two containers have one name.
PodsAreValid == ValidDeployment(deployment)

\* A second pass over the same spec changes nothing, so a reconcile restarts no
\* pods: the merges of updateDeploymentSpec and updateServiceSpec are idempotent.
SecondPassChangesNothing ==
    rolled =>
        /\ updateDeploymentSpec(Self, wanted, deployment) = deployment
        /\ ServicePorts(wanted, ports) = ports

\* What somebody else put into the pods stays where it is: updateDeploymentSpec
\* rewrites the containers it knows by name and copies all others.
OthersContainersStay ==
    [][\A i \in DOMAIN deployment.containers :
        deployment.containers[i].name \notin OwnNames(wanted)
        => /\ i \in DOMAIN deployment'.containers
           /\ deployment'.containers[i] = deployment.containers[i]]_vars

\* The Service has the ports of the spec under their own numbers, and each name
\* once, after any number of passes that merge the default ports into them.
SpecReachesTheService ==
    rolled =>
        /\ wanted.service # Nil => wanted.service \subseteq ports
        /\ \A p, q \in ports : p.name = q.name => p = q
=============================================================================
