----------------------------- MODULE MCGateway -----------------------------
(***************************************************************************)
(* Small instances of the HigressGateway controller for TLC.               *)
(***************************************************************************)
EXTENDS GatewayProperties

\* A manifest that sets nothing but what every instance below needs.
Plain == [rbac |-> Nil, serviceAccount |-> Nil, skywalking |-> Nil, service |-> Nil,
          selector |-> "", enableHigressIstio |-> FALSE, discoveryAddress |-> "",
          network |-> FALSE, labelled |-> FALSE, env |-> {}, config |-> "a"]

Account(name) == [enable |-> TRUE, name |-> name]

\* Two gateways in two namespaces whose accounts have one name share a binding.
Shared == {[name |-> "gw1", ns |-> "ns1"], [name |-> "gw2", ns |-> "ns2"]}
SharedSpecs == {[Plain EXCEPT !.serviceAccount = Account("sa")]}

\* One gateway, created, edited, deleted and created again.
One == {[name |-> "gw1", ns |-> "ns1"]}
PlainSpecs == {Plain}
Edits == {Plain, [Plain EXCEPT !.config = "b", !.labelled = TRUE]}

\* Manifests the controller takes a different path for.
RBACOff == [Plain EXCEPT !.rbac = FALSE]
Skywalking(scripted) ==
    [Plain EXCEPT !.skywalking = [enable |-> TRUE, scripted |-> scripted]]
NetworkGateway(labelled) == [Plain EXCEPT !.network = TRUE, !.labelled = labelled]
OddManifests == {Plain, RBACOff, Skywalking(TRUE), Skywalking(FALSE), NetworkGateway(FALSE)}

\* Where calls fail: everywhere, or everywhere but at the read of the namespace,
\* whose error Reconcile drops.
AllSteps == Steps
AllButNamespace == Steps \ {"namespace"}
=============================================================================
