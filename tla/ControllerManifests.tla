------------------------- MODULE ControllerManifests -------------------------
(***************************************************************************)
(* The HigressController manifests the runs start from.                    *)
(***************************************************************************)
EXTENDS ControllerPods

Plain(name, image) ==
    [name |-> name, image |-> image, pullPolicy |-> "", logLevel |-> "", env |-> {},
     ports |-> {}, resources |-> "small"]

Base == [rbac |-> Nil, serviceAccount |-> Nil, selector |-> "", service |-> Nil,
         enableHigressIstio |-> FALSE, enableStatus |-> TRUE, jwtPolicy |-> "third-party-jwt",
         ingressClass |-> "higress", revision |-> "", discoveryAddress |-> "", config |-> "a",
         controller |-> Plain("core", "core:1"), gatewayName |-> "gw", watchNamespace |-> "",
         pilot |-> Plain("", "pilot:1"), traceSampling |-> "", jwksResolveExtraRootCA |-> "",
         console |-> Plain("", ""), consoleSelector |-> "", consoleConfig |-> ""]
=============================================================================
