------------------------------ MODULE MCRollout ------------------------------
(***************************************************************************)
(* The instance of Rollout for TLC.                                        *)
(***************************************************************************)
EXTENDS Rollout, ControllerManifests

MCSelf == [ns |-> "ns1", name |-> "hc"]

\* One edit for each part of the pods, with its own value in every field.
Pilots == {[Plain("", "pilot:1") EXCEPT !.resources = "large", !.env = {Var("A", value)}] :
              value \in {"1", "2"}}
CoreContainers ==
    {Plain("core", "core:1"),
     [Plain("core", "core:2") EXCEPT !.env = {Var("A", "1"), Var("B", "1")}, !.logLevel = "debug",
                                     !.ports = {Port("http", 9999)}]}
Services == {Nil, {Port("http-service", 80), Port("extra", 7)}}

RolloutSpecs ==
    {[Base EXCEPT !.pilot = pilot, !.controller = controller, !.service = service,
                  !.jwtPolicy = policy, !.jwksResolveExtraRootCA = ca, !.enableStatus = status] :
        pilot \in Pilots, controller \in CoreContainers, service \in Services,
        policy \in {"third-party-jwt", "first-party-jwt"}, ca \in {"", "pem"},
        status \in BOOLEAN}
=============================================================================
