---------------------------- MODULE MCController ----------------------------
(***************************************************************************)
(* Small instances of the HigressController controller for TLC.            *)
(***************************************************************************)
EXTENDS ControllerProperties, ControllerManifests

One == {[ns |-> "ns1", name |-> "hc"]}

\* RBAC is switched off and on.
Switched == {Base, [Base EXCEPT !.rbac = FALSE]}

\* Edits of the mesh, the pods and the ports, and one that makes the process
\* panic.  The Deployment bears the name of the controller's container, so that
\* createDeployment finds it.
Named == [Base EXCEPT !.controller.name = "hc"]
Edits == {Named,
          [Named EXCEPT !.config = "b", !.controller.image = "core:2",
                        !.service = {Port("http-service", 80)}],
          [Named EXCEPT !.pilot.resources = Nil]}

\* A console whose configuration is edited.
WithConsole(config) ==
    [Base EXCEPT !.console.name = "console", !.consoleSelector = "console",
                 !.consoleConfig = config]
ConsoleEdits == {WithConsole("a"), WithConsole("b")}
OneConsole == {WithConsole("a")}

EveryStep == ControllerSteps \cup ConsoleSteps

\* Where calls fail: everywhere, or everywhere but where Reconcile drops the
\* error of a read.
AllSteps == Steps
AllButNamespace == Steps \ {"namespace"}
=============================================================================
