SPECIFICATION FairSpec
CONSTANTS
    Nil = Nil
    Nothing = Nothing
    Controllers <- One
    Specs <- OneConsole
    Tracked <- EveryStep
    LaggingKinds = {}
    DriftKinds = {}
    UserActions = {"create"}
    MaxChanges = 1
    FailingSteps <- AllButNamespace
    MaxFaults = 1
    MaxCrashes = 1
PROPERTIES LiveControllersGetDeployed
CHECK_DEADLOCK FALSE
