SPECIFICATION FairSpec
CONSTANTS
    Nil = Nil
    Nothing = Nothing
    Controllers <- One
    Specs <- ConsoleEdits
    Tracked = {"ClusterRoleBinding", "ConsoleClusterRole", "ConsoleConfigMap"}
    LaggingKinds = {}
    DriftKinds = {}
    UserActions = {"create", "update"}
    MaxChanges = 2
    FailingSteps = {}
    MaxFaults = 0
    MaxCrashes = 0
PROPERTIES ConsoleFollowsSpec
CHECK_DEADLOCK FALSE
