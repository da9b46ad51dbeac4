SPECIFICATION FairSpec
CONSTANTS
    Nil = Nil
    Nothing = Nothing
    Gateways <- One
    Specs <- Edits
    Kinds = {"ServiceAccount", "ClusterRoleBinding", "ConfigMap", "Deployment"}
    LaggingKinds = {"Deployment"}
    DriftKinds = {}
    UserActions = {"create", "update", "delete"}
    MaxChanges = 3
    FailingSteps = {}
    MaxFaults = 0
    MaxCrashes = 0
INVARIANTS SettledIsConverged
PROPERTIES Settles DeployedOnlyWhenBound
CHECK_DEADLOCK FALSE
