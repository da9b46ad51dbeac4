SPECIFICATION FairSpec
CONSTANTS
    Nil = Nil
    Nothing = Nothing
    Gateways <- One
    Specs <- Edits
    Kinds = {"ServiceAccount", "ClusterRoleBinding", "Deployment"}
    LaggingKinds = {"Deployment"}
    DriftKinds = {"ServiceAccount", "Deployment"}
    UserActions = {"create", "update", "drift"}
    MaxChanges = 3
    FailingSteps <- AllButNamespace
    MaxFaults = 1
    MaxCrashes = 1
INVARIANTS SettledIsConverged
PROPERTIES LiveGatewaysGetDeployed
CHECK_DEADLOCK FALSE
