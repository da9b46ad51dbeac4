SPECIFICATION FairSpec
CONSTANTS
    Nil = Nil
    Nothing = Nothing
    Gateways <- One
    Specs <- OddManifests
    Kinds = {"ClusterRoleBinding", "ConfigMap", "Service"}
    LaggingKinds = {"ClusterRoleBinding"}
    DriftKinds = {}
    UserActions = {"create", "update", "delete", "terminate"}
    MaxChanges = 3
    FailingSteps <- AllSteps
    MaxFaults = 1
    MaxCrashes = 1
INVARIANTS NoDanglingSubject
PROPERTIES CreatedUnderFinalizer DeletionWithBindingFinishes
CHECK_DEADLOCK FALSE
