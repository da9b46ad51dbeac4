SPECIFICATION FairSpec
CONSTANTS
    Nil = Nil
    Nothing = Nothing
    Gateways <- One
    Specs <- PlainSpecs
    Kinds = {"ServiceAccount", "ClusterRoleBinding"}
    LaggingKinds = {}
    DriftKinds = {}
    UserActions = {"create", "delete"}
    MaxChanges = 2
    FailingSteps = {"ServiceAccount"}
    MaxFaults = 1
    MaxCrashes = 0
PROPERTIES DeletionFinishes
CHECK_DEADLOCK FALSE
