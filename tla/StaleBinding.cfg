SPECIFICATION Spec
CONSTANTS
    Nil = Nil
    Nothing = Nothing
    Gateways <- One
    Specs <- PlainSpecs
    Kinds = {"ClusterRoleBinding"}
    LaggingKinds = {"ClusterRoleBinding"}
    DriftKinds = {}
    UserActions = {"create", "delete"}
    MaxChanges = 3
    FailingSteps = {}
    MaxFaults = 0
    MaxCrashes = 0
INVARIANTS SettledIsConverged
CHECK_DEADLOCK FALSE
