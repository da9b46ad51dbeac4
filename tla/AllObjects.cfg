SPECIFICATION Spec
CONSTANTS
    Nil = Nil
    Nothing = Nothing
    Gateways <- One
    Specs <- Edits
    Kinds = {"ServiceAccount", "ClusterRole", "ClusterRoleBinding", "Role", "RoleBinding", "ConfigMap", "Deployment", "Service"}
    LaggingKinds = {}
    DriftKinds = {}
    UserActions = {"create", "update"}
    MaxChanges = 3
    FailingSteps <- AllSteps
    MaxFaults = 1
    MaxCrashes = 1
INVARIANTS TypeOK
PROPERTIES UpToDateObjectsStay
CHECK_DEADLOCK FALSE
