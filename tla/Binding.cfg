SPECIFICATION FairSpec
CONSTANTS
    Nil = Nil
    Nothing = Nothing
    Gateways <- Shared
    Specs <- SharedSpecs
    Kinds = {"ClusterRoleBinding"}
    LaggingKinds = {"ClusterRoleBinding"}
    DriftKinds = {}
    UserActions = {"create", "delete"}
    MaxChanges = 4
    FailingSteps <- AllSteps
    MaxFaults = 1
    MaxCrashes = 1
INVARIANTS NoDanglingSubject
PROPERTIES ImplementsClusterAccess CreatedUnderFinalizer DeletionWithBindingFinishes
CHECK_DEADLOCK FALSE
