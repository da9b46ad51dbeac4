SPECIFICATION FairSpec
CONSTANTS
    Nil = Nil
    Nothing = Nothing
    Controllers <- One
    Specs <- Switched
    Tracked = {"ServiceAccount", "ClusterRoleBinding"}
    LaggingKinds = {"ClusterRoleBinding"}
    DriftKinds = {}
    UserActions = {"create", "update", "delete", "terminate"}
    MaxChanges = 4
    FailingSteps <- AllSteps
    MaxFaults = 1
    MaxCrashes = 0
PROPERTIES UnboundWhenReleased BoundUnderFinalizer CreatedUnderFinalizer NoStuckDeletion
CHECK_DEADLOCK FALSE
