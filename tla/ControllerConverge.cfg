SPECIFICATION Spec
CONSTANTS
    Nil = Nil
    Nothing = Nothing
    Controllers <- One
    Specs <- Edits
    Tracked <- ControllerSteps
    LaggingKinds = {"Deployment"}
    DriftKinds = {"CRD", "ServiceAccount", "Deployment"}
    UserActions = {"create", "update", "drift"}
    MaxChanges = 2
    FailingSteps <- AllButNamespace
    MaxFaults = 1
    MaxCrashes = 1
INVARIANTS TypeOK SettledIsConverged
CHECK_DEADLOCK FALSE
