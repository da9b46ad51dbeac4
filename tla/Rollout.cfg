SPECIFICATION Spec
CONSTANTS
    Nil = Nil
    Self <- MCSelf
    Specs <- RolloutSpecs
INVARIANTS TypeOK SpecReachesThePods PodsAreValid SecondPassChangesNothing SpecReachesTheService
PROPERTIES OthersContainersStay
CHECK_DEADLOCK FALSE
