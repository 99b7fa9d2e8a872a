CONSTANTS
    Objects <- BuiltObjects
    WithRest = FALSE
    VaListShared = TRUE
SPECIFICATION Spec
INVARIANT UnpackMatchesSpec
CHECK_DEADLOCK FALSE
