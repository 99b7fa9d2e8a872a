CONSTANTS
    Objects <- BuiltObjects
    WithRest = TRUE
    VaListShared = FALSE
SPECIFICATION Spec
INVARIANT UnpackMatchesSpec
CHECK_DEADLOCK FALSE
