\* Formats with a container inside another, containers without commas, and flat malformed formats.
CONSTANTS
    VaListShared = TRUE
    Formats0 <- AllFormats
    PoolSize = 6
    NoObj = NoObj
SPECIFICATION Spec
INVARIANT PackMeetsSpec
CHECK_DEADLOCK FALSE
