\* One container with up to three elements, prefixes, malformed tokens and indices.
CONSTANTS
    VaListShared = TRUE
    Formats0 <- FlatFormats
    PoolSize = 6
    NoObj = NoObj
SPECIFICATION Spec
INVARIANT PackMatchesSpec
INVARIANT ResultOwnsAll
CHECK_DEADLOCK FALSE
