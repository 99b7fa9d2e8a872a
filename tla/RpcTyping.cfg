\* Every instance of the registry in MC_RpcTyping paired with every other and with every value.
CONSTANTS
    Reg <- MCReg
    TIs <- MCTIs
    Vals <- MCVals
SPECIFICATION Spec
INVARIANT CanonicalInjective CanonicalRoundTrip
CHECK_DEADLOCK FALSE
