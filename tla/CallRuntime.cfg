\* Two calls, one instance with one method, streams of up to two fragments.
CONSTANTS
    c1 = c1
    c2 = c2
    p1 = p1
    m1 = m1
    Calls <- MCCalls
    Paths <- MCPaths
    Methods <- MCMethods
    MaxFrags = 2

SPECIFICATION Spec

INVARIANT TypeOK

PROPERTIES
    CallsTerminate
