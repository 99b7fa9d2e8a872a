--------------------------- MODULE MC_CallRuntime ---------------------------
(* Model-checking instance of CallRuntime.                                 *)
EXTENDS CallRuntime

CONSTANTS c1, c2, p1, m1

MCCalls == {c1, c2}
MCPaths == {p1}
MCMethods == {m1}
=============================================================================
