-------------------------- MODULE MC_SocketTransport --------------------------
(* Model values and small sets for checking SocketTransport with TLC.      *)
EXTENDS SocketTransport

CONSTANTS s1, s2

OneSender == {s1}
TwoSenders == {s1, s2}
\* The build whose stack slot for err happens to hold NULL.
ErrNull == {FALSE}
\* Either value: what an uninitialised pointer test can see.
ErrAny == BOOLEAN

============================================================================
