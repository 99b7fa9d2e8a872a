---------------------------- MODULE MC_RpcObject ----------------------------
(* Model-checking instances of RpcObject.                                 *)
EXTENDS RpcObject, TLC

CONSTANTS t1, t2

MCKeys == {"k"}
TwoThreads == {t1, t2}
OneThread == {t1}
(* RpcObject treats threads alike: Handoff goes to any other thread.     *)
ThreadSymmetry == Permutations(TwoThreads)
AllKinds == {"scalar", "array", "dict"}
LeafAndArray == {"scalar", "array"}
LeafOnly == {"scalar"}
=============================================================================
