----------------------------- MODULE MC_RpcHash -----------------------------
(* Model-checking instance of RpcHash: int64 values on both sides of the   *)
(* int width, a binary blob, an array and a dictionary.                    *)
EXTENDS RpcHash, TLC

I(n) == [t |-> "int64", v |-> n]

MCObjects ==
    {I(0), I(1), I(-1), I(8), I(16),
     [t |-> "null", v |-> 0],
     [t |-> "binary", v |-> <<1, 2>>],
     [t |-> "array", v |-> <<I(1), I(16)>>],
     [t |-> "dict", v |-> (<<97>> :> I(1))]}
=============================================================================
