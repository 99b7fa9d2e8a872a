------------------------------- MODULE RpcHash -------------------------------
(***************************************************************************)
(* rpc_hash, rpc_equal and rpc_cmp (src/src/rpc_object.c) at a scaled word *)
(* width: size_t has SizeBits bits and int has IntBits bits, as 64 and 32  *)
(* on the LP64 targets the library is built for.  A value is a record      *)
(* [t, v]: an integer for the scalar types, a byte sequence for BINARY, a  *)
(* sequence of values for ARRAY and a function from key byte sequences to  *)
(* values for DICTIONARY.  rpc_cmp is checked as the comparator            *)
(* rpc_array_sort hands to g_ptr_array_sort_with_data.                     *)
(***************************************************************************)
EXTENDS Integers, Sequences, Bitwise, Folds, Functions

CONSTANTS
    SizeBits,   \* width of size_t
    IntBits,    \* width of int
    Objects     \* the values compared

ASSUME SizeBits \in Nat /\ IntBits \in Nat /\ 0 < IntBits /\ IntBits <= SizeBits

VARIABLES
    x, y, z,    \* three values handed to the comparator
    done,       \* the comparisons have been made
    result      \* what rpc_cmp and rpc_equal returned on them

vars == <<x, y, z, done, result>>

SizeWord == 2^SizeBits
IntWord == 2^IntBits

(* A conversion to size_t keeps the low SizeBits bits.                     *)
ToSize(n) == n % SizeWord

(* A conversion to int keeps the low IntBits bits as a two's complement    *)
(* number.  It is also what the subtraction in rpc_cmp produces on         *)
(* overflow: signed overflow is undefined, and the build emits a plain     *)
(* wrapping subtraction.                                                   *)
ToInt(n) ==
    LET low == n % IntWord
    IN IF low >= IntWord \div 2 THEN low - IntWord ELSE low

(* rpc_data_hash (82-91): djb2, hash * 33 + byte, over the bytes from the  *)
(* last to the first, since the loop indexes data[length] as it counts     *)
(* length down.                                                            *)
RECURSIVE DataHashLoop(_, _, _)
DataHashLoop(data, length, hash) ==
    IF length = 0 THEN hash
    ELSE DataHashLoop(data, length - 1, ToSize(hash * 32 + hash + data[length]))

DataHash(data) == DataHashLoop(data, Len(data), 5381 % SizeWord)

(* rpc_hash (537-600) for the types whose hash this file computes.         *)
RECURSIVE Hash(_)
Hash(o) ==
    CASE o.t = "null"   -> 0
      [] o.t = "bool"   -> IF o.v THEN 1 ELSE 0
      [] o.t = "int64"  -> ToSize(o.v)
      [] o.t = "uint64" -> ToSize(o.v)
      [] o.t = "binary" -> DataHash(o.v)
      [] o.t = "array"  ->
            FoldFunction(LAMBDA e, h : Hash(e) ^^ h, 0, o.v)
      [] o.t = "dict"   ->
            MapThenFoldSet(LAMBDA a, b : a ^^ b, 0,
                           LAMBDA k : DataHash(k) ^^ Hash(o.v[k]),
                           LAMBDA s : CHOOSE k \in s : TRUE, DOMAIN o.v)

(* rpc_equal (530-535): equal hashes.                                      *)
Equal(o1, o2) == Hash(o1) = Hash(o2)

(* rpc_cmp (521-528): both hashes cast to int, then subtracted in int.     *)
Cmp(o1, o2) == ToInt(ToInt(Hash(o1)) - ToInt(Hash(o2)))

-----------------------------------------------------------------------------
Init ==
    /\ x \in Objects /\ y \in Objects /\ z \in Objects
    /\ done = FALSE
    /\ result = [xy |-> 0, yx |-> 0, yz |-> 0, xz |-> 0, eq |-> TRUE]

(* rpc_array_sort comparing the three values pairwise, and rpc_equal.      *)
Compare ==
    /\ ~done
    /\ done' = TRUE
    /\ result' = [xy |-> Cmp(x, y), yx |-> Cmp(y, x), yz |-> Cmp(y, z),
                  xz |-> Cmp(x, z), eq |-> Equal(x, y)]
    /\ UNCHANGED <<x, y, z>>

Next == Compare

Spec == Init /\ [][Next]_vars

Sign(n) == IF n > 0 THEN 1 ELSE IF n < 0 THEN -1 ELSE 0

(* rpc_cmp is a comparator a sort can use, consistent with rpc_equal: it   *)
(* is antisymmetric, transitive, and zero exactly for the values rpc_equal *)
(* calls equal.  rpc_array_sort passes it to g_ptr_array_sort_with_data    *)
(* and rpc_array_contains relies on rpc_equal.                             *)
CmpConsistent ==
    done =>
        /\ Sign(result.yx) = -Sign(result.xy)
        /\ (result.xy = 0) = result.eq
        /\ (result.xy < 0 /\ result.yz < 0) => result.xz < 0
=============================================================================
