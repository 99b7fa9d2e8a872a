------------------------------ MODULE RpcUnpack ------------------------------
(* rpc_object_unpack(obj, fmt, ...) on one value: the caller passes a      *)
(* value, a format and the variadic arguments (dictionary keys and        *)
(* out-pointers); the call walks the value with rpc_object_unpack_layer   *)
(* (RpcFormat) and returns the count of bindings, or -1.                  *)
EXTENDS RpcFormat
LOCAL INSTANCE SequencesExt

CONSTANTS
    Objects,   \* the values unpacked
    WithRest   \* whether formats may use 'R'

ASSUME WithRest \in BOOLEAN

(* The calls a caller makes: a value and a case that spec section 4.1 says  *)
(* it matches.                                                            *)
Cases(o) == {c \in UnpackCases(o) : WithRest \/ ~HasR(c)}

VARIABLES obj, call, pc, result

vars == <<obj, call, pc, result>>

Init ==
    /\ obj \in Objects
    /\ call \in Cases(obj)
    /\ pc = "call"
    /\ result = [ret |-> 0, outs |-> <<>>]

(* rpc_object_unpack (841-852), which calls rpc_object_vunpack.           *)
Unpack ==
    /\ pc = "call"
    /\ result' = VUnpack(obj, call.g, call.args)
    /\ pc' = "returned"
    /\ UNCHANGED <<obj, call>>

Next == Unpack

Spec == Init /\ [][Next]_vars /\ WF_vars(Unpack)

----------------------------------------------------------------------------
(* Unpacking a value with a format that matches its shape leaves in each *)
(* out-pointer the value the format names for it, writes through nothing *)
(* else (a key or a position past the arguments), and returns how many    *)
(* bindings it made: the walk of unpack_layer, with its array cursor, its *)
(* dictionary keys taken from the variadic list and its recursion into    *)
(* nested containers, keeps element and argument order.  After a nested   *)
(* container the caller's va_list must continue where the callee's        *)
(* stopped, which line 325's pass by value leaves to the ABI.              *)
UnpackMatchesSpec ==
    LET outPos == SetToSortSeq({p \in DOMAIN call.args : call.args[p] = "out"}, <)
        w == result.outs
        Final(p) == LET ks == {k \in DOMAIN w : w[k][1] = p}
                    IN  IF ks = {} THEN NoValue ELSE w[Max(ks)][2]
    IN  pc = "returned" =>
            /\ result.ret = call.cnt
            /\ \A k \in DOMAIN w : w[k][1] \in Range(outPos)
            /\ [k \in DOMAIN outPos |-> Final(outPos[k])] = call.outs

============================================================================
