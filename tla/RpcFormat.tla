------------------------------- MODULE RpcFormat -------------------------------
(* The values and format strings of rpc_object_pack and rpc_object_unpack *)
(* (src/src/rpc_object.c).  A format is a sequence of one-character        *)
(* strings.  A value is a tree of records [t, v, a, d]: its type, the     *)
(* argument atom a scalar was built from, an array's elements and a       *)
(* dictionary's entries.  Arguments are the atoms of ArgAtoms, consumed   *)
(* in order, as va_arg consumes the variadic list.                        *)
EXTENDS Naturals, Sequences, FiniteSets
LOCAL INSTANCE SequencesExt

(* Whether a va_list handed to a callee is advanced in the caller by the  *)
(* callee's va_arg.  rpc_object_unpack_layer passes its ap by value to     *)
(* the nested call (line 325); C11 7.16p3 leaves the caller's ap          *)
(* indeterminate after that.  What the build does is fixed by its ABI:     *)
(* on x86-64 va_list is an array type, so the callee works on the         *)
(* caller's state (TRUE); on AArch64 and i386 it is a struct or a pointer  *)
(* copied into the callee, and the caller's position stays where it was   *)
(* (FALSE).                                                                *)
CONSTANT VaListShared
ASSUME VaListShared \in BOOLEAN

NONE == "none"

ArgAtoms == <<"x1", "x2", "x3", "x4", "x5", "x6", "x7", "x8">>
Arg(j) == IF j \in 1..Len(ArgAtoms) THEN ArgAtoms[j] ELSE "undefined"

Digits == {"0", "1", "2"}
DigitVal(c) == CASE c = "0" -> 0 [] c = "1" -> 1 [] c = "2" -> 2
Letters == {"a", "b"}
Scalars == {"n", "i", "s"}
Closers == {"]", "}"}

NoKeys == [k \in {} |-> NONE]
Leaf(t, v) == [t |-> t, v |-> v, a |-> <<>>, d |-> NoKeys]
NullV == Leaf("null", "")
EmptyArray == [t |-> "array", v |-> "", a |-> <<>>, d |-> NoKeys]
EmptyDict == [t |-> "dict", v |-> "", a |-> <<>>, d |-> NoKeys]
\* A NULL rpc_object_t where the code reads one.
NoValue == Leaf("absent", "")

(* The character at p, or the terminating NUL past the end.               *)
At(f, p) == IF p \in 1..Len(f) THEN f[p] ELSE "\\0"

(* rpc_array_steal_value (1332-1355): nulls fill the gap up to idx, then  *)
(* the value is appended, or replaces the element at idx.                 *)
StealAt(s, idx, x) ==
    IF idx < Len(s) THEN [s EXCEPT ![idx + 1] = x]
    ELSE s \o [j \in 1..(idx - Len(s)) |-> NullV] \o <<x>>

(* g_hash_table_insert: the key gets the value, replacing an old one.     *)
Insert(d, k, x) == [j \in DOMAIN d \cup {k} |-> IF j = k THEN x ELSE d[j]]

(* rpc_array_get_value (1389-1398): NULL past the end or on a non-array.  *)
ArrayGet(o, idx) ==
    IF o.t = "array" /\ idx < Len(o.a) THEN o.a[idx + 1] ELSE NoValue

(* rpc_dictionary_get_value (1714-1720).  On a value that is not a        *)
(* dictionary the code reads the wrong union member; the model says NULL. *)
DictGet(o, k) ==
    IF o.t = "dict" /\ k \in DOMAIN o.d THEN o.d[k] ELSE NoValue

(* rpc_array_slice(array, start, -1) (1476-1493).                         *)
Slice(o, start) ==
    [EmptyArray EXCEPT !.a = IF start < Len(o.a) THEN SubSeq(o.a, start + 1, Len(o.a)) ELSE <<>>]

(* The key a literal "key:" prefix names: the characters before the colon. *)
KeyOf(s) == FoldLeft(LAMBDA acc, c : acc \o c, "", s)

(* strtol(ptr, &end, 10) on the format: where the digits end, and their   *)
(* value.                                                                  *)
RECURSIVE RunEnd(_, _, _)
RunEnd(f, p, S) == IF At(f, p) \in S THEN RunEnd(f, p + 1, S) ELSE p
DigitEnd(f, p) == RunEnd(f, p, Digits)
RECURSIVE DigitsValue(_, _, _)
DigitsValue(f, p, e) ==
    IF e = p THEN 0 ELSE DigitsValue(f, p, e - 1) * 10 + DigitVal(f[e - 1])

(* The search loop of rpc_object_vpack (660-688): from p, the first comma *)
(* or bracket, remembering the last colon on the way (0 for none).  The   *)
(* code does not stop at the NUL; a format whose search runs off the end  *)
(* reads past the string, and stop is then Len(f) + 1.                    *)
RECURSIVE Scan(_, _, _)
Scan(f, p, colon) ==
    CASE p > Len(f) -> [stop |-> p, comma |-> FALSE, colon |-> colon]
      [] f[p] = "," -> [stop |-> p, comma |-> TRUE, colon |-> colon]
      [] f[p] \in {"<", "[", "]", "{", "}"} -> [stop |-> p, comma |-> FALSE, colon |-> colon]
      [] OTHER -> Scan(f, p + 1, IF f[p] = ":" THEN p ELSE colon)

----------------------------------------------------------------------------
(* What spec section 4.1 says a format builds: a value per token, "[...]"   *)
(* and "{...}" with elements separated by commas; in an array an "n:"     *)
(* prefix places the element at index n and an element without one is    *)
(* appended; in a dictionary a "key:" prefix names the key and otherwise  *)
(* the key is the next argument.  vals lists the scalar arguments in the  *)
(* order they are consumed.                                               *)
RECURSIVE RefValue(_, _), RefArray(_, _, _), RefDict(_, _, _)
RefValue(f, r) ==
    LET c == At(f, r.p)
        scalar(t) == [r EXCEPT !.val = Leaf(t, Arg(r.ap)), !.p = @ + 1, !.ap = @ + 1,
                               !.vals = Append(@, Leaf(t, Arg(r.ap)))]
    IN  CASE c = "n" -> [r EXCEPT !.val = NullV, !.p = @ + 1]
          [] c = "i" -> scalar("int64")
          [] c = "s" -> scalar("string")
          [] c = "[" -> RefArray(f, [r EXCEPT !.p = @ + 1], EmptyArray)
          [] c = "{" -> RefDict(f, [r EXCEPT !.p = @ + 1], EmptyDict)
          [] OTHER -> [r EXCEPT !.val = NoValue]
Skip(f, v) == [v EXCEPT !.p = IF At(f, v.p) = "," THEN @ + 1 ELSE @]
RefArray(f, r, acc) ==
    IF At(f, r.p) = "]" THEN [r EXCEPT !.val = acc, !.p = @ + 1]
    ELSE LET e == DigitEnd(f, r.p)
             pre == e > r.p /\ At(f, e) = ":"
             v == RefValue(f, [r EXCEPT !.p = IF pre THEN e + 1 ELSE @])
             idx == IF pre THEN DigitsValue(f, r.p, e) ELSE Len(acc.a)
         IN  IF v.val = NoValue THEN v
             ELSE RefArray(f, Skip(f, v), [acc EXCEPT !.a = StealAt(@, idx, v.val)])
RefDict(f, r, acc) ==
    IF At(f, r.p) = "}" THEN [r EXCEPT !.val = acc, !.p = @ + 1]
    ELSE LET e == RunEnd(f, r.p, Letters \cup Digits)
             pre == e > r.p /\ At(f, e) = ":"
             key == IF pre THEN KeyOf(SubSeq(f, r.p, e - 1)) ELSE Arg(r.ap)
             v == RefValue(f, IF pre THEN [r EXCEPT !.p = e + 1] ELSE [r EXCEPT !.ap = @ + 1])
         IN  IF v.val = NoValue THEN v
             ELSE RefDict(f, Skip(f, v), [acc EXCEPT !.d = Insert(@, key, v.val)])
RefPack(f) == RefValue(f, [val |-> NoValue, p |-> 1, ap |-> 1, vals |-> <<>>])

(* Formats of values with n nodes over a grammar G = [toks, sep, aPre,    *)
(* dPre]: scalar tokens, the separator between elements, and the prefixes *)
(* an array or a dictionary element may carry.                            *)
RECURSIVE Values(_, _), Bodies(_, _, _)
Values(n, G) ==
    IF n = 1 THEN {<<t>> : t \in G.toks} \cup {<<"[", "]">>, <<"{", "}">>}
    ELSE {<<"[">> \o b \o <<"]">> : b \in Bodies(n - 1, G, G.aPre)}
           \cup {<<"{">> \o b \o <<"}">> : b \in Bodies(n - 1, G, G.dPre)}
Bodies(m, G, pres) ==
    UNION {{pr \o v \o rest : pr \in pres, v \in Values(k, G),
                              rest \in IF k = m THEN {<<>>}
                                       ELSE {G.sep \o b : b \in Bodies(m - k, G, pres)}}
           : k \in 1..m}
Formats(N, G) == UNION {Values(n, G) : n \in 1..N}

----------------------------------------------------------------------------
(* rpc_object_unpack_layer (242-340).  L is the layer's locals: which     *)
(* container it walks (mode, cont), current, idx.  st is what the call    *)
(* shares with its callers: the va_list position ap into args, the count  *)
(* cnt, and the writes made through out-pointers, each the argument      *)
(* position of the pointer and the value written.                         *)
Fail(st) == [ret |-> -1, st |-> st]

(* The getters behind 'i', 's' and 'v': rpc_int64_get_value answers -1    *)
(* and rpc_string_get_string_ptr NULL on a value of another type.         *)
Getter(ch, o) ==
    CASE ch = "i" -> Leaf("int64", IF o.t = "int64" THEN o.v ELSE "-1")
      [] ch = "s" -> Leaf("string", IF o.t = "string" THEN o.v ELSE "NULL")
      [] ch = "v" -> o

(* Mutant: the array cursor is not advanced.                              *)
FetchNoAdvance(f, i, L, st, args) ==
    LET ch == f[i]
        inA == L.mode = "array" /\ ch # "]"
        inD == L.mode = "dict" /\ ch # "}"
        c1 == IF inA THEN ArrayGet(L.cont, L.idx) ELSE L.cur
    IN  [L |-> [L EXCEPT !.cur = IF inD THEN DictGet(L.cont, At(args, st.ap)) ELSE c1],
         st |-> [st EXCEPT !.ap = IF inD THEN @ + 1 ELSE @]]

(* Lines 258-266: inside an array the next element, inside a dictionary  *)
(* the value under the next va_arg key, becomes current.                  *)
Fetch(f, i, L, st, args) ==
    LET ch == f[i]
        inA == L.mode = "array" /\ ch # "]"
        inD == L.mode = "dict" /\ ch # "}"
        c1 == IF inA THEN ArrayGet(L.cont, L.idx) ELSE L.cur
    IN  [L |-> [L EXCEPT !.cur = IF inD THEN DictGet(L.cont, At(args, st.ap)) ELSE c1,
                         !.idx = IF inA THEN @ + 1 ELSE @],
         st |-> [st EXCEPT !.ap = IF inD THEN @ + 1 ELSE @]]

Bind(st, x) == [st EXCEPT !.ap = @ + 1, !.cnt = @ + 1, !.outs = Append(@, <<st.ap, x>>)]

RECURSIVE UnpackLayer(_, _, _, _, _), UnpackLoop(_, _, _, _, _)
UnpackLoop(f, i, L, st, args) ==
    IF i > Len(f) THEN [ret |-> i - 1, st |-> st]
    ELSE LET ch == f[i]
             x == Fetch(f, i, L, st, args)
             L1 == x.L
             st1 == x.st
         IN  CASE L1.cur = NoValue -> Fail(st1)
               [] ch = "*" -> UnpackLoop(f, i + 1, L1, [st1 EXCEPT !.cnt = @ + 1], args)
               [] ch \in {"v", "i", "s"} ->
                     UnpackLoop(f, i + 1, L1, Bind(st1, Getter(ch, L1.cur)), args)
               [] ch = "R" /\ L1.mode # "array" -> Fail(st1)
               [] ch = "R" -> UnpackLoop(f, i + 1, L1, Bind(st1, Slice(L1.cont, L1.idx + 1)), args)
               [] ch \in {"[", "{"} /\ L1.mode = "none" ->
                     UnpackLoop(f, i + 1, [L1 EXCEPT !.mode = IF ch = "[" THEN "array" ELSE "dict",
                                                     !.cont = L1.cur], st1, args)
               [] ch \in {"[", "{"} ->
                     LET r == UnpackLayer(L1.cur, f, i, st1, args)
                     IN  IF r.ret = -1 THEN r
                         ELSE UnpackLoop(f, r.ret + 2, L1,
                                         IF VaListShared THEN r.st ELSE [r.st EXCEPT !.ap = st1.ap],
                                         args)
               [] ch \in Closers -> [ret |-> i - 1, st |-> st1]
               [] OTHER -> Fail(st1)
UnpackLayer(branch, f, i, st, args) ==
    IF branch = NoValue THEN Fail(st)
    ELSE UnpackLoop(f, i, [mode |-> "none", cont |-> NoValue, cur |-> branch, idx |-> 0], st, args)

(* rpc_object_vunpack (855-861): the count if the walk returned a         *)
(* positive index, else -1.  ret is the code's index i, which counts the  *)
(* format from 0; the model's formats count from 1.                       *)
VUnpack(obj, f, args) ==
    LET r == UnpackLayer(obj, f, 1, [ap |-> 1, cnt |-> 0, outs |-> <<>>], args)
    IN  [ret |-> IF r.ret > 0 THEN r.st.cnt ELSE -1, outs |-> r.st.outs]

----------------------------------------------------------------------------
(* What spec section 4.1 says unpack accepts for a value o: a case is a     *)
(* format, the arguments it takes (keys, "out" for an out-pointer), the   *)
(* values it binds and the count it returns.  A scalar takes its type's   *)
(* token, 'v' or '*'; an array takes its elements in order and may end    *)
(* with 'R' for the rest; a dictionary takes one key argument and a case  *)
(* per entry, in any fixed order of its keys.                             *)
Tok(t) == CASE t = "int64" -> "i" [] t = "string" -> "s" [] OTHER -> "v"
OneCase(g, args, outs, cnt) == [g |-> g, args |-> args, outs |-> outs, cnt |-> cnt]
Join(c, d) == OneCase(c.g \o d.g, c.args \o d.args, c.outs \o d.outs, c.cnt + d.cnt)
RECURSIVE JoinAll(_)
JoinAll(cs) ==
    IF cs = <<>> THEN {OneCase(<<>>, <<>>, <<>>, 0)}
    ELSE {Join(c, d) : c \in Head(cs), d \in JoinAll(Tail(cs))}
Wrap(l, c, r) == [c EXCEPT !.g = <<l>> \o @ \o <<r>>]
RECURSIVE UnpackCases(_)
UnpackCases(o) ==
    CASE o.t = "array" ->
           {Wrap("[", c, "]") : c \in JoinAll([j \in 1..Len(o.a) |-> UnpackCases(o.a[j])])}
             \cup UNION {{Wrap("[", Join(c, OneCase(<<"R">>, <<"out">>, <<Slice(o, j)>>, 1)), "]")
                           : c \in JoinAll([m \in 1..j |-> UnpackCases(o.a[m])])} : j \in 0..Len(o.a)}
      [] o.t = "dict" ->
           LET ks == SetToSeq(DOMAIN o.d)
           IN  {Wrap("{", c, "}")
                 : c \in JoinAll([j \in 1..Len(ks) |->
                          {Join(OneCase(<<>>, <<ks[j]>>, <<>>, 0), e) : e \in UnpackCases(o.d[ks[j]])}])}
      [] OTHER ->
           {OneCase(<<ch>>, <<"out">>, <<o>>, 1) : ch \in {Tok(o.t), "v"}}
             \cup {OneCase(<<"*">>, <<>>, <<>>, 1)}
HasR(c) == \E j \in 1..Len(c.g) : c.g[j] = "R"

============================================================================
