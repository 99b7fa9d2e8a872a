------------------------------ MODULE MC_RpcPack ------------------------------
EXTENDS RpcPack
LOCAL INSTANCE SequencesExt

(* Grammars of format strings: scalar tokens, separator, array and        *)
(* dictionary prefixes.                                                   *)
Prefixed == [toks |-> {"n", "i", "s"}, sep |-> <<",">>,
             aPre |-> {<<>>, <<"0", ":">>, <<"1", ":">>, <<"2", ":">>},
             dPre |-> {<<>>, <<"a", ":">>, <<"b", ":">>}]
Plain == [Prefixed EXCEPT !.aPre = {<<>>}, !.dPre = {<<>>}]
CommaFree == [toks |-> {"i", "s"}, sep |-> <<>>, aPre |-> {<<>>}, dPre |-> {<<>>}]

(* Containers of up to three elements, each with or without a prefix,    *)
(* some not a token or with an index that is not a number, and the empty *)
(* format.                                                                *)
FlatPrefixed == [Prefixed EXCEPT !.toks = @ \cup {"?"}, !.aPre = @ \cup {<<"a", ":">>}]
Elems(G, pres) == {pr \o <<t>> : pr \in pres, t \in G.toks}
Joined(G, es) == FoldLeft(LAMBDA acc, e : IF acc = <<>> THEN e ELSE acc \o G.sep \o e, <<>>, es)
FlatIn(l, r, pres) ==
    {<<l>> \o Joined(FlatPrefixed, es) \o <<r>>
       : es \in UNION {[1..k -> Elems(FlatPrefixed, pres)] : k \in 0..3}}
FlatFormats ==
    {<<t>> : t \in FlatPrefixed.toks} \cup {<<>>}
      \cup FlatIn("[", "]", FlatPrefixed.aPre) \cup FlatIn("{", "}", FlatPrefixed.dPre)
(* Values of up to four nodes, nested two deep, and comma-free formats of *)
(* up to three nodes (spec section 8 promises these round-trip).         *)
NestedFormats == Formats(4, Plain) \cup Formats(3, CommaFree)
(* Both: nested and comma-free formats, and flat malformed ones.         *)
AllFormats == NestedFormats \cup FlatFormats
============================================================================
