----------------------------- MODULE MC_RpcUnpack -----------------------------
EXTENDS RpcUnpack

(* Values built by pack from formats of up to MaxNodes nodes, with commas *)
(* between elements and no prefixes: every shape of depth two or less,    *)
(* nulls and scalars of two types among them.                             *)
MaxNodes == 4
PackGrammar == [toks |-> {"n", "i", "s"}, sep |-> <<",">>, aPre |-> {<<>>}, dPre |-> {<<>>}]
BuiltObjects == {RefPack(F).val : F \in Formats(MaxNodes, PackGrammar)}
============================================================================
