----------------------------- MODULE MC_RpcTyping -----------------------------
(* A registry with one type of every class, generic types of one and two   *)
(* variables, a generic typedef, a generic struct whose member is another  *)
(* generic instance, and instances of them bound, partly bound and         *)
(* unbound; values of every shape the validator tells apart.               *)
EXTENDS RpcTyping

NoMembers == [x \in {} |-> VarTI("T")]
Decl(c, vs, ms, en, bd, tg) ==
    [class |-> c, vars |-> vs, members |-> ms, enum |-> en, body |-> bd, tag |-> tg]
Inst(n, as) == [name |-> n, var |-> FALSE, args |-> as]

MCReg ==
    [n \in {"int64", "string", "Color", "Box", "Pair", "Opt", "IntBox", "Alias", "Nest"} |->
        CASE n = "int64"  -> Decl("builtin", <<>>, NoMembers, {}, VarTI("T"), "int64")
          [] n = "string" -> Decl("builtin", <<>>, NoMembers, {}, VarTI("T"), "string")
          [] n = "Color"  -> Decl("enum", <<>>, NoMembers, {"red"}, VarTI("T"), "")
          [] n = "Box"    -> Decl("struct", <<"T">>, [m \in {"item"} |-> VarTI("T")], {}, VarTI("T"), "")
          [] n = "Pair"   -> Decl("struct", <<"K", "V">>,
                                  [m \in {"first", "second"} |-> IF m = "first" THEN VarTI("K") ELSE VarTI("V")],
                                  {}, VarTI("T"), "")
          [] n = "Opt"    -> Decl("union", <<"T">>,
                                  [m \in {"some", "code"} |-> IF m = "some" THEN VarTI("T") ELSE TypeTI("int64")],
                                  {}, VarTI("T"), "")
          [] n = "IntBox" -> Decl("typedef", <<>>, NoMembers, {}, Inst("Box", <<TypeTI("int64")>>), "")
          [] n = "Alias"  -> Decl("typedef", <<"T">>, NoMembers, {}, Inst("Pair", <<VarTI("T"), TypeTI("string")>>), "")
          [] n = "Nest"   -> Decl("struct", <<"T">>, [m \in {"inner"} |-> Inst("Box", <<VarTI("T")>>)], {}, VarTI("T"), "")]

(* Bindings: concrete types, a variable of the type's own name and one of *)
(* another's.                                                              *)
ArgTIs == {TypeTI("int64"), TypeTI("string"), VarTI("T"), VarTI("K")}

MCTIs ==
    {TypeTI(n) : n \in DOMAIN MCReg}
    \cup {Inst(n, <<x>>) : n \in {"Box", "Opt", "Alias", "Nest"}, x \in ArgTIs}
    \cup {Inst("Pair", <<x, y>>) : x \in ArgTIs, y \in ArgTIs \cup {VarTI("V")}}
    \cup {Inst("Box", <<Inst("Box", <<x>>)>>) : x \in ArgTIs}

I(n) == [t |-> "int64", v |-> n]
S(s) == [t |-> "string", v |-> s]
D(ks, f(_)) == [t |-> "dict", v |-> [k \in ks |-> f(k)]]
Scalars == {I(0), S("red"), S("x")}

MCVals ==
    Scalars
    \cup {D({"item"}, LAMBDA k : s) : s \in Scalars}
    \cup {D({"item"}, LAMBDA k : D({"item"}, LAMBDA j : s)) : s \in Scalars}
    \cup {D({"inner"}, LAMBDA k : D({"item"}, LAMBDA j : s)) : s \in Scalars}
    \cup {D({"first", "second"}, LAMBDA k : IF k = "first" THEN s ELSE r) : s, r \in {I(0), S("x")}}
    \cup {D({"first"}, LAMBDA k : I(0)), D({"item", "extra"}, LAMBDA k : I(0))}
    \cup {D({"%type", "%value"}, LAMBDA k : IF k = "%type" THEN S(d) ELSE s) :
              d \in {"some", "code", "none"}, s \in {I(0), S("x")}}
=============================================================================
