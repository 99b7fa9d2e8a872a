------------------------------ MODULE RpcTyping ------------------------------
(***************************************************************************)
(* The type-instance layer of src/include/rpc/typing.h: a registry of      *)
(* types (STRUCT, UNION, ENUM, TYPEDEF, BUILTIN) with generic variables,   *)
(* type instances that bind them fully, partially or not at all, their     *)
(* canonical form (rpct_typei_get_canonical_form), the parse of a          *)
(* declaration back into an instance (rpct_new_typei, which rpct_deserialize *)
(* applies to the "%type" string) and validation (rpct_validate).  Only    *)
(* the declarations are in this tree; the behaviour is spec sections 3.2   *)
(* and 4.2.                                                                *)
(*                                                                         *)
(* A type instance is a record [name, var, args]: var is TRUE for a bare   *)
(* generic variable, and args lists the bindings of the type's variables   *)
(* in declaration order (none for an unspecialised type).  A canonical     *)
(* form is a sequence of tokens: names, "<", "," and ">".  Errors of a     *)
(* validation are the set of places where one was reported.               *)
(***************************************************************************)
EXTENDS Naturals, Sequences, FiniteSets

LOCAL INSTANCE SequencesExt
LOCAL INSTANCE Functions

CONSTANTS
    Reg,       \* the registry: type name -> its declaration
    TIs,       \* the type instances the callers use
    Vals       \* the values they validate

Classes == {"struct", "union", "enum", "typedef", "builtin"}

(* A declared type: its class, generic variables, members (struct fields  *)
(* or union branches) with their declared type instances, enum members,   *)
(* the body of a typedef and the value tag of a builtin.                   *)
VarTI(x) == [name |-> x, var |-> TRUE, args |-> <<>>]
TypeTI(n) == [name |-> n, var |-> FALSE, args |-> <<>>]

(* The binding map of an instance: each variable of its type to the       *)
(* instance it is bound to, or to itself when the type is unspecialised.  *)
Bindings(ti) ==
    LET vs == Reg[ti.name].vars
    IN  [x \in Range(vs) |->
            IF ti.args = <<>> THEN VarTI(x)
            ELSE ti.args[CHOOSE i \in DOMAIN vs : vs[i] = x]]

(* A member's declared instance with the enclosing instance's bindings    *)
(* put in for the variables it mentions.                                   *)
RECURSIVE Resolve(_, _)
Resolve(m, b) ==
    IF m.var THEN (IF m.name \in DOMAIN b THEN b[m.name] ELSE m)
    ELSE [m EXCEPT !.args = [i \in DOMAIN m.args |-> Resolve(m.args[i], b)]]

(* Some variable is bound to something other than itself.                 *)
Bound(ti) ==
    \E i \in DOMAIN ti.args :
        ~(ti.args[i].var /\ ti.args[i].name = Reg[ti.name].vars[i])

(* The canonical forms of the bindings joined by ",".                   *)
Joined(seqs) ==
    IF seqs = <<>> THEN <<>>
    ELSE FoldLeft(LAMBDA acc, e : acc \o <<",">> \o e, Head(seqs), Tail(seqs))

(* Mutant: only the first variable's binding decides whether any is bound. *)
RECURSIVE CanonFirstOnly(_)
CanonFirstOnly(ti) ==
    IF ti.var \/ ti.args = <<>> \/ (ti.args[1].var /\ ti.args[1].name = Reg[ti.name].vars[1])
    THEN <<ti.name>>
    ELSE <<ti.name, "<">> \o Joined([i \in DOMAIN ti.args |-> CanonFirstOnly(ti.args[i])]) \o <<">">>

(* The canonical form: the type's name, followed, if any variable is      *)
(* bound, by "<", the canonical forms of the bindings in declaration      *)
(* order joined by ",", and ">".  A bare variable is its name.            *)
RECURSIVE Canon(_)
Canon(ti) ==
    IF ti.var \/ ~Bound(ti) THEN <<ti.name>>
    ELSE <<ti.name, "<">> \o Joined([i \in DOMAIN ti.args |-> Canon(ti.args[i])]) \o <<">">>

----------------------------------------------------------------------------
(* rpct_new_typei: the parse of a declaration "Name" or "Name<arg, ...>". *)
(* A name the registry has is that type; any other name without          *)
(* arguments is a generic variable left unbound (a partially specialised *)
(* instance); a name with arguments must be registered and given one     *)
(* argument per variable, or the call returns NULL.                       *)
NoTypei == [name |-> "NULL", var |-> FALSE, args |-> <<>>]
Fail == [ok |-> FALSE, ti |-> NoTypei, args |-> <<>>, next |-> 0]

(* Mutant: every name is looked up in the registry, variables included.  *)
RECURSIVE ParseAtStrict(_, _), ParseArgsStrict(_, _, _)
ParseAtStrict(toks, i) ==
    IF i > Len(toks) \/ toks[i] \notin DOMAIN Reg THEN Fail
    ELSE IF i < Len(toks) /\ toks[i + 1] = "<"
    THEN LET r == ParseArgsStrict(toks, i + 2, <<>>)
         IN  IF ~r.ok THEN Fail
             ELSE [r EXCEPT !.ti = [name |-> toks[i], var |-> FALSE, args |-> r.args]]
    ELSE [ok |-> TRUE, ti |-> TypeTI(toks[i]), args |-> <<>>, next |-> i + 1]
ParseArgsStrict(toks, i, acc) ==
    LET r == ParseAtStrict(toks, i)
    IN  IF ~r.ok \/ r.next > Len(toks) THEN Fail
        ELSE IF toks[r.next] = ","
             THEN ParseArgsStrict(toks, r.next + 1, Append(acc, r.ti))
        ELSE IF toks[r.next] = ">"
             THEN [ok |-> TRUE, ti |-> NoTypei, args |-> Append(acc, r.ti), next |-> r.next + 1]
        ELSE Fail

(* One instance starting at token i, and the token after it.              *)
RECURSIVE ParseAt(_, _), ParseArgs(_, _, _)
ParseAt(toks, i) ==
    IF i > Len(toks) THEN Fail
    ELSE IF i < Len(toks) /\ toks[i + 1] = "<"
    THEN LET r == ParseArgs(toks, i + 2, <<>>)
         IN  IF ~r.ok \/ toks[i] \notin DOMAIN Reg THEN Fail
             ELSE [r EXCEPT !.ti = [name |-> toks[i], var |-> FALSE, args |-> r.args]]
    ELSE [ok |-> TRUE, next |-> i + 1, args |-> <<>>,
          ti |-> IF toks[i] \in DOMAIN Reg THEN TypeTI(toks[i]) ELSE VarTI(toks[i])]
(* The arguments from token i up to the closing ">", collected in acc.    *)
ParseArgs(toks, i, acc) ==
    LET r == ParseAt(toks, i)
    IN  IF ~r.ok \/ r.next > Len(toks) THEN Fail
        ELSE IF toks[r.next] = ","
             THEN ParseArgs(toks, r.next + 1, Append(acc, r.ti))
        ELSE IF toks[r.next] = ">"
             THEN [ok |-> TRUE, ti |-> NoTypei, args |-> Append(acc, r.ti), next |-> r.next + 1]
        ELSE Fail

(* Every instance in it gives each variable of its type one argument.     *)
RECURSIVE WellFormed(_)
WellFormed(ti) ==
    \/ ti.var
    \/ /\ ti.args = <<>> \/ Len(ti.args) = Len(Reg[ti.name].vars)
       /\ \A i \in DOMAIN ti.args : WellFormed(ti.args[i])

NewTypei(toks) ==
    LET r == ParseAt(toks, 1)
    IN  IF r.ok /\ r.next = Len(toks) + 1 /\ ~r.ti.var /\ WellFormed(r.ti)
        THEN r.ti ELSE NoTypei

----------------------------------------------------------------------------
(* rpct_validate: the errors found validating value o against instance   *)
(* ti; the call returns TRUE iff there are none.  A builtin checks the    *)
(* value's tag; a struct needs a dictionary whose every declared member   *)
(* validates and which has no other key; a union a dictionary whose       *)
(* "%type" names a branch and whose "%value" validates against it; an     *)
(* enum a string among its members; a typedef delegates to its body.      *)
(* Member types are resolved through the enclosing instance's bindings    *)
(* before the recursion; an unbound variable accepts anything.            *)
RECURSIVE Errs(_, _)
Errs(ti, o) ==
    IF ti.var THEN {}
    ELSE IF ti = NoTypei THEN {"NULL"}
    ELSE
    LET T == Reg[ti.name]
        b == Bindings(ti)
        isDict == o.t = "dict"
        disc == o.v["%type"]
    IN  CASE T.class = "builtin" ->
                IF o.t = T.tag THEN {} ELSE {ti.name}
          [] T.class = "struct" ->
                IF ~isDict THEN {ti.name}
                ELSE UNION {IF m \in DOMAIN o.v THEN Errs(Resolve(T.members[m], b), o.v[m])
                            ELSE {m} : m \in DOMAIN T.members}
                     \cup (DOMAIN o.v \ DOMAIN T.members)
          [] T.class = "union" ->
                IF /\ isDict
                   /\ DOMAIN o.v = {"%type", "%value"}
                   /\ disc.t = "string" /\ disc.v \in DOMAIN T.members
                THEN Errs(Resolve(T.members[disc.v], b), o.v["%value"])
                ELSE {ti.name}
          [] T.class = "enum" ->
                IF o.t = "string" /\ o.v \in T.enum THEN {} ELSE {ti.name}
          [] T.class = "typedef" ->
                Errs(Resolve(T.body, b), o)

Valid(ti, o) == Errs(ti, o) = {}

----------------------------------------------------------------------------
(* Two callers' instances a and b, and a value: the canonical forms       *)
(* serialisation writes, the instance deserialisation parses back from    *)
(* a's, and the validations.                                              *)
VARIABLES a, b, v, canon, parsed, verdict, pc

vars == <<a, b, v, canon, parsed, verdict, pc>>

Init ==
    /\ a \in TIs /\ b \in TIs /\ v \in Vals
    /\ canon = <<<<>>, <<>>>>
    /\ parsed = NoTypei
    /\ verdict = [a |-> FALSE, b |-> FALSE, parsed |-> FALSE]
    /\ pc = "start"

(* rpct_typei_get_canonical_form of both.                                 *)
GetCanonicalForm ==
    /\ pc = "start"
    /\ canon' = <<Canon(a), Canon(b)>>
    /\ pc' = "canon"
    /\ UNCHANGED <<a, b, v, parsed, verdict>>

(* rpct_new_typei on a's canonical form, as rpct_deserialize does with    *)
(* the "%type" string rpct_serialize wrote.                               *)
NewTypeiStep ==
    /\ pc = "canon"
    /\ parsed' = NewTypei(canon[1])
    /\ pc' = "parsed"
    /\ UNCHANGED <<a, b, v, canon, verdict>>

(* rpct_validate of the value against the three instances.                *)
Validate ==
    /\ pc = "parsed"
    /\ verdict' = [a |-> Valid(a, v), b |-> Valid(b, v), parsed |-> Valid(parsed, v)]
    /\ pc' = "done"
    /\ UNCHANGED <<a, b, v, canon, parsed>>

Next == GetCanonicalForm \/ NewTypeiStep \/ Validate

Spec == Init /\ [][Next]_vars /\ WF_vars(Next)

----------------------------------------------------------------------------
(* Canonical-form injectivity (spec sections 3.2 and 8): two instances    *)
(* with the same canonical string accept the same values.  The canonical *)
(* form leaves out the bindings when no variable is bound, and prints a   *)
(* variable bound to itself by its name, so fully, partially and not      *)
(* specialised instances of a type must never print alike unless          *)
(* validation treats them alike.                                          *)
CanonicalInjective ==
    pc = "done" /\ canon[1] = canon[2] => verdict.a = verdict.b

(* Serialisation round trip (spec section 8): the instance rpct_new_typei *)
(* parses from an instance's canonical form, which is what                *)
(* rpct_deserialize attaches for the "%type" rpct_serialize wrote,        *)
(* accepts exactly the values the original accepts.  Partially           *)
(* specialised instances print their unbound variables, which the parse  *)
(* must read back as variables and not as failed lookups.                 *)
CanonicalRoundTrip ==
    pc = "done" => verdict.parsed = verdict.a
=============================================================================
