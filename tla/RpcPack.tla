------------------------------- MODULE RpcPack -------------------------------
(* rpc_object_vpack (src/src/rpc_object.c 629-839), one iteration of its  *)
(* character loop per step, on the object heap of RpcObject.  The stack   *)
(* of containers under construction, the queue of dictionary keys, the    *)
(* array index and current are the code's locals; the objects they point  *)
(* to are allocated, stolen into containers and released by the same      *)
(* operations the library exports, run by the one thread that packs.      *)
EXTENDS RpcFormat
LOCAL INSTANCE SequencesExt

CONSTANTS
    Formats0,  \* the format strings the caller passes
    PoolSize,  \* objects the allocator can hand out
    NoObj      \* NULL

VARIABLES
    f,        \* the format
    ptr,      \* the position the loop is at
    stack,    \* the GQueue of open containers, innermost last
    keys,     \* the GQueue of dictionary keys, last pushed last
    idx,      \* the array index of the element being built
    cur,      \* current
    ap,       \* the position in the variadic list
    pc,       \* "loop", or what the call returned: "done" or "error"
    leaf,     \* leaf[o]: the value a scalar object was created with
    status, kind, refcnt, arr, dict, extra, held, todo, reading, call,
    fd, fdtab

packVars == <<f, ptr, stack, keys, idx, cur, ap, pc, leaf>>
heapVars == <<status, kind, refcnt, arr, dict, extra, held, todo, reading, call,
              fd, fdtab>>
vars == <<packVars, heapVars>>

Packer == "vpack"

(* Dictionary keys: the literal prefixes and the keys taken from va_arg.  *)
PackKeys == Letters \cup {ArgAtoms[j] : j \in DOMAIN ArgAtoms}

Heap == INSTANCE RpcObject
          WITH Threads <- {Packer}, NObjects <- PoolSize, Keys <- PackKeys,
               MaxLen <- PoolSize, MaxRef <- PoolSize, CreateKinds <- {},
               BorrowedArgs <- FALSE, FdNums <- {0}, NONE <- NoObj

(* The value an object on the heap stands for.                            *)
RECURSIVE Val(_)
Val(o) ==
    CASE kind[o] = "array" -> [EmptyArray EXCEPT !.a = [j \in DOMAIN arr[o] |-> Val(arr[o][j])]]
      [] kind[o] = "dict"  -> [EmptyDict EXCEPT !.d = [k \in {k \in PackKeys : dict[o][k] # NoObj}
                                                         |-> Val(dict[o][k])]]
      [] kind[o] = "null"  -> NullV
      [] OTHER             -> leaf[o]

Container == IF stack = <<>> THEN NoValue ELSE Val(Last(stack))
Delim == IF Container.t = "array" THEN "]" ELSE "}"

Init ==
    /\ f \in Formats0
    /\ ptr = 1
    /\ stack = <<>>
    /\ keys = <<>>
    /\ idx = 0
    /\ cur = NoObj
    /\ ap = 1
    /\ pc = "loop"
    /\ leaf = [o \in 1..PoolSize |-> NullV]
    /\ Heap!Init

(* Lines 652-728: inside a container, at a character other than its      *)
(* closer, the element is located: the search for a comma or a bracket,  *)
(* its index (strtol up to the colon, or the array's count) or its key   *)
(* (the text before the colon, or the next va_arg), then the character   *)
(* the switch will see and where ptr is left.  bad: the index is not a   *)
(* number ending at the colon (goto error).                              *)
ElemStart ==
    IF stack = <<>> \/ f[ptr] = Delim
    THEN [ch |-> f[ptr], ptr |-> ptr, idx |-> idx, keys |-> keys, ap |-> ap, bad |-> FALSE]
    ELSE LET sc == Scan(f, ptr, 0)
             isArr == Container.t = "array"
             key == IF sc.colon # 0 THEN KeyOf(SubSeq(f, ptr, sc.colon - 1)) ELSE Arg(ap)
             stopCh == At(f, sc.stop)
         IN  [ch |-> IF ~sc.comma /\ stopCh # Delim THEN stopCh ELSE At(f, sc.stop - 1),
              ptr |-> IF ~sc.comma /\ stopCh = Delim THEN sc.stop - 1 ELSE sc.stop,
              idx |-> CASE ~isArr -> idx
                        [] sc.colon # 0 -> DigitsValue(f, ptr, DigitEnd(f, ptr))
                        [] OTHER -> Len(Container.a),
              keys |-> IF isArr THEN keys ELSE Append(keys, key),
              ap |-> IF ~isArr /\ sc.colon = 0 THEN ap + 1 ELSE ap,
              bad |-> isArr /\ sc.colon # 0 /\ DigitEnd(f, ptr) # sc.colon]

(* Lines 812-829: current goes into the container now on top, under the *)
(* key popped off the queue or at idx, and the loop goes on; with no     *)
(* container, vpack returns current.                                     *)
Place(e, st) ==
    IF st = <<>>
    THEN /\ pc' = "done"
         /\ UNCHANGED <<stack, keys, ptr>>
         /\ idx' = e.idx
    ELSE /\ stack' = st
         /\ keys' = IF kind[Last(st)] = "dict" THEN Front(e.keys) ELSE e.keys
         /\ idx' = e.idx
         /\ ptr' = e.ptr + 1
         /\ UNCHANGED pc

(* rpc_dictionary_steal_value or rpc_array_steal_value of o into the      *)
(* container on top of st; nothing with no container.                     *)
StealCurrent(e, st, o) ==
    IF st = <<>> THEN UNCHANGED heapVars
    ELSE IF kind[Last(st)] = "dict"
         THEN Heap!DictSteal(Packer, Last(st), Last(e.keys), o)
         ELSE Heap!ArraySteal(Packer, Last(st), e.idx, o)

(* rpc_*_create, then the steal of the new object into the container:    *)
(* rpc_dictionary_set_<type> and rpc_array_set_<type> do the same.  The  *)
(* null of 'n' is a leaf like the other scalars.                          *)
NewCurrent(e, st) ==
    IF st = <<>> THEN Heap!Create(Packer, "scalar")
    ELSE IF kind[Last(st)] = "dict"
         THEN Heap!DictSetScalar(Packer, Last(st), Last(e.keys))
         ELSE Heap!ArraySetScalar(Packer, Last(st), e.idx)

(* The value a scalar token creates.                                      *)
TokenValue(e) ==
    CASE e.ch = "n" -> NullV
      [] e.ch = "i" -> Leaf("int64", Arg(e.ap))
      [] e.ch = "s" -> Leaf("string", Arg(e.ap))

(* Mutant: 'n' takes an argument like the other scalars.                  *)
ScalarNullTakesArg ==
    LET e == ElemStart IN
    /\ pc = "loop" /\ ptr <= Len(f) /\ ~e.bad
    /\ e.ch \in Scalars
    /\ cur' = Heap!NextFree
    /\ leaf' = [leaf EXCEPT ![Heap!NextFree] = TokenValue(e)]
    /\ ap' = e.ap + 1
    /\ NewCurrent(e, stack)
    /\ Place(e, stack)
    /\ UNCHANGED f

(* Lines 730-766: a scalar token creates current from the next va_arg    *)
(* ('n' takes none).                                                     *)
Scalar ==
    LET e == ElemStart IN
    /\ pc = "loop" /\ ptr <= Len(f) /\ ~e.bad
    /\ e.ch \in Scalars
    /\ cur' = Heap!NextFree
    /\ leaf' = [leaf EXCEPT ![Heap!NextFree] = TokenValue(e)]
    /\ ap' = IF e.ch = "n" THEN e.ap ELSE e.ap + 1
    /\ NewCurrent(e, stack)
    /\ Place(e, stack)
    /\ UNCHANGED f

(* Lines 783-791: '[' or '{' creates a container and pushes it.          *)
Open ==
    LET e == ElemStart IN
    /\ pc = "loop" /\ ptr <= Len(f) /\ ~e.bad
    /\ e.ch \in {"[", "{"}
    /\ Heap!Create(Packer, IF e.ch = "[" THEN "array" ELSE "dict")
    /\ stack' = Append(stack, Heap!NextFree)
    /\ ptr' = e.ptr + 1
    /\ keys' = e.keys /\ idx' = e.idx /\ ap' = e.ap
    /\ UNCHANGED <<f, cur, pc, leaf>>

(* Lines 793-797: a closer pops the top container into current; the one *)
(* below becomes the container.                                          *)
Close ==
    LET e == ElemStart IN
    /\ pc = "loop" /\ ptr <= Len(f) /\ ~e.bad
    /\ Heap!Idle(Packer)
    /\ e.ch \in Closers
    /\ cur' = Last(stack)
    /\ ap' = e.ap
    /\ StealCurrent(e, Front(stack), Last(stack))
    /\ Place(e, Front(stack))
    /\ UNCHANGED <<f, leaf>>

(* Lines 832-838, goto error: rpc_release(current), whether or not a     *)
(* container has already stolen it; g_queue_free drops the stack's       *)
(* pointers to the open containers without releasing them; NULL.          *)
ErrorExit ==
    /\ Heap!Idle(Packer)
    /\ pc' = "error"
    /\ todo' = [todo EXCEPT ![Packer] = IF cur = NoObj THEN <<>> ELSE <<cur>>]
    /\ held' = [held EXCEPT ![Packer] =
                   [o \in DOMAIN held[Packer] |-> held[Packer][o] - Heap!Count(stack, o)]]
    /\ UNCHANGED <<fd, fdtab, status, kind, refcnt, arr, dict, extra, reading, call>>
    /\ UNCHANGED <<f, ptr, stack, keys, idx, cur, ap, leaf>>

(* Lines 799-800: any other character.                                   *)
BadToken ==
    LET e == ElemStart IN
    /\ pc = "loop" /\ ptr <= Len(f) /\ ~e.bad
    /\ e.ch \notin Scalars \cup {"[", "{"} \cup Closers
    /\ ErrorExit

(* Lines 692-696: the array index does not end at the colon.             *)
BadIndex ==
    /\ pc = "loop" /\ ptr <= Len(f)
    /\ ElemStart.bad
    /\ ErrorExit

(* Line 832: the format ended with no value returned.                     *)
FormatEnd ==
    /\ pc = "loop" /\ ptr > Len(f)
    /\ ErrorExit

(* The decrements of a release vpack started, as rpc_release_impl runs    *)
(* them: the old element a steal replaced, or current on the error path.  *)
ReleaseStep ==
    /\ \/ Heap!DecAndFree(Packer) \/ Heap!DecOnly(Packer)
       \/ Heap!ReadRefcnt(Packer) \/ Heap!CallReturn(Packer)
    /\ UNCHANGED packVars

Next == Scalar \/ Open \/ Close \/ BadToken \/ BadIndex \/ FormatEnd \/ ReleaseStep

Spec == Init /\ [][Next]_vars /\ WF_vars(Next)

----------------------------------------------------------------------------
(* What spec section 4.1 says the format builds, and the arguments it takes *)
Ref == RefPack(f)
Returned == pc # "loop"

(* vpack returns the value its format describes, and NULL for a format  *)
(* that describes none: every element at its index or under its key, gaps *)
(* filled with nulls, and it has taken exactly the arguments the format   *)
(* names.  Through the comma search, the ptr adjustment at 715-726 and    *)
(* the index and key bookkeeping, each element must end up where its      *)
(* prefix or position puts it.                                            *)
PackMatchesSpec ==
    Returned =>
        /\ pc = "done" <=> Ref.val # NoValue
        /\ pc = "done" => Val(cur) = Ref.val /\ ap = Ref.ap


(* What vpack returns owns everything it built (spec 4.1): once it has    *)
(* returned a value and its releases have run, the live objects are       *)
(* exactly those reachable from the result, each with as many references  *)
(* as slots and the caller hold, and the caller holds one reference, to   *)
(* the result.  Steals that replace an element or a key's value, gaps      *)
(* filled with nulls and containers placed on close all change counts.    *)
ResultOwnsAll ==
    pc = "done" /\ Heap!Idle(Packer) =>
        /\ Heap!Live = Heap!ReachFrom({cur})
        /\ \A o \in Heap!Live : refcnt[o] = Heap!Owners(o)
        /\ held[Packer] = [o \in 1..PoolSize |-> IF o = cur THEN 1 ELSE 0]

(* A malformed format releases the partially built structure (spec 4.1,   *)
(* "release of partial structure", and section 7): once vpack has         *)
(* returned NULL and its releases have run, nothing it allocated is live. *)
ErrorReleasesPartial ==
    pc = "error" /\ Heap!Idle(Packer) => Heap!Live = {}

(* vpack meets spec section 4.1 on every format: it returns the value the *)
(* format describes, and on a malformed one returns NULL having released  *)
(* what it built.                                                         *)
PackMeetsSpec == PackMatchesSpec /\ ErrorReleasesPartial

============================================================================
