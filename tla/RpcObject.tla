----------------------------- MODULE RpcObject -----------------------------
(***************************************************************************)
(* The reference-counted object graph of src/src/rpc_object.c.             *)
(*                                                                         *)
(* Objects are allocated from a pool 1..NObjects in address order and are  *)
(* never reused once freed.  Scalars (bool, int64, uint64, double, date,   *)
(* string, binary) are one kind "scalar": they own no other object.        *)
(* FD and SHMEM values own no object either, but carry a descriptor        *)
(* number of the process's descriptor table, which is modelled too.        *)
(* Arrays, dictionaries and errors own references to their children.       *)
(*                                                                         *)
(* Threads call the library concurrently.  The refcount is the only state  *)
(* the library synchronises (g_atomic_int_inc / dec_and_test), so a call   *)
(* on a container is one atomic step (the spec makes callers serialise     *)
(* container mutation), while rpc_release_impl is split at the points      *)
(* where another thread can run: each dec_and_test of the cascade, and the *)
(* read of ro_refcnt on its last line.                                     *)
(***************************************************************************)
EXTENDS Naturals, Sequences, FiniteSets, TLC

LOCAL INSTANCE Functions
LOCAL INSTANCE SequencesExt
LOCAL INSTANCE FiniteSetsExt

CONSTANTS
    Threads,       \* threads calling into the library
    NObjects,      \* size of the allocation pool
    Keys,          \* dictionary keys
    MaxLen,        \* arrays are written at indices 0..MaxLen-1
    MaxRef,        \* rpc_retain is only called below this refcount
    CreateKinds,   \* kinds of object the callers create with rpc_*_create
    BorrowedArgs,  \* may set_value/set_extra be passed a borrowed pointer?
    FdNums,        \* descriptor numbers; the program has the lowest open
    NONE           \* NULL

ASSUME /\ NObjects \in Nat \ {0}
       /\ MaxLen \in Nat \ {0}
       /\ MaxRef \in Nat \ {0}
       /\ BorrowedArgs \in BOOLEAN
       /\ CreateKinds \subseteq {"scalar", "array", "dict"}
       /\ FdNums \subseteq Nat

Objects == 1..NObjects
Kinds == {"null", "scalar", "array", "dict", "error", "fd", "shmem"}
(* The order g_hash_table iterates a dictionary in: some fixed order.    *)
KeyList == FoldSet(LAMBDA k, acc : Append(acc, k), <<>>, Keys)

VARIABLES
    status,   \* "unused" (never allocated), "live", "dead" (g_free'd)
    kind,     \* ro_type
    refcnt,   \* ro_refcnt
    arr,      \* rv_list of an array: its elements, index i at position i+1
    dict,     \* rv_dict of a dictionary
    extra,    \* rev_extra of an error
    held,     \* held[t][o]: references thread t owns to o
    todo,     \* todo[t]: rpc_release_impl frames of t still to decrement
    reading,  \* reading[t]: object whose ro_refcnt t reads at line 427
    call,     \* call[t]: the container call t is inside after its step, and
              \* the object it retains once its release has returned
    fd,       \* rv_fd of an FD value, rsb_fd of a SHMEM value; -1 if none
    fdtab     \* fdtab[n]: Closed, or who is to close open descriptor n:
              \* Prog (the program), a SHMEM object (on its final
              \* release), or Value (an FD value rpc_copy made: nobody)

vars == <<status, kind, refcnt, arr, dict, extra, held, todo, reading, call,
          fd, fdtab>>

----------------------------------------------------------------------------
(* The references an object owns, in the order teardown releases them.    *)
DictValues(d) ==
    LET ks == SelectSeq(KeyList, LAMBDA k : d[k] # NONE)
    IN  [i \in 1..Len(ks) |-> d[ks[i]]]

Children(o) ==
    CASE kind[o] = "array" -> arr[o]
      [] kind[o] = "dict"  -> DictValues(dict[o])
      [] kind[o] = "error" -> <<extra[o]>>
      [] OTHER             -> <<>>

RECURSIVE ReachFrom(_)
ReachFrom(S) ==
    LET N == S \cup UNION {ToSet(Children(o)) : o \in S}
    IN  IF N = S THEN S ELSE ReachFrom(N)

Owned(t) == {o \in Objects : held[t][o] > 0}

(* Pointers t can have: its own references and what rpc_array_get_value,  *)
(* rpc_dictionary_get_value and rpc_error_get_extra return from them.     *)
Usable(t) == ReachFrom(Owned(t))

(* Pointers t may pass to a call that retains its argument.               *)
ArgRefs(t) == IF BorrowedArgs THEN Usable(t) ELSE Owned(t)

Idle(t) == todo[t] = <<>> /\ reading[t] = NONE /\ call[t] = NONE

Calls == [in : Objects, retain : Objects \cup {NONE}]

(* No other thread is inside a call on a container in S, on one that     *)
(* holds a container of S, or on one that a container of S holds: the    *)
(* callers' side of the contract that containers are not synchronised     *)
(* (a pointer borrowed from a container is read from that container).     *)
Quiet(S, t) ==
    \A u \in Threads \ {t} :
        call[u] # NONE =>
            \A c \in S : c \notin ReachFrom({call[u].in})
                       /\ call[u].in \notin ReachFrom({c})

Live == {o \in Objects : status[o] = "live"}

(* g_malloc0 in rpc_prim_create: objects come from the pool in order.    *)
NextFree == Cardinality({o \in Objects : status[o] # "unused"}) + 1

Count(s, o) == Len(SelectSeq(s, LAMBDA x : x = o))

(* Every reference to o the code holds: threads' own, frames of running  *)
(* releases, and the slots of live containers.                           *)
Owners(o) ==
    SumFunction([t \in Threads |-> held[t][o] + Count(todo[t], o)])
      + SumFunction([c \in Live |-> Count(Children(c), o)])

(* Retains some thread has committed to but not yet done.                *)
Owed(o) == Cardinality({t \in Threads : call[t] # NONE /\ call[t].retain = o})

(* A fresh object of kind k with refcount 1 at address o.                *)
Allocated(o, k) ==
    /\ status' = [status EXCEPT ![o] = "live"]
    /\ kind' = [kind EXCEPT ![o] = k]
    /\ refcnt' = [refcnt EXCEPT ![o] = 1]

(* The entries of fdtab that are not objects.                             *)
Closed == 0
Prog == -1
Value == -2

(* dup and memfd_create return the lowest closed descriptor number, or -1 *)
(* when the table is full (EMFILE); dup also fails on a number that is not *)
(* open (EBADF).                                                           *)
LowestClosed(tab) ==
    IF \E n \in FdNums : tab[n] = Closed
    THEN Min({n \in FdNums : tab[n] = Closed}) ELSE -1
DupIn(n, tab) == IF n \in FdNums /\ tab[n] # Closed THEN LowestClosed(tab) ELSE -1

(* Size of the tree rpc_copy walks from o.                                *)
RECURSIVE Size(_), SizeList(_)
Size(o) == 1 + SizeList(Children(o))
SizeList(s) == IF s = <<>> THEN 0 ELSE Size(Head(s)) + SizeList(Tail(s))

(* Addresses of the copies of the trees in s when the first starts at b.  *)
RECURSIVE RootIds(_, _)
RootIds(s, b) ==
    IF s = <<>> THEN <<>> ELSE <<b>> \o RootIds(Tail(s), b + Size(Head(s)))

(* The copy of o made by rpc_copy, in allocation order from address b:    *)
(* one record per new object, naming the copies of its children.          *)
RECURSIVE CloneNode(_, _), CloneList(_, _)
CloneNode(o, b) ==
    LET kids  == Children(o)
        roots == RootIds(kids, b + 1)
        ks    == SelectSeq(KeyList, LAMBDA k : dict[o][k] # NONE)
        pos(k) == CHOOSE j \in 1..Len(ks) : ks[j] = k
        me == [id    |-> b,
               kind  |-> kind[o],
               arr   |-> IF kind[o] = "array" THEN roots ELSE <<>>,
               dict  |-> [k \in Keys |-> IF kind[o] = "dict" /\ dict[o][k] # NONE
                                         THEN roots[pos(k)] ELSE NONE],
               extra |-> IF kind[o] = "error" THEN roots[1] ELSE NONE]
    IN  <<me>> \o CloneList(kids, b + 1)
CloneList(s, b) ==
    IF s = <<>> THEN <<>>
    ELSE LET h == CloneNode(Head(s), b) IN h \o CloneList(Tail(s), b + Len(h))

(* The objects rpc_copy copies, in the order it allocates them.           *)
RECURSIVE Preorder(_)
Preorder(o) ==
    LET kids == Children(o) IN <<o>> \o FlattenSeq([i \in 1..Len(kids) |-> Preorder(kids[i])])

(* Mutant: the copy of an FD or SHMEM value takes the number unduplicated. *)
RECURSIVE CopyFdsNoDup(_, _, _, _)
CopyFdsNoDup(pre, j, b, tab) ==
    IF j > Len(pre) THEN [fd |-> <<>>, tab |-> tab]
    ELSE [fd |-> <<IF kind[pre[j]] \in {"fd", "shmem"} THEN fd[pre[j]] ELSE -1>>
                 \o CopyFdsNoDup(pre, j + 1, b, tab).fd,
          tab |-> tab]

(* The dup calls rpc_copy makes for the FD and SHMEM values among the     *)
(* objects pre[j..] whose copies start at address b: the descriptor each *)
(* copy gets, and the table after them.  rpc_copy ignores a failed dup    *)
(* and stores its -1.                                                      *)
RECURSIVE CopyFds(_, _, _, _)
CopyFds(pre, j, b, tab) ==
    IF j > Len(pre) THEN [fd |-> <<>>, tab |-> tab]
    ELSE LET s == pre[j]
             m == IF kind[s] \in {"fd", "shmem"} THEN DupIn(fd[s], tab) ELSE -1
             owner == IF kind[s] = "shmem" THEN b + j - 1 ELSE Value
             rest == CopyFds(pre, j + 1, b,
                             IF m = -1 THEN tab ELSE [tab EXCEPT ![m] = owner])
         IN  [fd |-> <<m>> \o rest.fd, tab |-> rest.tab]

----------------------------------------------------------------------------
Init ==
    /\ status = [o \in Objects |-> "unused"]
    /\ kind = [o \in Objects |-> "null"]
    /\ refcnt = [o \in Objects |-> 0]
    /\ arr = [o \in Objects |-> <<>>]
    /\ dict = [o \in Objects |-> [k \in Keys |-> NONE]]
    /\ extra = [o \in Objects |-> NONE]
    /\ held = [t \in Threads |-> [o \in Objects |-> 0]]
    /\ todo = [t \in Threads |-> <<>>]
    /\ reading = [t \in Threads |-> NONE]
    /\ call = [t \in Threads |-> NONE]
    /\ fd = [o \in Objects |-> -1]
    /\ fdtab = [n \in FdNums |-> IF n = Min(FdNums) THEN Prog ELSE Closed]

(* rpc_prim_create via rpc_*_create: a new object owned by the caller.   *)
Create(t, k) ==
    /\ Idle(t)
    /\ NextFree <= NObjects
    /\ Allocated(NextFree, k)
    /\ held' = [held EXCEPT ![t][NextFree] = @ + 1]
    /\ UNCHANGED <<fd, fdtab, arr, dict, extra, todo, reading, call>>

(* rpc_fd_create: an FD value wrapping a descriptor the program holds;   *)
(* the program stays the one to close it (spec section 6).               *)
FdCreate(t, n) ==
    /\ Idle(t)
    /\ NextFree <= NObjects
    /\ fdtab[n] = Prog
    /\ Allocated(NextFree, "fd")
    /\ fd' = [fd EXCEPT ![NextFree] = n]
    /\ held' = [held EXCEPT ![t][NextFree] = @ + 1]
    /\ UNCHANGED <<arr, dict, extra, todo, reading, call, fdtab>>

(* rpc_shmem_create: memfd_create, ftruncate, and a SHMEM value owning   *)
(* the descriptor.  When memfd_create fails, ftruncate(-1) fails and the *)
(* call closes -1 and returns NULL; when ftruncate fails it closes the    *)
(* new descriptor and returns NULL: neither changes any state.            *)
ShmemCreate(t) ==
    /\ Idle(t)
    /\ NextFree <= NObjects
    /\ LowestClosed(fdtab) # -1
    /\ Allocated(NextFree, "shmem")
    /\ fd' = [fd EXCEPT ![NextFree] = LowestClosed(fdtab)]
    /\ fdtab' = [fdtab EXCEPT ![LowestClosed(fdtab)] = NextFree]
    /\ held' = [held EXCEPT ![t][NextFree] = @ + 1]
    /\ UNCHANGED <<arr, dict, extra, todo, reading, call>>

(* rpc_fd_dup, also reached through rpc_array_dup_fd and                  *)
(* rpc_dictionary_dup_fd on an element: dup of the value's descriptor,    *)
(* which the program then holds.  A failed dup returns -1 and changes     *)
(* nothing.                                                                *)
FdDup(t, o) ==
    /\ Idle(t)
    /\ kind[o] = "fd"
    /\ DupIn(fd[o], fdtab) # -1
    /\ fdtab' = [fdtab EXCEPT ![DupIn(fd[o], fdtab)] = Prog]
    /\ UNCHANGED <<status, kind, refcnt, arr, dict, extra, held, todo, reading, call, fd>>

(* Not a library call: the program closes a descriptor it holds, as       *)
(* fd-client closes the pipe's write end after its call.                  *)
ProgClose(n) ==
    /\ fdtab[n] = Prog
    /\ fdtab' = [fdtab EXCEPT ![n] = Closed]
    /\ UNCHANGED <<status, kind, refcnt, arr, dict, extra, held, todo, reading, call, fd>>

(* rpc_retain: g_atomic_int_inc.                                          *)
Retain(t, o) ==
    /\ Idle(t)
    /\ refcnt[o] < MaxRef
    /\ refcnt' = [refcnt EXCEPT ![o] = @ + 1]
    /\ held' = [held EXCEPT ![t][o] = @ + 1]
    /\ UNCHANGED <<fd, fdtab, status, kind, arr, dict, extra, todo, reading, call>>

(* rpc_release: the caller gives up its reference; the decrement follows. *)
Release(t, o) ==
    /\ Idle(t)
    /\ held[t][o] > 0
    /\ held' = [held EXCEPT ![t][o] = @ - 1]
    /\ todo' = [todo EXCEPT ![t] = <<o>>]
    /\ UNCHANGED <<fd, fdtab, status, kind, refcnt, arr, dict, extra, reading, call>>

(* The SHMEM case of the teardown: close(rsb_fd), whatever that number   *)
(* now names.  The other kinds leave the descriptor table alone.          *)
ShmemClose(h) ==
    /\ fdtab' = IF kind[h] = "shmem" /\ fd[h] \in FdNums
                THEN [fdtab EXCEPT ![fd[h]] = Closed] ELSE fdtab
    /\ fd' = [fd EXCEPT ![h] = -1]

(* Mutant: dec_and_test taken as "was at most 2 before the decrement".   *)
DecAndFreeEarly(t) ==
    /\ todo[t] # <<>>
    /\ reading[t] = NONE
    /\ LET h == Head(todo[t]) IN
         /\ refcnt[h] \in {1, 2}
         /\ refcnt' = [refcnt EXCEPT ![h] = 0]
         /\ status' = [status EXCEPT ![h] = "dead"]
         /\ todo' = [todo EXCEPT ![t] = Children(h) \o Tail(@)]
         /\ kind' = [kind EXCEPT ![h] = "null"]
         /\ arr' = [arr EXCEPT ![h] = <<>>]
         /\ dict' = [dict EXCEPT ![h] = [k \in Keys |-> NONE]]
         /\ extra' = [extra EXCEPT ![h] = NONE]
         /\ ShmemClose(h)
    /\ UNCHANGED <<held, reading, call>>

(* rpc_release_impl, dec_and_test reaching zero: the teardown releases    *)
(* the children in order (g_ptr_array_unref, g_hash_table_unref, the      *)
(* extra of an error) before g_free of the object itself.                 *)
DecAndFree(t) ==
    /\ todo[t] # <<>>
    /\ reading[t] = NONE
    /\ LET h == Head(todo[t]) IN
         /\ refcnt[h] = 1
         /\ refcnt' = [refcnt EXCEPT ![h] = 0]
         /\ status' = [status EXCEPT ![h] = "dead"]
         /\ todo' = [todo EXCEPT ![t] = Children(h) \o Tail(@)]
         \* freed memory: its former contents are no longer observable
         /\ kind' = [kind EXCEPT ![h] = "null"]
         /\ arr' = [arr EXCEPT ![h] = <<>>]
         /\ dict' = [dict EXCEPT ![h] = [k \in Keys |-> NONE]]
         /\ extra' = [extra EXCEPT ![h] = NONE]
         /\ ShmemClose(h)
    /\ UNCHANGED <<held, reading, call>>

(* rpc_release_impl, dec_and_test not reaching zero: the function goes on *)
(* to return object->ro_refcnt.                                           *)
DecOnly(t) ==
    /\ todo[t] # <<>>
    /\ reading[t] = NONE
    /\ LET h == Head(todo[t]) IN
         /\ refcnt[h] # 1
         /\ refcnt' = [refcnt EXCEPT ![h] = @ - 1]
         /\ reading' = [reading EXCEPT ![t] = h]
         /\ todo' = [todo EXCEPT ![t] = Tail(@)]
    /\ UNCHANGED <<fd, fdtab, status, kind, arr, dict, extra, held, call>>

(* The read of object->ro_refcnt after the decrement (line 427).         *)
ReadRefcnt(t) ==
    /\ reading[t] # NONE
    /\ reading' = [reading EXCEPT ![t] = NONE]
    /\ UNCHANGED <<fd, fdtab, status, kind, refcnt, arr, dict, extra, held, todo, call>>

(* After a container call's release has returned: the rpc_retain that     *)
(* rpc_array_set_value, rpc_dictionary_set_value and rpc_error_set_extra  *)
(* end with.                                                               *)
FinishRetain(t) ==
    /\ todo[t] = <<>>
    /\ reading[t] = NONE
    /\ call[t] # NONE
    /\ call[t].retain # NONE
    /\ refcnt' = [refcnt EXCEPT ![call[t].retain] = @ + 1]
    /\ call' = [call EXCEPT ![t] = NONE]
    /\ UNCHANGED <<fd, fdtab, status, kind, arr, dict, extra, held, todo, reading>>

(* After its release has returned, a steal or remove call returns.        *)
CallReturn(t) ==
    /\ todo[t] = <<>>
    /\ reading[t] = NONE
    /\ call[t] # NONE
    /\ call[t].retain = NONE
    /\ call' = [call EXCEPT ![t] = NONE]
    /\ UNCHANGED <<fd, fdtab, status, kind, refcnt, arr, dict, extra, held, todo, reading>>

(* The call record left by a call on c that retains r at its end: none    *)
(* when the call released nothing and retains nothing.                    *)
CallOn(t, c, r) ==
    call' = [call EXCEPT ![t] = IF todo'[t] = <<>> /\ r = NONE THEN NONE
                                ELSE [in |-> c, retain |-> r]]

(* Mutant: rpc_error_create stores a NULL extra as it is.                 *)
ErrorCreateKeepsNull(t, x) ==
    /\ Idle(t)
    /\ NextFree <= NObjects
    /\ LET e == NextFree IN
         /\ status' = [status EXCEPT ![e] = "live"]
         /\ kind' = [kind EXCEPT ![e] = "error"]
         /\ refcnt' = [o \in Objects |-> IF o = e THEN 1
                                         ELSE IF o = x THEN refcnt[o] + 1 ELSE refcnt[o]]
         /\ extra' = [extra EXCEPT ![e] = x]
         /\ held' = [held EXCEPT ![t][e] = @ + 1]
    /\ UNCHANGED <<fd, fdtab, arr, dict, todo, reading, call>>

(* rpc_error_create: a NULL extra is replaced by a new null object, a     *)
(* given extra is retained.  The backtrace string is not modelled.        *)
ErrorCreate(t, x) ==
    /\ Idle(t)
    /\ LET e  == IF x = NONE THEN NextFree + 1 ELSE NextFree
           x2 == IF x = NONE THEN NextFree ELSE x
       IN  /\ e <= NObjects
           /\ status' = [status EXCEPT ![e] = "live", ![x2] = "live"]
           /\ kind' = [kind EXCEPT ![e] = "error", ![x2] = IF x = NONE THEN "null" ELSE @]
           /\ refcnt' = [refcnt EXCEPT ![e] = 1, ![x2] = IF x = NONE THEN 1 ELSE @ + 1]
           /\ extra' = [extra EXCEPT ![e] = x2]
           /\ held' = [held EXCEPT ![t][e] = @ + 1]
    /\ UNCHANGED <<fd, fdtab, arr, dict, todo, reading, call>>

(* rpc_error_set_extra: release the old extra, retain the new one.        *)
ErrorSetExtra(t, e, x) ==
    /\ Idle(t)
    /\ kind[e] = "error"
    /\ Quiet({e}, t)
    /\ extra' = [extra EXCEPT ![e] = x]
    /\ todo' = [todo EXCEPT ![t] = <<extra[e]>>]
    /\ CallOn(t, e, x)
    /\ UNCHANGED <<fd, fdtab, status, kind, refcnt, arr, dict, held, reading>>

(* rpc_array_steal_value(a, i, v): the gap up to index i is filled with   *)
(* new null objects, index len appends, a lower index releases the old    *)
(* element and stores v in its place.  born is {v} when v is the scalar   *)
(* rpc_array_set_<type> created for the call (allocated before the gap),  *)
(* and empty otherwise.                                                   *)
StealInto(t, a, i, v, born) ==
    LET len   == Len(arr[a])
        gap   == IF i > len THEN i - len ELSE 0
        base  == NextFree + Cardinality(born)
        nulls == [j \in 1..gap |-> base + j - 1]
        new   == ToSet(nulls) \cup born
    IN  /\ base - 1 <= NObjects
        /\ status' = [o \in Objects |-> IF o \in new THEN "live" ELSE status[o]]
        /\ kind' = [o \in Objects |-> IF o \in born THEN "scalar"
                                       ELSE IF o \in new THEN "null" ELSE kind[o]]
        /\ refcnt' = [o \in Objects |-> IF o \in new THEN 1 ELSE refcnt[o]]
        /\ \/ /\ i < len
              /\ arr' = [arr EXCEPT ![a][i + 1] = v]
              /\ todo' = [todo EXCEPT ![t] = <<arr[a][i + 1]>>]
           \/ /\ i >= len
              /\ base + gap - 1 <= NObjects
              /\ arr' = [arr EXCEPT ![a] = @ \o nulls \o <<v>>]
              /\ UNCHANGED todo

(* Mutant: rpc_array_set_value without its closing rpc_retain.            *)
ArraySetValueNoRetain(t, a, i, v) ==
    /\ Idle(t)
    /\ kind[a] = "array"
    /\ Quiet({a}, t)
    /\ StealInto(t, a, i, v, {})
    /\ CallOn(t, a, NONE)
    /\ UNCHANGED <<fd, fdtab, dict, extra, held, reading>>

(* rpc_array_set_value: steal, then retain the caller's value.            *)
ArraySetValue(t, a, i, v) ==
    /\ Idle(t)
    /\ kind[a] = "array"
    /\ Quiet({a}, t)
    /\ StealInto(t, a, i, v, {})
    /\ CallOn(t, a, v)
    /\ UNCHANGED <<fd, fdtab, dict, extra, held, reading>>

(* rpc_array_steal_value called with a reference the caller owns.         *)
ArraySteal(t, a, i, v) ==
    /\ Idle(t)
    /\ kind[a] = "array"
    /\ Quiet({a}, t)
    /\ held[t][v] > 0
    /\ StealInto(t, a, i, v, {})
    /\ held' = [held EXCEPT ![t][v] = @ - 1]
    /\ CallOn(t, a, NONE)
    /\ UNCHANGED <<fd, fdtab, dict, extra, reading>>

(* rpc_array_set_<type>: rpc_array_steal_value of a scalar the call has  *)
(* just created.                                                          *)
ArraySetScalar(t, a, i) ==
    /\ Idle(t)
    /\ kind[a] = "array"
    /\ Quiet({a}, t)
    /\ StealInto(t, a, i, NextFree, {NextFree})
    /\ CallOn(t, a, NONE)
    /\ UNCHANGED <<fd, fdtab, dict, extra, held, reading>>

(* rpc_array_append_stolen_value: g_ptr_array_add (abort on a non-array). *)
AddTo(a, v) ==
    /\ kind[a] = "array"
    /\ Len(arr[a]) < MaxLen
    /\ arr' = [arr EXCEPT ![a] = Append(@, v)]

(* rpc_array_append_stolen_value called with a reference the caller owns. *)
ArrayAppendStolen(t, a, v) ==
    /\ Idle(t)
    /\ Quiet({a}, t)
    /\ held[t][v] > 0
    /\ AddTo(a, v)
    /\ held' = [held EXCEPT ![t][v] = @ - 1]
    /\ UNCHANGED <<fd, fdtab, status, kind, refcnt, dict, extra, todo, reading, call>>

(* rpc_array_append_value: the stolen append, then rpc_retain(value).     *)
ArrayAppendValue(t, a, v) ==
    /\ Idle(t)
    /\ Quiet({a}, t)
    /\ AddTo(a, v)
    /\ call' = [call EXCEPT ![t] = [in |-> a, retain |-> v]]
    /\ UNCHANGED <<fd, fdtab, status, kind, refcnt, dict, extra, held, todo, reading>>

(* rpc_array_create_ex(objects, count, steal): a new array, then one      *)
(* append per object, stolen or retained.  The array is the caller's own  *)
(* until the call returns, so the loop is one step.                       *)
ArrayCreateEx(t, s, steal) ==
    /\ Idle(t)
    /\ NextFree <= NObjects
    /\ steal => \A o \in ToSet(s) : held[t][o] >= Count(s, o)
    /\ LET a == NextFree IN
         /\ status' = [status EXCEPT ![a] = "live"]
         /\ kind' = [kind EXCEPT ![a] = "array"]
         /\ refcnt' = [o \in Objects |-> IF o = a THEN 1
                                         ELSE IF steal THEN refcnt[o]
                                         ELSE refcnt[o] + Count(s, o)]
         /\ arr' = [arr EXCEPT ![a] = s]
         /\ held' = [held EXCEPT ![t] = [o \in Objects |->
                          IF o = a THEN 1
                          ELSE IF steal THEN held[t][o] - Count(s, o) ELSE held[t][o]]]
    /\ UNCHANGED <<fd, fdtab, dict, extra, todo, reading, call>>

(* rpc_array_remove_index: g_ptr_array_remove_index calls the free func.  *)
ArrayRemoveIndex(t, a, i) ==
    /\ Idle(t)
    /\ kind[a] = "array"
    /\ Quiet({a}, t)
    /\ i < Len(arr[a])
    /\ arr' = [arr EXCEPT ![a] = RemoveAt(@, i + 1)]
    /\ todo' = [todo EXCEPT ![t] = <<arr[a][i + 1]>>]
    /\ CallOn(t, a, NONE)
    /\ UNCHANGED <<fd, fdtab, status, kind, refcnt, dict, extra, held, reading>>

(* Mutant: the slice takes the elements with rpc_array_append_stolen_value, *)
(* so the borrowed elements are not retained.                             *)
ArraySliceSteals(t, a, i) ==
    /\ Idle(t)
    /\ kind[a] = "array"
    /\ Quiet({a}, t)
    /\ NextFree <= NObjects
    /\ LET s    == NextFree
           tail == IF i < Len(arr[a]) THEN SubSeq(arr[a], i + 1, Len(arr[a])) ELSE <<>>
       IN  /\ status' = [status EXCEPT ![s] = "live"]
           /\ kind' = [kind EXCEPT ![s] = "array"]
           /\ refcnt' = [refcnt EXCEPT ![s] = 1]
           /\ arr' = [arr EXCEPT ![s] = tail]
           /\ held' = [held EXCEPT ![t][s] = @ + 1]
    /\ UNCHANGED <<fd, fdtab, dict, extra, todo, reading, call>>

(* rpc_array_slice(a, i, -1): a new array holding retained elements i..   *)
ArraySlice(t, a, i) ==
    /\ Idle(t)
    /\ kind[a] = "array"
    /\ Quiet({a}, t)
    /\ NextFree <= NObjects
    /\ LET s    == NextFree
           tail == IF i < Len(arr[a]) THEN SubSeq(arr[a], i + 1, Len(arr[a])) ELSE <<>>
       IN  /\ status' = [status EXCEPT ![s] = "live"]
           /\ kind' = [kind EXCEPT ![s] = "array"]
           /\ refcnt' = [o \in Objects |-> IF o = s THEN 1 ELSE refcnt[o] + Count(tail, o)]
           /\ arr' = [arr EXCEPT ![s] = tail]
           /\ held' = [held EXCEPT ![t][s] = @ + 1]
    /\ UNCHANGED <<fd, fdtab, dict, extra, todo, reading, call>>

(* Mutant: the table has no value destroy function, so a replaced value  *)
(* is not released.                                                       *)
DictInsertNoDestroy(t, d, k, v) ==
    /\ dict' = [dict EXCEPT ![d][k] = v]
    /\ todo' = [todo EXCEPT ![t] = <<>>]

(* rpc_dictionary_steal_value: g_hash_table_insert destroys the value a  *)
(* key already had.                                                       *)
DictInsert(t, d, k, v) ==
    /\ dict' = [dict EXCEPT ![d][k] = v]
    /\ todo' = [todo EXCEPT ![t] = IF dict[d][k] = NONE THEN <<>> ELSE <<dict[d][k]>>]

(* rpc_dictionary_set_value with a value: steal, then retain.             *)
DictSetValue(t, d, k, v) ==
    /\ Idle(t)
    /\ kind[d] = "dict"
    /\ Quiet({d}, t)
    /\ DictInsert(t, d, k, v)
    /\ CallOn(t, d, v)
    /\ UNCHANGED <<fd, fdtab, status, kind, refcnt, arr, extra, held, reading>>

(* rpc_dictionary_steal_value called with a reference the caller owns.    *)
DictSteal(t, d, k, v) ==
    /\ Idle(t)
    /\ kind[d] = "dict"
    /\ Quiet({d}, t)
    /\ held[t][v] > 0
    /\ DictInsert(t, d, k, v)
    /\ held' = [held EXCEPT ![t][v] = @ - 1]
    /\ CallOn(t, d, NONE)
    /\ UNCHANGED <<fd, fdtab, status, kind, refcnt, arr, extra, reading>>

(* rpc_dictionary_set_<type>: rpc_dictionary_steal_value of a scalar the *)
(* call has just created.                                                  *)
DictSetScalar(t, d, k) ==
    /\ Idle(t)
    /\ kind[d] = "dict"
    /\ Quiet({d}, t)
    /\ NextFree <= NObjects
    /\ Allocated(NextFree, "scalar")
    /\ DictInsert(t, d, k, NextFree)
    /\ CallOn(t, d, NONE)
    /\ UNCHANGED <<fd, fdtab, arr, extra, held, reading>>

(* The slots of a table after inserting the pairs ps in order, and the    *)
(* values g_hash_table_insert destroyed on the way.                       *)
RECURSIVE Fill(_, _)
Fill(m, ps) ==
    IF ps = <<>> THEN [slots |-> m, dropped |-> <<>>]
    ELSE LET k    == Head(ps)[1]
             rest == Fill([m EXCEPT ![k] = Head(ps)[2]], Tail(ps))
         IN  [slots   |-> rest.slots,
              dropped |-> (IF m[k] = NONE THEN <<>> ELSE <<m[k]>>) \o rest.dropped]

(* rpc_dictionary_create_ex(keys, values, count, steal): a new dictionary, *)
(* then rpc_dictionary_steal_value or rpc_dictionary_set_value per pair.   *)
(* A key given twice destroys the value set first.  The dictionary is the  *)
(* caller's own until the call returns, so the loop is one step; the       *)
(* releases of destroyed values run after it.                              *)
DictCreateEx(t, ks, vs, steal) ==
    /\ Idle(t)
    /\ NextFree <= NObjects
    /\ steal => \A o \in ToSet(vs) : held[t][o] >= Count(vs, o)
    /\ LET d == NextFree
           r == Fill([k \in Keys |-> NONE], [j \in DOMAIN ks |-> <<ks[j], vs[j]>>])
       IN  /\ status' = [status EXCEPT ![d] = "live"]
           /\ kind' = [kind EXCEPT ![d] = "dict"]
           /\ refcnt' = [o \in Objects |-> IF o = d THEN 1
                                           ELSE IF steal THEN refcnt[o]
                                           ELSE refcnt[o] + Count(vs, o)]
           /\ dict' = [dict EXCEPT ![d] = r.slots]
           /\ held' = [held EXCEPT ![t] = [o \in Objects |->
                            IF o = d THEN 1
                            ELSE IF steal THEN held[t][o] - Count(vs, o) ELSE held[t][o]]]
           /\ todo' = [todo EXCEPT ![t] = r.dropped]
           /\ CallOn(t, d, NONE)
    /\ UNCHANGED <<fd, fdtab, arr, extra, reading>>

(* rpc_dictionary_remove_key (and rpc_dictionary_set_value with NULL).    *)
DictRemoveKey(t, d, k) ==
    /\ Idle(t)
    /\ kind[d] = "dict"
    /\ Quiet({d}, t)
    /\ dict[d][k] # NONE
    /\ dict' = [dict EXCEPT ![d][k] = NONE]
    /\ todo' = [todo EXCEPT ![t] = <<dict[d][k]>>]
    /\ CallOn(t, d, NONE)
    /\ UNCHANGED <<fd, fdtab, status, kind, refcnt, arr, extra, held, reading>>

(* rpc_copy: a deep copy owned by the caller.  The copy of an error is    *)
(* rpc_error_create(code, msg, rpc_copy(extra)), which retains the copy   *)
(* of the extra that rpc_copy already returned with refcount 1.           *)
Copy(t, o) ==
    /\ Idle(t)
    /\ Quiet(ReachFrom({o}), t)
    /\ NextFree + Size(o) - 1 <= NObjects
    /\ LET b    == NextFree
           recs == CloneNode(o, b)
           new  == b .. b + Len(recs) - 1
           rec(x) == recs[x - b + 1]
           errExtras == {recs[j].extra : j \in {j \in 1..Len(recs) : recs[j].kind = "error"}}
       IN  /\ status' = [x \in Objects |-> IF x \in new THEN "live" ELSE status[x]]
           /\ kind' = [x \in Objects |-> IF x \in new THEN rec(x).kind ELSE kind[x]]
           /\ refcnt' = [x \in Objects |-> IF x \in errExtras THEN 2
                                           ELSE IF x \in new THEN 1 ELSE refcnt[x]]
           /\ arr' = [x \in Objects |-> IF x \in new THEN rec(x).arr ELSE arr[x]]
           /\ dict' = [x \in Objects |-> IF x \in new THEN rec(x).dict ELSE dict[x]]
           /\ extra' = [x \in Objects |-> IF x \in new THEN rec(x).extra ELSE extra[x]]
           /\ held' = [held EXCEPT ![t][b] = @ + 1]
           /\ LET dups == CopyFds(Preorder(o), 1, b, fdtab)
              IN  /\ fd' = [x \in Objects |-> IF x \in new THEN dups.fd[x - b + 1] ELSE fd[x]]
                  /\ fdtab' = dups.tab
    /\ UNCHANGED <<todo, reading, call>>

(* Not a library call: the program passes a reference it owns to another *)
(* thread (a handler's argument, a value published to a reader thread).   *)
Handoff(t, u, o) ==
    /\ Idle(t)
    /\ held[t][o] > 0
    /\ held' = [held EXCEPT ![t][o] = @ - 1, ![u][o] = @ + 1]
    /\ UNCHANGED <<fd, fdtab, status, kind, refcnt, arr, dict, extra, todo, reading, call>>

----------------------------------------------------------------------------
(* A container never comes to hold itself: v is not an ancestor of c.     *)
NoCycle(c, v) == c \notin ReachFrom({v})

Next ==
    \/ \E t \in Threads :
        \/ \E k \in CreateKinds : Create(t, k)
        \/ ShmemCreate(t) \/ \E n \in FdNums : FdCreate(t, n)
        \/ \E o \in Usable(t) : FdDup(t, o)
        \/ \E x \in Usable(t) \cup {NONE} : ErrorCreate(t, x)
        \/ \E o \in Usable(t) : Retain(t, o) \/ Copy(t, o)
        \/ \E o \in Owned(t) : Release(t, o) \/ \E u \in Threads \ {t} : Handoff(t, u, o)
        \/ DecAndFree(t) \/ DecOnly(t) \/ ReadRefcnt(t) \/ FinishRetain(t) \/ CallReturn(t)
        \/ \E c \in Usable(t), v \in ArgRefs(t) : NoCycle(c, v) /\ ArrayAppendValue(t, c, v)
        \/ \E c \in Usable(t), v \in Owned(t) : NoCycle(c, v) /\ ArrayAppendStolen(t, c, v)
        \/ \E c \in Usable(t), v \in ArgRefs(t) :
              /\ NoCycle(c, v)
              /\ \/ ErrorSetExtra(t, c, v)
                 \/ \E i \in 0..MaxLen - 1 : ArraySetValue(t, c, i, v)
                 \/ \E k \in Keys : DictSetValue(t, c, k, v)
        \/ \E c \in Usable(t), v \in Owned(t) :
              /\ NoCycle(c, v)
              /\ \/ \E i \in 0..MaxLen - 1 : ArraySteal(t, c, i, v)
                 \/ \E k \in Keys : DictSteal(t, c, k, v)
        \/ \E c \in Usable(t) :
              \/ \E i \in 0..MaxLen - 1 :
                    ArrayRemoveIndex(t, c, i) \/ ArraySlice(t, c, i) \/ ArraySetScalar(t, c, i)
              \/ \E k \in Keys : DictRemoveKey(t, c, k) \/ DictSetScalar(t, c, k)
        \/ \E n \in 1..MaxLen, steal \in BOOLEAN :
              \E vs \in [1..n -> IF steal THEN Owned(t) ELSE ArgRefs(t)] :
                  \/ "array" \in CreateKinds /\ ArrayCreateEx(t, vs, steal)
                  \/ "dict" \in CreateKinds /\ \E ks \in [1..n -> Keys] : DictCreateEx(t, ks, vs, steal)
    \/ \E n \in FdNums : ProgClose(n)

(* A thread inside rpc_release_impl or a set_value runs to its return.    *)
Fairness ==
    \A t \in Threads :
        WF_vars(DecAndFree(t) \/ DecOnly(t) \/ ReadRefcnt(t) \/ FinishRetain(t) \/ CallReturn(t))

Spec == Init /\ [][Next]_vars /\ Fairness

----------------------------------------------------------------------------
TypeOK ==
    /\ status \in [Objects -> {"unused", "live", "dead"}]
    /\ kind \in [Objects -> Kinds]
    /\ refcnt \in [Objects -> Nat]
    /\ arr \in [Objects -> Seq(Objects)]
    /\ dict \in [Objects -> [Keys -> Objects \cup {NONE}]]
    /\ extra \in [Objects -> Objects \cup {NONE}]
    /\ \A o \in Live : kind[o] = "error" => extra[o] \in Objects
    /\ held \in [Threads -> [Objects -> Nat]]
    /\ todo \in [Threads -> Seq(Objects)]
    /\ reading \in [Threads -> Objects \cup {NONE}]
    /\ call \in [Threads -> Calls \cup {NONE}]
    /\ fd \in [Objects -> FdNums \cup {-1}]
    /\ fdtab \in [FdNums -> {Closed, Prog, Value} \cup Objects]

(* No premature free: the refcount of a live object, with the retains     *)
(* already committed to, is never below the number of references that    *)
(* threads, running releases and live containers hold on it.              *)
RefcountCoversOwners ==
    \A o \in Live : refcnt[o] + Owed(o) >= Owners(o)

(* No dangling reference: nothing the code still holds (a thread's        *)
(* reference, a release frame or a live container's slot) points to an   *)
(* object that rpc_release_impl has freed.                                *)
NoDanglingReference ==
    \A o \in Objects \ Live : Owners(o) = 0

(* A SHMEM value's descriptor is closed exactly once, on its final        *)
(* release (spec section 2): every live SHMEM value whose descriptor is    *)
(* valid is the one the table says is to close it, so no two values share *)
(* it and neither the program nor another release has closed it under     *)
(* the value; and no descriptor is left to a SHMEM value that is gone.     *)
(* This is what rpc_copy's dup and the close in rpc_release_impl's        *)
(* teardown must keep, under any interleaving of threads.                  *)
ShmemClosedOnce ==
    /\ \A o \in Live : kind[o] = "shmem" /\ fd[o] # -1 => fdtab[fd[o]] = o
    /\ \A n \in FdNums : fdtab[n] \in Objects => fdtab[n] \in Live

(* No leak: every live object is still referenced from somewhere; an      *)
(* object nobody references can never be released.                        *)
NoLeak ==
    \A o \in Live : Owners(o) + Owed(o) > 0

(* No use after free: the two accesses the library makes to an object   *)
(* it does not own a reference to at that moment, rpc_release_impl's read *)
(* of ro_refcnt after its decrement (line 427) and the rpc_retain that    *)
(* ends rpc_array_set_value, rpc_dictionary_set_value and                 *)
(* rpc_error_set_extra after their release, touch allocated objects only. *)
NoUseAfterFree ==
    \A t \in Threads :
        /\ reading[t] # NONE => reading[t] \in Live
        /\ call[t] # NONE /\ call[t].retain # NONE => call[t].retain \in Live


(* Memory safety of the object model: no object outlives every owner and *)
(* the library touches no freed object.  rpc_copy, the set_value calls    *)
(* and rpc_release_impl must all keep both, under any caller sequence and *)
(* interleaving, with the borrowed pointers the getters hand out.        *)
MemorySafe == NoLeak /\ NoUseAfterFree

=============================================================================
