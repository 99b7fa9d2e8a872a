# TLA+ models of librpc

This directory holds TLA+ models of the librpc C library: `src/src/rpc_object.c` (the value
model, pack and unpack, hash and comparison), `src/src/transport/socket.c`, and the call runtime
whose API `src/include/rpc/service.h` declares. TLC checks them.
Each module translates the code it names. PROJECT.json maps every
definition to the lines it models.

## The system

| Part | Code | State | Operations |
|---|---|---|---|
| Value model | `rpc_object.c` | Heap objects `struct rpc_object`: type, value, atomic `ro_refcnt`. Arrays hold a `GPtrArray` and dictionaries a `GHashTable`, both with `rpc_release_impl` as destroy notifier. An error holds code, message, extra and stack. FD and SHMEM values hold a descriptor number of the process. | create, `rpc_retain`, `rpc_release_impl`, `rpc_copy`, array set/steal/append/remove/slice/create_ex, dictionary set/steal/remove/create_ex, the typed setters, error create/set_extra, `rpc_fd_create`, `rpc_fd_dup`, `rpc_shmem_create`, getters returning borrowed pointers |
| Pack / unpack | `rpc_object.c` 240-340, 615-862 | none (pure) | build a tree from a format string and arguments; read one back |
| Hash / equal / cmp | `rpc_object.c` 82-91, 521-600 | none (pure) | djb2 over bytes, XOR-folded hash of containers; `rpc_equal` and `rpc_cmp` derived from it; `rpc_cmp` is the comparator `rpc_array_sort` (1464-1473) hands to GLib |
| Description, JSON | `rpc_object.c` 93-240, 352-363 | none | text formatting |
| Socket transport | `transport/socket.c` | A connection: socket, streams, reader thread | connect, listen, `socket_send_msg` (header, then payload), `socket_recv_msg`, abort, reader loop handing frames to the connection |
| Call runtime, dispatch context | `include/rpc/service.h` | declared only, with the contracts in its comments; the behaviour is spec §4.4, §4.5, §5 | instance and method registry, `dispatch_call` and the transport's ingress, pre-call hook, the handler's `respond`/`error`/`yield`/`end`/`should_abort` and its return value, abort, connection loss |
| Typing | `include/rpc/typing.h` | declared only, with comments on types and type instances; the behaviour is spec §3.2, §4.2 | a registry of types (struct, union, enum, typedef, builtin) with generic variables; type instances bound fully, partly or not at all; `rpct_typei_get_canonical_form`, `rpct_new_typei`, `rpct_typei_get_member_type`, `rpct_validate`; `rpct_serialize`/`rpct_deserialize` write and read the canonical form under `%type` |
| fd-client example | `examples/fd-client` | one call over a connection, passing the write end of a pipe | `rpc_fd_create` of the write end, the call (client API, not in this tree), `close` of the write end, reading the pipe to its end |

How the parts interact:

- The transport's reader thread delivers frames to the connection's `rco_recv_msg`.
- The connection deserialises a frame into objects. It hands them to handlers on other threads.
- So objects cross threads, and their reference counts are updated concurrently.
- The containers themselves are not synchronised. The caller must not mutate a container while another thread uses it.
- `rpc_retain` and the decrement use GLib atomics.

### Hard behaviours and what must hold

- **Refcount protocol.**
  - A release cascades through a tree.
  - `set_value` is steal followed by retain.
  - Getters return borrowed pointers.
  - `rpc_copy` of an error retains a fresh copy.
  - The invariant: every reference in existence (held by a caller, in a container slot, or in a running release) is counted, and no freed object is referenced.
  - This must survive any sequence of calls and any interleaving of threads.
- **Release is two steps.** `g_atomic_int_dec_and_test` comes first. When the count does not reach zero, line 427 then reads `ro_refcnt` again.
- **Framing.** A frame is a 16-byte header (magic, length), then the payload.
  - Senders share the socket with no lock.
  - Both error checks test an uninitialised `GError *`.
- **Descriptors.** An FD value wraps a number the program keeps and never closes it. A SHMEM value owns its descriptor and closes it on its final release. `rpc_copy` dups both. Descriptor numbers are reused lowest first, so a close on the wrong number hits someone else's file.
- **Pack/unpack round trip** (spec §8). Unpacking what was packed yields the same values.

## Modules

| Module | Models | State (VARIABLES) | Actions |
|---|---|---|---|
| `RpcObject` | the value model's memory management and the descriptors of FD and SHMEM values | `status`, `kind`, `refcnt`, `arr`, `dict`, `extra` (objects 1..NObjects, in allocation order, never reused); `held[t][o]` (references thread t owns); `todo[t]` (the objects the running release still has to decrement: the recursion of the destroy notifiers); `reading[t]` (the object whose refcount line 427 will read); `call[t]` (a set_value in progress and the retain it still owes); `fd[o]` (`rv_fd`/`rsb_fd`, -1 if none); `fdtab[n]` (descriptor n is `Closed`, or who is to close it: `Prog`, a SHMEM object, or `Value` for a descriptor `rpc_copy` gave an FD value) | one per library call (Create, Retain, Release, ErrorCreate, ErrorSetExtra, ArraySetValue, ArraySteal, ArrayAppendValue, ArrayAppendStolen, ArraySetScalar, ArrayCreateEx, ArrayRemoveIndex, ArraySlice, DictSetValue, DictSteal, DictSetScalar, DictCreateEx, DictRemoveKey, Copy, FdCreate, FdDup, ShmemCreate), the steps of a running release (DecAndFree, with ShmemClose, DecOnly, ReadRefcnt) and of a set_value or append_value (FinishRetain, CallReturn); Handoff is the program passing an owned reference to another thread, ProgClose the program closing a descriptor it holds |
| `MC_RpcObject` | model values and small sets for TLC | - | - |
| `SocketTransport` | one direction of a connection of `transport/socket.c` | `wire` (the byte stream in 16-byte units: a header unit carrying message id, length and whether fds ride with it, then payload units); `open` (socket not closed); `spc`, `out`, `nsent` per sending thread; `rstate`, `rhdr` (the peer's reader thread inside `socket_reader`/`socket_recv_msg`); `accepted` (history of frames `socket_recv_msg` returned) | SendHeader (lines 152-168, with the test of the uninitialised `err`), SendClosed, SendPayload (170-176, the write count ignored), SendPayloadClosed, Abort (`socket_abort`), RecvHeader, RecvBadHeader (magic mismatch or end of stream), RecvFrame, RecvShort (short read, then `free(frame)` on the caller's variable), Deliver and ReaderClose (through the NULL `sc_parent`) |
| `MC_SocketTransport` | model values for TLC; `ErrNull`/`ErrAny` are the values a test of the uninitialised `GError *err` can see | - | - |
| `RpcFormat` | values and formats of pack/unpack, `rpc_object_unpack_layer` and `rpc_object_vunpack`, and the reference definitions of spec §4.1 | none: operators. A value is a record `[t, v, a, d]` (type, argument atom, elements, entries); a format is a sequence of one-character strings; arguments are the atoms `x1`..`x8` | `Fetch` (lines 258-266), `UnpackLoop`/`UnpackLayer` (RECURSIVE, 242-339; the CONSTANT `VaListShared` says whether the nested call at 325, which gets `ap` by value, advances the caller's `ap`: TRUE on x86-64, FALSE on AArch64 and i386), `VUnpack`; an out-pointer write is recorded with the argument position it went through; the container helpers `StealAt`, `ArrayGet`, `DictGet`, `Slice`; the element search `Scan` and `strtol` (`DigitEnd`, `DigitsValue`). References: `RefPack` (what a format builds), `UnpackCases` (which formats, arguments and bindings match a value), and the generators `Values`/`Bodies`/`Formats` |
| `RpcPack` | `rpc_object_vpack` (629-839), one step per iteration of its loop, building its result on RpcObject's heap | `f`, `ptr`, `stack` (the open containers, as object ids), `keys`, `idx`, `cur` (an object id), `ap` (va_list position), `pc`, `leaf` (the argument a scalar object was made from), and RpcObject's variables | `ElemStart` (the element search, index or key, and the adjusted ptr and ch, 652-728) shared by `Scalar`, `Open`, `Close`, `BadToken`; `BadIndex` (strtol not ending at the colon), `FormatEnd`; `Place` and `StealCurrent` are the insertion or return at 812-829, through `Heap!ArraySteal`/`Heap!DictSteal`; `NewCurrent` makes the element through `Heap!Create` or the typed setters; `ErrorExit` is the `error:` label (832-838); `ReleaseStep` lets the releases it starts run to their end |
| `RpcUnpack` | `rpc_object_unpack` on one call | `obj`, `call` (format, arguments, expected bindings), `pc`, `result` (the count and the writes through out-pointers) | `Unpack` |
| `MC_RpcPack`, `MC_RpcUnpack` | the format grammars and the values TLC enumerates | - | - |
| `RpcHash` | `rpc_data_hash`, `rpc_hash`, `rpc_equal`, `rpc_cmp` at a scaled width (`SizeBits`, `IntBits` for 64 and 32) | `x`, `y`, `z` (values handed to the comparator), `done`, `result` | `Compare`: the pairwise `rpc_cmp` calls of a sort and `rpc_equal`. Operators: `DataHashLoop` (the loop counting `length` down, so the bytes are hashed last to first), `Hash` (RECURSIVE; arrays and dictionaries XOR-fold with `FoldFunction`/`MapThenFoldSet` and Bitwise `^^`), `ToSize`, `ToInt` (two's complement truncation, also the wrap of the subtraction) |
| `MC_RpcHash` | int64 values on both sides of the int width, a blob, an array, a dictionary | - | - |
| `CallTerminality` | what the call runtime promises a caller (spec §8 "Call terminality") | `phase[c]` (idle, live, done), `out[c]` (frames sent) | Start, Reject (lookup failed: one error frame), Fragment, Finish (reply only before any fragment; end or error), Cancel; weak fairness on closing a live call |
| `CallRuntime` | the dispatch context and the call runtime of `service.h` | `instances`, `table[p]` (methods per instance), `preHook`, `connected`; per call `state` (none, init, running, streaming, replied, errored, ended, aborted), `handler` (idle, pre, body, async, returned), `local` (from `dispatch_call`), `aborted` (the flag), `frames` (sent to the caller) | RegisterInstance, UnregisterInstance, RegisterMethod, UnregisterMethod, SetPreCallHook; Ingress and DispatchCall (both `Lookup` under the read lock: a found target makes an INIT record, a missing one an ENOENT error frame); Run (INIT to RUNNING), PreHookReturn; Respond, Error (also `error_ex`), Yield, End, ShouldAbort, Return (STILL_RUNNING hands the cookie to an asynchronous path); Abort, ConnectionLost |
| `MC_CallRuntime` | model values for calls, paths and methods | - | - |
| `RpcTyping` | type instances of `typing.h` (spec §3.2, §4.2) | `a`, `b` (two callers' instances), `v` (a value), `canon` (their canonical forms as token sequences), `parsed` (what `rpct_new_typei` reads back from `a`'s form), `verdict` (the three `rpct_validate` results), `pc` | GetCanonicalForm, NewTypeiStep (the parse `rpct_deserialize` applies to `%type`), Validate. Operators: `Bindings` (the binding map; an unspecialised instance binds each variable to itself), `Resolve` (a member's instance under the enclosing bindings), `Canon` (name, then `<...>` only if some variable is bound to something other than itself), `ParseAt`/`ParseArgs`/`NewTypei` (RECURSIVE descent; a bare unknown name is an unbound variable, a name with arguments must be registered with the right arity), `Errs` (RECURSIVE; the set of places validation reported an error) |
| `MC_RpcTyping` | a registry with `int64`, `string`, enum `Color`, `Box<T>`, `Pair<K,V>`, union `Opt<T>`, typedef `IntBox = Box<int64>`, generic typedef `Alias<T> = Pair<T,string>`, `Nest<T>` with member `Box<T>`; 49 instances and 24 values | - | - |

How actions map to the code:

- A call's steps are separate actions only where the code has a point another thread can observe: the decrement, line 427, and the retain after the steal.
- Everything else a call does is one atomic action, including the nulls `rpc_array_steal_value` appends to fill a gap.
- `Copy` allocates the whole copied tree in rpc_copy's preorder. It gives each copied error's extra refcount 2, as the code does. `CopyFds` makes its dup calls in the same order: each takes the lowest closed number, or fails with -1 when the table is full, which rpc_copy stores unchecked.
- `ShmemClose` is the SHMEM case of the teardown: `close(rsb_fd)` on whatever the number names by then.
- RpcPack takes RpcObject as `Heap == INSTANCE RpcObject WITH Threads <- {Packer}, ...`. Its steps conjoin the loop's control with `Heap!` actions, so every container vpack builds is a real heap object with a refcount.
- `Quiet(S, t)` is the caller contract: no other thread is inside a container call on a tree that overlaps S.
- `NoCycle` keeps the program from inserting a container into itself. That would make rpc_copy and rpc_hash recurse forever.
- In CallRuntime the handler-side actions (`Respond` ... `Return`) are enabled while the handler's body runs, and for an asynchronous path only while the call is live: the cookie must not be used past the terminal reply (spec §5). A reply function called in a state where the spec says it is ignored is a step that changes nothing, so it is not an action. A yield on an aborted call returns non-zero and sends nothing; the handler then unwinds and its return ends the stream (spec §8, scenario 3), or it polls `should_abort` and the call becomes ABORTED.
- The refinement: `Phase(c)` maps none to idle, init/running/streaming to live and the terminal states to done; `frames` is `out`. `CallsTerminate == Terminality!Spec` checks safety and the abstract fairness together.

## Runs

| Run | cfg | Bounds | Checks | Result |
|---|---|---|---|---|
| rpcobject_concurrent | RpcObject.cfg | 2 threads (symmetric), 2 objects, MaxLen 2, MaxRef 2, one key, descriptors {0, 1} | TypeOK, RefcountCoversOwners, NoDanglingReference, ShmemClosedOnce | pass (72,620 states, seconds) |
| rpcobject_sequential | RpcObjectSequential.cfg | 1 thread, 3 objects, MaxLen 2, MaxRef 2, one key, no descriptors | RefcountCoversOwners, NoDanglingReference | pass (257,462 states, about a minute) |
| rpcobject_memory_safety | RpcObjectMemory.cfg | 2 threads, 4 objects, scalars and arrays, borrowed arguments, no descriptors | MemorySafe (NoLeak and NoUseAfterFree) | violation |
| socket_single_sender | SocketTransport.cfg | 1 sender, 2 messages, lengths {1,2}, err reads NULL, whole writes | TypeOK, FrameIntact | pass (422 states) |
| socket_partial_send | SocketPartialSend.cfg | 1 sender, err may read non-NULL, short payload writes | FrameIntact | violation |
| rpcpack_flat | RpcPack.cfg | every format of one container with 0-3 elements over `n i s ?`, prefixes `0: 1: 2: a:` / `a: b:`, commas; scalars; the empty format; a pool of 6 objects | PackMatchesSpec, ResultOwnsAll | pass (53,395 states) |
| rpcpack_nested | RpcPackNested.cfg | formats of up to 4 nodes with commas, comma-free formats of up to 3 nodes over `i s`, and the flat formats of rpcpack_flat | PackMeetsSpec (PackMatchesSpec and ErrorReleasesPartial) | violation |
| rpcunpack_shapes | RpcUnpack.cfg | every value packed from a format of up to 4 nodes, every matching unpack format without `R`; `VaListShared` TRUE (x86-64) | UnpackMatchesSpec | pass (7,100 states) |
| rpcunpack_rest | RpcUnpackRest.cfg | the same, with `R`, and `VaListShared` FALSE (AArch64) | UnpackMatchesSpec | violation |
| callruntime_terminality | CallRuntime.cfg | 2 calls, 1 instance, 1 method, up to 2 fragments per call | TypeOK, CallsTerminate (refinement of CallTerminality, with its liveness) | pass (175,884 states, about 1 minute) |
| rpctyping_canonical | RpcTyping.cfg | every pair of the 49 instances of MC_RpcTyping, with each of 24 values (scalars, structs right, missing and extra keys, nested, union encodings with a good and a bad branch) | CanonicalInjective, CanonicalRoundTrip | pass (230,496 states, seconds) |
| rpchash_cmp | RpcHashCmp.cfg | size_t 8 bits, int 4 bits; int64 0, 1, -1, 8, 16, null, a blob, an array, a dictionary; every triple | CmpConsistent | violation |

Why the bounds are enough:

- Objects are never reused, so NObjects bounds the allocations of a whole behaviour, not the live ones.
- rpcobject_concurrent: two threads and two objects give every race between a final release, the read at line 427 or the retain ending a set_value, and anything the other thread does to the same object or its container (a container and its element, an error and its extra), and the descriptor races. Two objects are not enough for anything that needs a third allocation: replacing a slot with a different value, a new extra, a duplicate key with two values, a non-empty slice, gap filling, a copy of anything but a leaf. Three objects with two threads were stopped past a million states and still growing, so those races are not checked.
- rpcobject_sequential: one thread and three objects reach each of those calls: a container, the value it holds and a replacement; an array, an element and its slice; an array, a null filling index 0 and the value at index 1. Two mutants show the third object matters: a slice that steals its elements and a set_extra that releases the new extra both pass rpcobject_concurrent and fail here. rpc_copy of a tree with a child needs four objects; four objects took over five million states with one thread, so the copy of a tree is reached only by rpcobject_memory_safety. Descriptors are left out of this run (FdNums empty: memfd_create fails and nothing changes); they are rpcobject_concurrent's.
- rpcobject_memory_safety: the leak needs an error, its extra and their two copies, four objects; the use after free needs two threads or a borrowed argument.
- In the transport, a header and one or two payload units are enough to misalign a frame by one unit. Two messages let one message's header be read as the other's payload. Both transport runs have one sender: with two (`Senders <- TwoSenders`) FrameIntact fails at once, by finding 4, so no run checks anything else about two senders.
- Pack: every bug of the element search needs at most one container inside another and one more element after it, so 4 nodes. Three elements with an index prefix of 0-2 give gaps, overwrites and appends after an index. The passing run covers single-level containers, where the code and the reference agree. The nested run covers the formats where they do not.
- Unpack: values of 4 nodes have arrays inside dictionaries and the reverse, two elements after a nested one, and nulls.
- Call runtime: two calls let one call's connection loss, abort or lookup race the other's handler; one instance and one method are enough for a lookup to succeed or fail as registration changes; two fragments let a stream be aborted between yields (scenario 3 of spec §8).
- Hash: with `int` half as wide as `size_t`, 16 differs from 0 only above the int width and 8 is INT_MIN after the cast, the two cases the 64/32-bit code has at 2^32 and 2^31.
- Descriptors: number 0 starts open and held by the program, number 1 closed. A SHMEM value then gets 1, and a second descriptor (its copy, or a dup of an FD value) finds the table full. The program's close of 0 lets a later memfd_create or dup reuse a number. Together with two threads this covers a final release closing a number while the other thread creates, copies or dups.
- Pack on the heap: a format of one container with three elements builds at most 4 objects, and `[n:...]` gaps add nulls; a pool of 6 never runs out, so no format is cut short by the bound.
- MaxRef bounds `rpc_retain`. Without it the refcount is unbounded. A value of 2 is enough to have two independent owners.

Findings, each a code bug shown by a violation run:

Findings 1-3 all violate MemorySafe in run rpcobject_memory_safety. TLC reports finding 3 (the shortest trace); findings 1 and 2 were confirmed with NoLeak alone (one thread, four objects, scalars) and NoUseAfterFree alone (two threads, two objects).

1. `rpc_copy` of an error leaks the copy of its extra (line 499).
2. `rpc_release_impl` reads the refcount after another thread may have freed the object (line 427).
3. Set-to-the-same-borrowed-value frees the value before retaining it (lines 1287-1289, and the same order in `rpc_array_set_value` and `rpc_dictionary_set_value`). TLC's trace is `rpc_error_set_extra(e, rpc_error_get_extra(e))`.

Findings in the transport:

4. Two senders on one connection interleave header and payload (no lock, lines 163/170), and spec §6 says nothing on serialising `send_msg`. FrameIntact fails as soon as `Senders <- TwoSenders`; this is kept as a hazard, and the passing run assumes callers serialise their sends.
5. The uninitialised `err` (147) can make `socket_send_msg` return after the header alone (run socket_partial_send).
6. A short payload write is reported as success (170), in the same run.
7. The reader dereferences `sc_parent`, which `socket_connect` never assigns (263, 269). Deliver and ReaderClose end in `crashed`, so every trace of the transport runs stops there; this is listed as a hazard rather than given a run of its own.

Findings in pack and unpack (8-10 all violate PackMatchesSpec, part of PackMeetsSpec, in rpcpack_nested; TLC reports the shortest, `[ss]`, and 8 and 9 were confirmed on their own formats):

8. A comma after a closer makes the switch see the closer again (724), which pops the enclosing container: `[[],s]` packs to `[[]]` and `{a:[i],b:i}` to `{a:[x1]}`.
9. One `idx` serves the whole stack (820): `[i,[i]]` packs to `[[x2]]`.
10. Without commas the search keeps only the last token before the closer (719-722): `[ss]` packs to `[x1]`. So the round trip of spec §8, which is promised for comma-free formats, fails at the pack.
11. `R` slices from `idx + 1` after fetching the element at its own position (306): `[iR]` on `[1,2,3,4]` binds `[4]`, and `[R]` on `[]` fails.

Finding in hash and comparison (run rpchash_cmp):

12. `rpc_cmp` casts both hashes to `int` and subtracts them in `int` (524-527). With a null (hash 0) and an int64 of 2^31, both `rpc_cmp(a, b)` and `rpc_cmp(b, a)` are INT_MIN; int64 0 and 2^32 compare as 0 although `rpc_equal` says they differ; and the order is not transitive. `rpc_array_sort` gives this comparator to `g_ptr_array_sort_with_data`. TLC shows the first at the scaled widths: null against int64 8 gives -8 both ways.

`rpc_data_hash` hashes the bytes from the last to the first (88), while spec §4.1 demands the djb2 algorithm exactly, so a peer with the usual forward djb2 disagrees on every blob and dictionary key. That is a hazard, not a run: it is a difference from another implementation, not a state of this one.

Finding in the pack error path (the same run, rpcpack_nested; TLC reports it first, on `[?]`):

13. On `goto error` vpack releases only `current` and frees the stack queue without releasing the containers in it (832-834). `[?]` returns NULL with its array allocated and unreferenced. Spec §4.1 says a malformed format releases the partial structure.

Finding in the unpack of nested containers (run rpcunpack_rest, whose cfg sets `VaListShared` FALSE; TLC reports finding 11 first):

14. The nested `rpc_object_unpack_layer` call at line 325 gets `ap` by value and line 184 keeps using the caller's `ap` afterwards. C11 7.16p3 makes that `ap` indeterminate once the callee has used it. It works on x86-64, where `va_list` is an array and the callee advances the caller's copy, which is what rpcunpack_shapes checks (`VaListShared` TRUE). Where `va_list` is copied (AArch64, i386), the caller reuses the out-pointers the callee consumed: `[[v]v]` on `[[null],null]` writes both values through the first pointer and never writes the second. Confirmed with `WithRest` FALSE.

How the transport model treats undefined behaviour:

- A test of an uninitialised pointer is a choice between NULL and non-NULL.
- `free` of the address of a stack variable is the C library aborting the process (rstate `crashed`).
- The payload read takes what the stream holds, up to the header's length. That is what `g_input_stream_read` on a local stream socket returns.
- The passing run fixes err to NULL and writes to whole. The violation runs show what happens otherwise.

Every property of a passing run has a mutant in PROJECT.json, written next to the definition it replaces, which TLC must catch:

- an error created with a NULL extra;
- `set_value` without its retain;
- a free on the last-but-one release;
- a header length that counts the header;
- a payload write one unit short;
- `n` taking an argument in vpack;
- a dictionary insert that does not destroy the value it replaces (the vpack result then has a refcount above its owners);
- `rpc_copy` giving an FD or SHMEM copy the original's number without a dup;
- the unpack array cursor not advancing;
- a lookup storing the path where the call's origin belongs;
- `respond` accepted while streaming (a reply after fragments breaks the refinement);
- `rpc_array_slice` taking its elements with `append_stolen_value` (caught only by rpcobject_sequential);
- a canonical form that prints the bindings only when the first variable is bound (HashMap<K,string> prints as HashMap, so it validates like the unspecialised type);
- a declaration parse that looks every bare name up in the registry (a partially specialised `%type` no longer reads back).

Typing (run rpctyping_canonical): the module is written from spec §3.2 and §4.2, since `typing.h` has no implementation in this tree; its properties are the spec's "canonical-form injectivity" and the serialisation round trip of spec §8 as far as the type annotation goes. Both hold on the registry above. They rest on two rules the spec states and a reviewer of an implementation should check: a variable bound to itself counts as unbound (so `Pair<K,V>` prints as `Pair`), and a bare name the registry lacks is read back as a variable. A generic variable named like a registered type breaks the round trip; the spec sets no rule against it, and the model's registry keeps the names apart (a hazard in PROJECT.json).

## Fairness

In SocketTransport:
- The reader thread is weakly fair: it reads whenever the stream has data.
- A sender inside `socket_send_msg` runs to its return.

In RpcObject, only the internal steps of a call are weakly fair: the release cascade, line 427, and the retain that finishes a set_value. A thread inside a library call runs to its return, because nothing in those paths blocks. No liveness property is stated for RpcObject: every internal step of a call is enabled until the call returns, so under this fairness a return would hold by construction. With no liveness property, thread symmetry is sound in rpcobject_concurrent. Calls themselves are not fair, because the program decides whether to make them; that includes creating, dup'ing and closing descriptors. The model stops when its callers stop, so deadlock checking is off.

In CallRuntime, per call, `Run`, `PreHookReturn`, `Return` and `End` are weakly fair. This is the handler contract of spec §4.4: a started handler runs, the hook and the handler return, and an asynchronous path eventually calls respond, error or end. A handler that blocks forever (spec §5 allows it) is outside that contract, and the liveness half of CallsTerminate says nothing about it. Registration, hooks, aborts, connection loss and new calls are not fair: the program and the peer decide whether they happen. Deadlock is checked: registration can always change, so the system never stops. Removing the implicit end of stream at a handler's return makes TLC report a live call that never ends.

RpcPack, RpcUnpack, RpcHash and RpcTyping are sequential: the one fairness condition lets the call run to its return, which it does because every step advances `ptr` or ends the call. Their runs turn deadlock checking off because a returned call has no next step.

## Not modelled (yet)

- The post-call hook (it transforms the outgoing value and changes no call state), `emit_event` and subscriptions, and the `get_*` accessors of a call or an instance.
- `rpc_hash` of DOUBLE, DATE, FD and SHMEM (a number or an `fstat` result, hashed like the integers), and of STRING and the error message, which use GLib's `g_string_hash`, not in this tree.
- Of typing: the IDL loader, interfaces, functions and arguments, and the `rpct_serialize`/`rpct_deserialize` tree walks. Their code is absent and the spec states only their contract; RpcTyping covers what they rest on, the canonical form and its parse. Module-qualified (dotted) names are single names in the model.
- The fd-client example: its call goes through the client API (`rpc_client_create`, `rpc_connection_call_sync`), which has no code in this tree. Its descriptor steps are RpcObject's `FdCreate` and `ProgClose`.
- `rpc_shmem_map`/`rpc_shmem_unmap` (mmap, no object state), the typed getters, `rpc_array_apply`/`contains`, which only read, and the `0` that `rpc_*_dup_fd` returns for a missing element (a hazard in PROJECT.json).
- Which file a descriptor number names: the table records who is to close a number, not what it refers to.

- Scalar payloads, messages, and the backtrace string of an error (`rev_stack` is an always-present string, so it adds nothing to the refcount argument).
- Memory reuse: addresses are never reused, so a use after free shows up as a reference to a dead object.
- Pack tokens `b B f u d` (the same switch arm as `i`, with another type) and the `<type>` prefix, which calls `rpct_new` (its code is not in this tree). Formats that are not closed, where the element search reads past the string.
- NULL arguments where the code dereferences them (`rpc_error_set_extra(e, NULL)`). These are crashes rather than states.

## Plan

In order:

1. RpcObject: a program that closes the `0` a failed `rpc_*_dup_fd` returns, as a violation of ShmemClosedOnce.
2. CallRuntime: subscriptions and `emit_event` multicast per connection.
3. RpcTyping: a property for member resolution against an independent reference, when an implementation of `rpct_typei_get_member_type` is available.
4. RpcHash: the copy determinism of spec §8 (`hash(copy(v)) = hash(v)`) by composing RpcHash with RpcObject's `Copy`.
