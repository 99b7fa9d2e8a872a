---------------------------- MODULE CallRuntime ----------------------------
(***************************************************************************)
(* The dispatch context and the call runtime of service.h: the instance    *)
(* and method registry, the ingress and local dispatch of a call, the      *)
(* pre-call hook, the handler's reply functions (respond, error, yield,    *)
(* end, should_abort), the handler's return value with its STILL_RUNNING   *)
(* sentinel, the caller's abort and connection loss.  The implementation   *)
(* of these functions is not in the repository; the actions follow the    *)
(* header's contracts and the call state machine of the specification.    *)
(***************************************************************************)
EXTENDS Naturals, Sequences, FiniteSets

CONSTANTS
    Calls,      \* call records (cookies), each used once
    Paths,      \* instance paths
    Methods,    \* method names
    MaxFrags    \* fragments a streaming handler yields at most

ASSUME MaxFrags \in Nat

VARIABLES
    instances,  \* registered instance paths
    table,      \* table[p]: the methods registered on instance p
    preHook,    \* a pre-call hook is installed
    connected,  \* the transport connection is up
    state,      \* state[c]: the reply state machine of call c
    handler,    \* handler[c]: where the handler of c is
    local,      \* local[c]: c came from dispatch_call, not from a connection
    aborted,    \* aborted[c]: the abort flag of c
    frames      \* frames[c]: what has been sent to the caller of c

vars == <<instances, table, preHook, connected, state, handler, local, aborted, frames>>

States == {"none", "init", "running", "streaming",
           "replied", "errored", "ended", "aborted"}
Handlers == {"idle", "pre", "body", "async", "returned"}
Frames == {"reply", "error", "frag", "end"}

Live(c) == state[c] \in {"init", "running", "streaming"}

\* The cookie may be used by the handler's body, and by the asynchronous
\* path only until the call's terminal reply.
Active(c) == handler[c] = "body" \/ (handler[c] = "async" /\ Live(c))

Send(c, f) == frames' = [frames EXCEPT ![c] = Append(@, f)]

Fragments(c) == Cardinality({i \in DOMAIN frames[c] : frames[c][i] = "frag"})

TypeOK ==
    /\ instances \subseteq Paths
    /\ table \in [Paths -> SUBSET Methods]
    /\ preHook \in BOOLEAN /\ connected \in BOOLEAN
    /\ state \in [Calls -> States]
    /\ handler \in [Calls -> Handlers]
    /\ local \in [Calls -> BOOLEAN]
    /\ aborted \in [Calls -> BOOLEAN]
    /\ frames \in [Calls -> Seq(Frames)]

Init ==
    /\ instances = {}
    /\ table = [p \in Paths |-> {}]
    /\ preHook = FALSE
    /\ connected = TRUE
    /\ state = [c \in Calls |-> "none"]
    /\ handler = [c \in Calls |-> "idle"]
    /\ local = [c \in Calls |-> FALSE]
    /\ aborted = [c \in Calls |-> FALSE]
    /\ frames = [c \in Calls |-> <<>>]

CallVars == <<state, handler, local, aborted, frames>>

-----------------------------------------------------------------------------
(* Registry.  Mutation takes the context's write lock, so each is atomic;  *)
(* registration refuses duplicates.                                        *)

\* rpc_instance_register: a new instance path.
RegisterInstance(p) ==
    /\ p \notin instances
    /\ instances' = instances \cup {p}
    /\ table' = [table EXCEPT ![p] = {}]
    /\ UNCHANGED <<preHook, connected, CallVars>>

\* rpc_instance_unregister: the instance and its method table go away.
UnregisterInstance(p) ==
    /\ p \in instances
    /\ instances' = instances \ {p}
    /\ table' = [table EXCEPT ![p] = {}]
    /\ UNCHANGED <<preHook, connected, CallVars>>

\* rpc_instance_register_method and its block/func variants.
RegisterMethod(p, m) ==
    /\ p \in instances
    /\ m \notin table[p]
    /\ table' = [table EXCEPT ![p] = @ \cup {m}]
    /\ UNCHANGED <<instances, preHook, connected, CallVars>>

\* rpc_instance_unregister_method.
UnregisterMethod(p, m) ==
    /\ p \in instances
    /\ m \in table[p]
    /\ table' = [table EXCEPT ![p] = @ \ {m}]
    /\ UNCHANGED <<instances, preHook, connected, CallVars>>

\* rpc_context_set_pre_call_hook: installs a hook, or removes it with NULL.
SetPreCallHook ==
    /\ preHook' = ~preHook
    /\ UNCHANGED <<instances, table, connected, CallVars>>

-----------------------------------------------------------------------------
(* Dispatch.  The lookup holds the read lock; the handler runs outside it. *)

\* Mutant: records the path where the call's origin belongs.
LookupRecordsPath(c, p, m, isLocal) ==
    /\ state[c] = "none"
    /\ IF p \in instances /\ m \in table[p]
         THEN /\ state' = [state EXCEPT ![c] = "init"]
              /\ UNCHANGED frames
         ELSE /\ state' = [state EXCEPT ![c] = "errored"]
              /\ Send(c, "error")
    /\ local' = [local EXCEPT ![c] = p]
    /\ UNCHANGED <<instances, table, preHook, connected, handler, aborted>>

\* The lookup of (path, method) for a new call: a found target gets a call
\* record in INIT; a missing one is answered with an ENOENT error frame.
Lookup(c, p, m, isLocal) ==
    /\ state[c] = "none"
    /\ IF p \in instances /\ m \in table[p]
         THEN /\ state' = [state EXCEPT ![c] = "init"]
              /\ UNCHANGED frames
         ELSE /\ state' = [state EXCEPT ![c] = "errored"]
              /\ Send(c, "error")
    /\ local' = [local EXCEPT ![c] = isLocal]
    /\ UNCHANGED <<instances, table, preHook, connected, handler, aborted>>

\* The ingress entry point a transport calls for an inbound call frame.
Ingress(c, p, m) == connected /\ Lookup(c, p, m, FALSE)

\* rpc_context_dispatch_call: a local call that bypasses the transport.
DispatchCall(c, p, m) == Lookup(c, p, m, TRUE)

\* INIT -> RUNNING: the pre-call hook, when installed, runs first.
Run(c) ==
    /\ state[c] = "init"
    /\ state' = [state EXCEPT ![c] = "running"]
    /\ handler' = [handler EXCEPT ![c] = IF preHook THEN "pre" ELSE "body"]
    /\ UNCHANGED <<instances, table, preHook, connected, local, aborted, frames>>

\* The pre-call hook returns: an error value skips the handler and becomes
\* the reply; otherwise the handler runs.
PreHookReturn(c) ==
    /\ handler[c] = "pre"
    /\ \/ /\ state' = [state EXCEPT ![c] = "errored"]
          /\ handler' = [handler EXCEPT ![c] = "returned"]
          /\ Send(c, "error")
       \/ /\ handler' = [handler EXCEPT ![c] = "body"]
          /\ UNCHANGED <<state, frames>>
    /\ UNCHANGED <<instances, table, preHook, connected, local, aborted>>

HandlerStep(c, s, f) ==
    /\ state' = [state EXCEPT ![c] = s]
    /\ Send(c, f)
    /\ UNCHANGED <<instances, table, preHook, connected, handler, local, aborted>>

\* Mutant: respond also accepted while streaming.
RespondWhileStreaming(c) ==
    /\ Active(c)
    /\ state[c] \in {"running", "streaming"}
    /\ HandlerStep(c, "replied", "reply")

\* rpc_function_respond: RUNNING -> REPLIED, ignored in any other state.
Respond(c) ==
    /\ Active(c)
    /\ state[c] = "running"
    /\ HandlerStep(c, "replied", "reply")

\* rpc_function_error and rpc_function_error_ex: RUNNING or STREAMING ->
\* ERRORED; the error frame also ends a stream.
Error(c) ==
    /\ Active(c)
    /\ state[c] \in {"running", "streaming"}
    /\ HandlerStep(c, "errored", "error")

\* rpc_function_yield: RUNNING or STREAMING -> STREAMING with one fragment
\* frame.  On an aborted call it sends nothing, changes nothing and returns
\* non-zero; the handler unwinds and its return ends the stream.
Yield(c) ==
    /\ Active(c)
    /\ state[c] \in {"running", "streaming"}
    /\ ~aborted[c]
    /\ Fragments(c) < MaxFrags
    /\ HandlerStep(c, "streaming", "frag")

\* rpc_function_end: STREAMING -> STREAM_ENDED; in RUNNING it is respond(NULL).
End(c) ==
    /\ Active(c)
    /\ state[c] \in {"running", "streaming"}
    /\ IF state[c] = "streaming"
         THEN HandlerStep(c, "ended", "end")
         ELSE HandlerStep(c, "replied", "reply")

\* rpc_function_should_abort returning true: the handler observes the flag.
ShouldAbort(c) ==
    /\ Active(c)
    /\ aborted[c]
    /\ state[c] \in {"running", "streaming"}
    /\ state' = [state EXCEPT ![c] = "aborted"]
    /\ UNCHANGED <<instances, table, preHook, connected, handler, local, aborted, frames>>

\* The handler returns.  STILL_RUNNING hands the cookie to an asynchronous
\* path.  Any other value (NULL included) is an implicit reply in RUNNING,
\* an implicit end of stream in STREAMING, and a no-op once the call has
\* ended.
Return(c) ==
    /\ handler[c] = "body"
    /\ \/ /\ handler' = [handler EXCEPT ![c] = "async"]
          /\ UNCHANGED <<state, frames>>
       \/ /\ handler' = [handler EXCEPT ![c] = "returned"]
          /\ CASE state[c] = "running" ->
                    state' = [state EXCEPT ![c] = "replied"] /\ Send(c, "reply")
               [] state[c] = "streaming" ->
                    state' = [state EXCEPT ![c] = "ended"] /\ Send(c, "end")
               [] OTHER -> UNCHANGED <<state, frames>>
    /\ UNCHANGED <<instances, table, preHook, connected, local, aborted>>

\* The caller aborts a call in flight: only the flag is set.
Abort(c) ==
    /\ Live(c)
    /\ ~aborted[c]
    /\ local[c] \/ connected
    /\ aborted' = [aborted EXCEPT ![c] = TRUE]
    /\ UNCHANGED <<instances, table, preHook, connected, state, handler, local, frames>>

\* The transport reports connection loss: the context aborts every call in
\* flight on that connection.
ConnectionLost ==
    /\ connected
    /\ connected' = FALSE
    /\ aborted' = [c \in Calls |-> aborted[c] \/ (Live(c) /\ ~local[c])]
    /\ UNCHANGED <<instances, table, preHook, state, handler, local, frames>>

-----------------------------------------------------------------------------
Registry ==
    \/ SetPreCallHook
    \/ \E p \in Paths :
         \/ RegisterInstance(p) \/ UnregisterInstance(p)
         \/ \E m \in Methods : RegisterMethod(p, m) \/ UnregisterMethod(p, m)

HandlerSide(c) ==
    Respond(c) \/ Error(c) \/ Yield(c) \/ End(c) \/ ShouldAbort(c) \/ Return(c)

Next ==
    \/ Registry
    \/ ConnectionLost
    \/ \E c \in Calls :
         \/ \E p \in Paths, m \in Methods : Ingress(c, p, m) \/ DispatchCall(c, p, m)
         \/ Run(c) \/ PreHookReturn(c) \/ HandlerSide(c) \/ Abort(c)

(* The handler contract of section 4.4: a started handler runs, its hook   *)
(* and its body return, and an asynchronous path eventually ends the call. *)
(* A handler that blocks for ever is outside the contract.                 *)
Fairness ==
    \A c \in Calls :
        /\ WF_vars(Run(c)) /\ WF_vars(PreHookReturn(c)) /\ WF_vars(Return(c))
        /\ WF_vars(End(c))

Spec == Init /\ [][Next]_vars /\ Fairness

-----------------------------------------------------------------------------
(* The abstract view of a call: not yet made, in flight, or ended.         *)
Phase(c) ==
    IF state[c] = "none" THEN "idle" ELSE IF Live(c) THEN "live" ELSE "done"

Terminality == INSTANCE CallTerminality WITH
    phase <- [c \in Calls |-> Phase(c)],
    out <- frames

(* Call terminality (spec section 8): whatever the handler, its hook, the  *)
(* asynchronous path, the caller's abort and connection loss do, and in    *)
(* whatever order, each call sends one reply, one error, or fragments      *)
(* closed by one end or error frame, sends nothing after that, and every   *)
(* call that was started eventually ends.                                  *)
CallsTerminate == Terminality!Spec
=============================================================================
