-------------------------- MODULE CallTerminality --------------------------
(***************************************************************************)
(* What the call runtime promises a caller (spec section 8, "Call          *)
(* terminality"): every call that is started ends in exactly one terminal  *)
(* state, and what it sends is either one reply frame, or one error frame, *)
(* or zero or more fragment frames followed by exactly one end-of-stream   *)
(* or error frame.  A call the caller cancelled ends with no further       *)
(* frame.  Nothing is sent for a call after it has ended, and every        *)
(* started call ends.                                                      *)
(***************************************************************************)
EXTENDS Sequences

CONSTANT Calls

VARIABLES
    phase,  \* phase[c] \in {"idle", "live", "done"}
    out     \* out[c]: the frames sent to the caller of c, in order

vars == <<phase, out>>

Terminal == {"reply", "error", "end"}

Init ==
    /\ phase = [c \in Calls |-> "idle"]
    /\ out = [c \in Calls |-> <<>>]

\* The target was found and a call record exists.
Start(c) ==
    /\ phase[c] = "idle"
    /\ phase' = [phase EXCEPT ![c] = "live"]
    /\ UNCHANGED out

\* The target was not found: the caller gets one error frame.
Reject(c) ==
    /\ phase[c] = "idle"
    /\ phase' = [phase EXCEPT ![c] = "done"]
    /\ out' = [out EXCEPT ![c] = <<"error">>]

Fragment(c) ==
    /\ phase[c] = "live"
    /\ out' = [out EXCEPT ![c] = Append(@, "frag")]
    /\ UNCHANGED phase

\* A singular reply only before any fragment; end-of-stream only after
\* streaming began or in place of a reply; an error at any time.
Finish(c, t) ==
    /\ phase[c] = "live"
    /\ t = "reply" => out[c] = <<>>
    /\ phase' = [phase EXCEPT ![c] = "done"]
    /\ out' = [out EXCEPT ![c] = Append(@, t)]

Cancel(c) ==
    /\ phase[c] = "live"
    /\ phase' = [phase EXCEPT ![c] = "done"]
    /\ UNCHANGED out

Close(c) == (\E t \in Terminal : Finish(c, t)) \/ Cancel(c)

Next == \E c \in Calls : Start(c) \/ Reject(c) \/ Fragment(c) \/ Close(c)

\* A live call is eventually closed; idle calls may never be made.
Spec == Init /\ [][Next]_vars /\ \A c \in Calls : WF_vars(Close(c))
=============================================================================
