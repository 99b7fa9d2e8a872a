--------------------------- MODULE SocketTransport ---------------------------
(* One direction of a connection of src/src/transport/socket.c.  Threads of *)
(* one process call socket_send_msg on the connection; the peer's          *)
(* socket_reader thread takes frames off the byte stream with              *)
(* socket_recv_msg and hands them to its rpc_connection.  Bytes are        *)
(* abstracted to 16-byte units: the header is one unit, a payload of len   *)
(* units follows it.  Payload contents are the (message, index) of each    *)
(* unit, which is all a property about framing tells apart.                *)
EXTENDS Naturals, Sequences, FiniteSets

CONSTANTS
    Senders,      \* threads calling socket_send_msg on the connection
    MaxSends,     \* messages each sender sends
    Lens,         \* payload lengths, in units
    ErrGarbage,   \* what a test of the uninitialised GError *err can see
    ShortWrites,  \* whether g_output_stream_write may write a prefix only
    NONE

ASSUME /\ MaxSends \in Nat \ {0}
       /\ Lens \subseteq Nat \ {0} /\ Lens # {}
       /\ ErrGarbage \subseteq BOOLEAN /\ ErrGarbage # {}
       /\ ShortWrites \in BOOLEAN

MaxLen == CHOOSE l \in Lens : \A x \in Lens : x <= l

MsgIds == [from : Senders, n : 1..MaxSends]
Units == [kind : {"hdr", "data"}, msg : MsgIds, len : Lens \cup {0},
          idx : 0..MaxLen, fds : BOOLEAN]

(* uint32_t header[4] = { 0xdeadbeef, size, 0, 0 }: the magic is the kind. *)
Header(m, len, fds) == [kind |-> "hdr", msg |-> m, len |-> len, idx |-> 0, fds |-> fds]
Payload(m, len) ==
    [j \in 1..len |-> [kind |-> "data", msg |-> m, len |-> 0, idx |-> j, fds |-> FALSE]]

VARIABLES
    wire,      \* the units in the stream, oldest first
    open,      \* the sender's GSocket is not closed
    spc,       \* where each sender is in socket_send_msg
    out,       \* the header of the message a sender is sending
    nsent,     \* messages each sender has started
    rstate,    \* where the reader thread is
    rhdr,      \* the header socket_recv_msg has read
    accepted   \* frames socket_recv_msg returned 0 for, with their header

vars == <<wire, open, spc, out, nsent, rstate, rhdr, accepted>>

Init ==
    /\ wire = <<>>
    /\ open = TRUE
    /\ spc = [s \in Senders |-> "idle"]
    /\ out = [s \in Senders |-> NONE]
    /\ nsent = [s \in Senders |-> 0]
    /\ rstate = "header"
    /\ rhdr = NONE
    /\ accepted = <<>>

----------------------------------------------------------------------------
(* Mutant: the header's length counts the header itself.                  *)
SendHeaderCountsHeader(s, len, fds, g) ==
    /\ spc[s] = "idle"
    /\ nsent[s] < MaxSends
    /\ open
    /\ LET m == [from |-> s, n |-> nsent[s] + 1] IN
         /\ wire' = Append(wire, Header(m, len + 1, fds))
         /\ nsent' = [nsent EXCEPT ![s] = @ + 1]
         /\ spc' = [spc EXCEPT ![s] = IF g THEN "idle" ELSE "payload"]
         /\ out' = [out EXCEPT ![s] = IF g THEN NONE ELSE Header(m, len, fds)]
    /\ UNCHANGED <<open, rstate, rhdr, accepted>>

(* socket_send_msg, lines 152-168: g_socket_send_message sends iov[0], the *)
(* header, with the credentials and fd messages.  err is never set to     *)
(* NULL, so the test at 165 reads whatever the stack held: g says what it  *)
(* saw; a non-NULL value makes the call return -1 after the header.       *)
SendHeader(s, len, fds, g) ==
    /\ spc[s] = "idle"
    /\ nsent[s] < MaxSends
    /\ open
    /\ LET m == [from |-> s, n |-> nsent[s] + 1] IN
         /\ wire' = Append(wire, Header(m, len, fds))
         /\ nsent' = [nsent EXCEPT ![s] = @ + 1]
         /\ spc' = [spc EXCEPT ![s] = IF g THEN "idle" ELSE "payload"]
         /\ out' = [out EXCEPT ![s] = IF g THEN NONE ELSE Header(m, len, fds)]
    /\ UNCHANGED <<open, rstate, rhdr, accepted>>

(* socket_send_msg on a closed socket: g_socket_send_message fails, -1.   *)
SendClosed(s) ==
    /\ spc[s] = "idle"
    /\ nsent[s] < MaxSends
    /\ ~open
    /\ nsent' = [nsent EXCEPT ![s] = @ + 1]
    /\ UNCHANGED <<wire, open, spc, out, rstate, rhdr, accepted>>

(* Mutant: the payload write stops one unit short.                        *)
SendPayloadTruncated(s, k) ==
    /\ spc[s] = "payload"
    /\ open
    /\ k \in IF ShortWrites THEN 1..out[s].len ELSE {out[s].len}
    /\ wire' = wire \o SubSeq(Payload(out[s].msg, out[s].len), 1, k - 1)
    /\ spc' = [spc EXCEPT ![s] = "idle"]
    /\ out' = [out EXCEPT ![s] = NONE]
    /\ UNCHANGED <<open, nsent, rstate, rhdr, accepted>>

(* socket_send_msg, lines 170-176: g_output_stream_write of the payload.   *)
(* Its return value, the count written, is ignored: a short write returns *)
(* 0 with only the first k units on the wire.                             *)
SendPayload(s, k) ==
    /\ spc[s] = "payload"
    /\ open
    /\ k \in IF ShortWrites THEN 1..out[s].len ELSE {out[s].len}
    /\ wire' = wire \o SubSeq(Payload(out[s].msg, out[s].len), 1, k)
    /\ spc' = [spc EXCEPT ![s] = "idle"]
    /\ out' = [out EXCEPT ![s] = NONE]
    /\ UNCHANGED <<open, nsent, rstate, rhdr, accepted>>

(* The payload write on a closed socket fails: -1, the header is alone.   *)
SendPayloadClosed(s) ==
    /\ spc[s] = "payload"
    /\ ~open
    /\ spc' = [spc EXCEPT ![s] = "idle"]
    /\ out' = [out EXCEPT ![s] = NONE]
    /\ UNCHANGED <<wire, open, nsent, rstate, rhdr, accepted>>

(* socket_abort: g_socket_close.                                           *)
Abort ==
    /\ open
    /\ open' = FALSE
    /\ UNCHANGED <<wire, spc, out, nsent, rstate, rhdr, accepted>>

----------------------------------------------------------------------------
(* socket_recv_msg, lines 193-204 and 206-222: the header is read with     *)
(* its ancillary messages.  The descriptors are stored into the local     *)
(* parameter fds (218), so they never reach the caller; the model keeps   *)
(* only the header.                                                        *)
RecvHeader ==
    /\ rstate = "header"
    /\ wire # <<>>
    /\ Head(wire).kind = "hdr"
    /\ rhdr' = Head(wire)
    /\ wire' = Tail(wire)
    /\ rstate' = "payload"
    /\ UNCHANGED <<open, spc, out, nsent, accepted>>

(* Lines 199-200: sixteen bytes that do not start with the magic, or end  *)
(* of stream (the receive error at 196 is not tested; header[] keeps its  *)
(* stack contents): -1, and socket_reader leaves its loop.               *)
RecvBadHeader ==
    /\ rstate = "header"
    /\ \/ wire # <<>> /\ Head(wire).kind = "data"
       \/ wire = <<>> /\ ~open
    /\ wire' = IF wire = <<>> THEN wire ELSE Tail(wire)
    /\ rstate' = "close"
    /\ UNCHANGED <<open, spc, out, nsent, rhdr, accepted>>

(* Lines 224-237: one g_input_stream_read of header[1] bytes, which       *)
(* returns what the stream holds, up to that many.  All of it: the frame  *)
(* is returned, unless the test of the uninitialised err at 225 sees a    *)
(* non-NULL value (g), and then free(frame) at 227 frees the address of   *)
(* the caller's variable and the C library aborts the process.           *)
RecvFrame(g) ==
    /\ rstate = "payload"
    /\ Len(wire) >= rhdr.len
    /\ wire' = SubSeq(wire, rhdr.len + 1, Len(wire))
    /\ IF g
       THEN /\ rstate' = "crashed"
            /\ UNCHANGED accepted
       ELSE /\ rstate' = "deliver"
            /\ accepted' = Append(accepted, [hdr |-> rhdr,
                                             payload |-> SubSeq(wire, 1, rhdr.len)])
    /\ UNCHANGED <<open, spc, out, nsent, rhdr>>

(* Lines 231-234: the read returned fewer bytes than the header announced *)
(* (less was in the stream, or it ended): free(frame) on the caller's     *)
(* variable aborts the process.                                           *)
RecvShort ==
    /\ rstate = "payload"
    /\ Len(wire) < rhdr.len
    /\ wire # <<>> \/ ~open
    /\ wire' = <<>>
    /\ rstate' = "crashed"
    /\ UNCHANGED <<open, spc, out, nsent, rhdr, accepted>>

(* socket_reader, line 263: the frame goes to conn->sc_parent, which      *)
(* socket_connect never assigns (calloc left it NULL).                    *)
Deliver ==
    /\ rstate = "deliver"
    /\ rstate' = "crashed"
    /\ UNCHANGED <<wire, open, spc, out, nsent, rhdr, accepted>>

(* socket_reader, line 269: rco_close through the same NULL pointer.      *)
ReaderClose ==
    /\ rstate = "close"
    /\ rstate' = "crashed"
    /\ UNCHANGED <<wire, open, spc, out, nsent, rhdr, accepted>>

----------------------------------------------------------------------------
Next ==
    \/ \E s \in Senders :
          \/ \E len \in Lens, fds \in BOOLEAN, g \in ErrGarbage : SendHeader(s, len, fds, g)
          \/ SendClosed(s)
          \/ \E k \in 1..MaxLen : SendPayload(s, k)
          \/ SendPayloadClosed(s)
    \/ Abort
    \/ RecvHeader \/ RecvBadHeader
    \/ \E g \in ErrGarbage : RecvFrame(g)
    \/ RecvShort \/ Deliver \/ ReaderClose

(* The reader thread runs whenever it can read; a sender thread inside    *)
(* socket_send_msg runs to its return.                                    *)
Fairness ==
    /\ WF_vars(RecvHeader \/ RecvBadHeader \/ \E g \in ErrGarbage : RecvFrame(g))
    /\ WF_vars(RecvShort \/ Deliver \/ ReaderClose)
    /\ \A s \in Senders : WF_vars(\E k \in 1..MaxLen : SendPayload(s, k) \/ SendPayloadClosed(s))

Spec == Init /\ [][Next]_vars /\ Fairness

----------------------------------------------------------------------------
TypeOK ==
    /\ wire \in Seq(Units)
    /\ open \in BOOLEAN
    /\ spc \in [Senders -> {"idle", "payload"}]
    /\ \A s \in Senders : out[s] = NONE \/ (out[s] \in Units /\ out[s].kind = "hdr")
    /\ nsent \in [Senders -> 0..MaxSends]
    /\ rstate \in {"header", "payload", "deliver", "close", "crashed"}
    /\ rhdr = NONE \/ (rhdr \in Units /\ rhdr.kind = "hdr")
    /\ accepted \in Seq([hdr : Units, payload : Seq(Units)])

(* Every frame socket_recv_msg returns is the whole payload of the        *)
(* message whose header it read, and nothing else: the framing of          *)
(* socket_send_msg (header, then payload, on a stream shared by all the    *)
(* connection's senders) keeps frame boundaries.                           *)
FrameIntact ==
    \A i \in 1..Len(accepted) :
        accepted[i].payload = Payload(accepted[i].hdr.msg, accepted[i].hdr.len)

============================================================================
