------------------------------- MODULE McpHttp ------------------------------
(***************************************************************************)
(* The streamable-http transport of the MCP client                         *)
(* (internal/mcp/http_wire.go): concurrent POSTs, the goroutines that      *)
(* drain event streams, the session id, and close.  The first POST is the  *)
(* initialize handshake, which ends before any other starts.               *)
(*                                                                         *)
(* The server is external: it answers with JSON, an event stream, an ack   *)
(* without a body or an error, or not at all until the client's timeout.   *)
(***************************************************************************)
EXTENDS Integers, FiniteSets

CONSTANTS
    Posts,      \* the requests; a number each, 1 is initialize
    OutCap,     \* capacity of the out channel (64)
    MaxFrames,  \* bound: frames of one event stream
    Sids,       \* session ids the server may send
    InitGivesId \* does the initialize response carry one

McpHttpAssumption ==
    /\ IsFiniteSet(Posts) /\ Posts \subseteq Nat /\ 1 \in Posts
    /\ OutCap \in Nat \ {0} /\ MaxFrames \in Nat
    /\ InitGivesId \in BOOLEAN

NoSid == "none"
SidAssumption == NoSid \notin Sids

VARIABLES
    pc,       \* "idle", "counted", "posting", "pin", "json", "done"
    given,    \* the session id in the response
    body,     \* what the response holds: "json", "sse", "ack" or "error"
    drain,    \* the stream of a POST: "none", "open", "emit", "ended"
    frames,   \* frames the stream brought
    sid,      \* httpWire.sessionID
    out,      \* frames in the out channel
    closed,   \* httpWire.closed and closeCh
    closer,   \* close: "no", "wait", "done"
    panicked  \* a send on the closed out channel

vars == <<pc, given, body, drain, frames, sid, out, closed, closer, panicked>>

TypeOK ==
    /\ pc \in [Posts -> {"idle", "counted", "posting", "pin", "json", "done"}]
    /\ given \in [Posts -> Sids \cup {NoSid}]
    /\ body \in [Posts -> {"json", "sse", "ack", "error"}]
    /\ drain \in [Posts -> {"none", "open", "emit", "ended"}]
    /\ frames \in [Posts -> 0..MaxFrames] /\ sid \in Sids \cup {NoSid}
    /\ out \in 0..OutCap /\ closed \in BOOLEAN
    /\ closer \in {"no", "wait", "done"} /\ panicked \in BOOLEAN

Init ==
    /\ pc = [p \in Posts |-> "idle"] /\ given = [p \in Posts |-> NoSid]
    /\ body = [p \in Posts |-> "ack"] /\ drain = [p \in Posts |-> "none"]
    /\ frames = [p \in Posts |-> 0] /\ sid = NoSid /\ out = 0
    /\ closed = FALSE /\ closer = "no" /\ panicked = FALSE
-----------------------------------------------------------------------------
\* httpWire.wg: POSTs between Add and Done, and open streams.
wg == Cardinality({p \in Posts : pc[p] \notin {"idle", "done"}})
      + Cardinality({p \in Posts : drain[p] \in {"open", "emit"}})

\* The handshake needs a reply; an acknowledgement or an error fails Start.
Initialized(p) == p = 1 \/ (pc[1] = "done" /\ body[1] \in {"json", "sse"})

\* post: wg.Add first,
Count(p) ==
    /\ pc[p] = "idle" /\ Initialized(p)
    /\ pc' = [pc EXCEPT ![p] = "counted"]
    /\ UNCHANGED <<given, body, drain, frames, sid, out, closed, closer, panicked>>

\* then the look at closed.
Check(p) ==
    /\ pc[p] = "counted"
    /\ pc' = [pc EXCEPT ![p] = IF closed THEN "done" ELSE "posting"]
    /\ UNCHANGED <<given, body, drain, frames, sid, out, closed, closer, panicked>>

\* hc.Do returns: a response, an error, the context's end or the timeout.
Respond(p) ==
    /\ pc[p] = "posting"
    /\ \E b \in {"json", "sse", "ack", "error"} :
         /\ body' = [body EXCEPT ![p] = b]
         /\ pc' = [pc EXCEPT ![p] = IF b \in {"ack", "error"} THEN "done" ELSE "pin"]
    /\ \E s \in Sids \cup {NoSid} :
         /\ p = 1 => (InitGivesId <=> s # NoSid)
         /\ given' = [given EXCEPT ![p] = IF sid = NoSid THEN s ELSE NoSid]
    /\ UNCHANGED <<drain, frames, sid, out, closed, closer, panicked>>

\* What follows the session id: a stream gets its own goroutine, counted while
\* the POST still is.
AfterPin(p) ==
    /\ pc' = [pc EXCEPT ![p] = IF body[p] = "sse" THEN "done" ELSE "json"]
    /\ drain' = [drain EXCEPT ![p] = IF body[p] = "sse" THEN "open" ELSE @]

PinMutant(p) ==
    /\ pc[p] = "pin"
    /\ \E s \in Sids : sid' = s
    /\ AfterPin(p)
    /\ UNCHANGED <<given, body, frames, out, closed, closer, panicked>>
\* setSID, after an earlier step found no id pinned.
Pin(p) ==
    /\ pc[p] = "pin"
    /\ sid' = IF given[p] = NoSid THEN sid ELSE given[p]
    /\ AfterPin(p)
    /\ UNCHANGED <<given, body, frames, out, closed, closer, panicked>>

\* emit: the out channel has room, or closeCh is closed.  A closed out channel
\* panics.
Emit ==
    \/ /\ out < OutCap \/ closer = "done"
       /\ out' = IF closer = "done" THEN out ELSE out + 1
       /\ panicked' = (panicked \/ closer = "done")
    \/ closed /\ closer # "done" /\ UNCHANGED <<out, panicked>>

\* The frame of a JSON response, or an empty body.
EmitJSON(p) ==
    /\ pc[p] = "json"
    /\ Emit \/ UNCHANGED <<out, panicked>>
    /\ pc' = [pc EXCEPT ![p] = "done"]
    /\ UNCHANGED <<given, body, drain, frames, sid, closed, closer>>

\* drainSSE: a data line, or the end of the stream (also by timeout).
StreamLine(p) ==
    /\ drain[p] = "open" /\ frames[p] < MaxFrames
    /\ frames' = [frames EXCEPT ![p] = @ + 1]
    /\ drain' = [drain EXCEPT ![p] = "emit"]
    /\ UNCHANGED <<pc, given, body, sid, out, closed, closer, panicked>>

StreamEmit(p) ==
    /\ drain[p] = "emit"
    /\ Emit
    /\ drain' = [drain EXCEPT ![p] = "open"]
    /\ UNCHANGED <<pc, given, body, frames, sid, closed, closer>>

StreamEnds(p) ==
    /\ drain[p] = "open"
    /\ drain' = [drain EXCEPT ![p] = "ended"]
    /\ UNCHANGED <<pc, given, body, frames, sid, out, closed, closer, panicked>>

\* Client.readLoop takes a frame.
Take ==
    /\ out > 0
    /\ out' = out - 1
    /\ UNCHANGED <<pc, given, body, drain, frames, sid, closed, closer, panicked>>

CloseBegins ==
    /\ closer = "no"
    /\ closed' = TRUE /\ closer' = "wait"
    /\ UNCHANGED <<pc, given, body, drain, frames, sid, out, panicked>>

\* wg.Wait and close(out).
CloseOut ==
    /\ closer = "wait" /\ wg = 0
    /\ closer' = "done"
    /\ UNCHANGED <<pc, given, body, drain, frames, sid, out, closed, panicked>>

Next ==
    \/ \E p \in Posts :
         \/ Count(p) \/ Check(p) \/ Respond(p) \/ Pin(p) \/ EmitJSON(p)
         \/ StreamLine(p) \/ StreamEmit(p) \/ StreamEnds(p)
    \/ Take \/ CloseBegins \/ CloseOut

Spec == Init /\ [][Next]_vars

\* Every goroutine runs; http.Client.Timeout ends requests and streams.  The
\* reader of the out channel is not counted on.
FairSpec ==
    /\ Spec
    /\ \A p \in Posts :
         /\ WF_vars(Check(p)) /\ WF_vars(Respond(p)) /\ WF_vars(Pin(p))
         /\ WF_vars(EmitJSON(p)) /\ WF_vars(StreamEmit(p))
         /\ SF_vars(StreamEnds(p))
    /\ WF_vars(CloseOut)
-----------------------------------------------------------------------------
\* "wg covers both drainSSE goroutines and post() bodies; once all emit()
\* callers have exited, closing out is panic-safe" (http_wire.go): a POST that
\* passed the look at closed was counted before close waited.
NoPanic == ~panicked

\* close returns, even with a full out channel that nobody reads: closeCh frees
\* the senders, and requests and streams end.
Closing == closer = "wait"

Closed == closer = "done"

CloseReturns == Closing ~> Closed

\* "We pin it for the rest of the connection's lifetime -- server may rotate,
\* but for v0 we trust the first one it gives us" (http_wire.go).
SessionPinned == sid # NoSid => sid' = sid
=============================================================================
