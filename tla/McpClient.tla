------------------------------ MODULE McpClient -----------------------------
(***************************************************************************)
(* One MCP client over the stdio transport: the JSON-RPC half              *)
(* (internal/mcp/client.go) and the wire that owns the child process       *)
(* (internal/mcp/stdio_wire.go).  Calls run concurrently with the wire's   *)
(* reader, the client's reader and Close.                                  *)
(*                                                                         *)
(* The server is external: it reads requests when it likes, answers them   *)
(* in any order, twice or not at all, sends notifications and frames over  *)
(* the size limit, and dies.  Pipes are bounded.  A frame is the id it     *)
(* answers, Note for a notification or Huge.  A caller makes one call.     *)
(***************************************************************************)
EXTENDS Integers, Sequences, FiniteSets

CONSTANTS
    Callers,     \* concurrent calls
    PipeCap,     \* frames a pipe holds
    OutCap,      \* capacity of the wire's out channel (64)
    MaxFrames,   \* bound: frames the server writes
    Cancels,     \* may contexts end
    Server       \* what the server may do besides answering once

ServerTricks == {"huge", "note", "dies", "late"}

McpAssumption ==
    /\ IsFiniteSet(Callers) /\ MaxFrames \in Nat
    /\ PipeCap \in Nat \ {0} /\ OutCap \in Nat \ {0}
    /\ Cancels \in BOOLEAN /\ Server \subseteq ServerTricks

Note == 0
Huge == -1
Ids == 1..Cardinality(Callers)
NoId == 0
None == 0
Failed == -1
Cancelled == -2

VARIABLES
    pc,       \* a call: "idle", "checked", "sending", "waiting", "done"
    id,       \* its request id, NoId before
    result,   \* the id of the reply it returns, None, Failed or Cancelled
    ctx,      \* its context is done
    nextID,
    pending,  \* Client.pending: the ids with a channel
    reply,    \* the channels' content: id to a frame, NoId when empty
    shut,     \* ids whose channel is closed
    closer,   \* Close: "no", "wire", "reader", "pending", "done"
    wclosed,  \* stdioWire.closed, closeCh and stdin are closed
    stdin,    \* requests in the pipe to the server
    got,      \* requests the server read and may answer
    stdout,   \* frames in the pipe from the server
    frames,   \* frames the server wrote
    alive,    \* is the process running
    reader,   \* stdioWire.readLoop: "read", "send" or "gone"
    frame,    \* the frame it holds
    out,      \* the wire's out channel
    outShut,  \* is it closed
    loop,     \* Client.readLoop: "run" or "gone"
    panicked  \* a send on a closed channel happened

vars == <<pc, id, result, ctx, nextID, pending, reply, shut, closer, wclosed,
          stdin, got, stdout, frames, alive, reader, frame, out, outShut, loop,
          panicked>>
calls == <<pc, id, result>>
table == <<pending, reply, shut>>
server == <<got, frames, alive>>
wire == <<reader, frame, out, outShut>>

Frames == {Huge, Note} \cup Ids

TypeOK ==
    /\ pc \in [Callers -> {"idle", "checked", "sending", "waiting", "done"}]
    /\ id \in [Callers -> Ids \cup {NoId}]
    /\ result \in [Callers -> {None, Failed, Cancelled} \cup Ids]
    /\ ctx \in [Callers -> BOOLEAN] /\ nextID \in Nat
    /\ pending \subseteq Ids /\ reply \in [Ids -> Ids \cup {NoId}]
    /\ shut \subseteq Ids
    /\ closer \in {"no", "wire", "reader", "pending", "done"}
    /\ wclosed \in BOOLEAN
    /\ stdin \in Seq(Ids) /\ got \subseteq Ids /\ stdout \in Seq(Frames)
    /\ frames \in 0..MaxFrames /\ alive \in BOOLEAN
    /\ reader \in {"read", "send", "gone"} /\ frame \in Frames
    /\ out \in Seq(Frames) /\ outShut \in BOOLEAN
    /\ loop \in {"run", "gone"} /\ panicked \in BOOLEAN

Init ==
    /\ pc = [c \in Callers |-> "idle"] /\ id = [c \in Callers |-> NoId]
    /\ result = [c \in Callers |-> None] /\ ctx = [c \in Callers |-> FALSE]
    /\ nextID = 0 /\ pending = {} /\ reply = [i \in Ids |-> NoId] /\ shut = {}
    /\ closer = "no" /\ wclosed = FALSE
    /\ stdin = <<>> /\ got = {} /\ stdout = <<>> /\ frames = 0 /\ alive = TRUE
    /\ reader = "read" /\ frame = Note /\ out = <<>> /\ outShut = FALSE
    /\ loop = "run" /\ panicked = FALSE
-----------------------------------------------------------------------------
(* call. *)

\* The deferred delete and the return.
Return(c, r) ==
    /\ pc' = [pc EXCEPT ![c] = "done"]
    /\ result' = [result EXCEPT ![c] = r]
    /\ pending' = pending \ {id[c]}

\* The look at closed.
Begin(c) ==
    /\ pc[c] = "idle"
    /\ IF closer # "no"
       THEN pc' = [pc EXCEPT ![c] = "done"] /\ result' = [result EXCEPT ![c] = Failed]
       ELSE pc' = [pc EXCEPT ![c] = "checked"] /\ result' = result
    /\ UNCHANGED <<id, ctx, nextID, table, closer, wclosed, stdin, server,
                   stdout, wire, loop, panicked>>

\* A fresh id and its channel.
Register(c) ==
    /\ pc[c] = "checked"
    /\ nextID' = nextID + 1
    /\ id' = [id EXCEPT ![c] = nextID']
    /\ pending' = pending \cup {nextID'}
    /\ pc' = [pc EXCEPT ![c] = "sending"]
    /\ UNCHANGED <<result, ctx, reply, shut, closer, wclosed, stdin, server,
                   stdout, wire, loop, panicked>>

\* sendRequest: write blocks while the pipe is full, whatever the context says;
\* a closed wire or a dead process is an error.
Send(c) ==
    /\ pc[c] = "sending"
    /\ \/ /\ wclosed \/ ~alive
          /\ Return(c, Failed)
          /\ UNCHANGED <<id, stdin>>
       \/ /\ ~wclosed /\ alive /\ Len(stdin) < PipeCap
          /\ stdin' = Append(stdin, id[c])
          /\ pc' = [pc EXCEPT ![c] = "waiting"]
          /\ UNCHANGED <<id, result, pending>>
    /\ UNCHANGED <<ctx, nextID, reply, shut, closer, wclosed, server, stdout,
                   wire, loop, panicked>>

\* The select: context, reply or closed channel, whichever is ready.
Wait(c) ==
    /\ pc[c] = "waiting"
    /\ \/ ctx[c] /\ Return(c, Cancelled)
       \/ reply[id[c]] # NoId /\ Return(c, reply[id[c]])
       \/ id[c] \in shut /\ reply[id[c]] = NoId /\ Return(c, Failed)
    /\ UNCHANGED <<id, ctx, nextID, reply, shut, closer, wclosed, stdin, server,
                   stdout, wire, loop, panicked>>

\* The caller's context ends: the turn is cancelled or a timeout fires.
Cancel(c) ==
    /\ Cancels
    /\ ~ctx[c] /\ pc[c] \notin {"idle", "done"}
    /\ ctx' = [ctx EXCEPT ![c] = TRUE]
    /\ UNCHANGED <<calls, nextID, table, closer, wclosed, stdin, server, stdout,
                   wire, loop, panicked>>
-----------------------------------------------------------------------------
(* The server process. *)

ServerReads ==
    /\ alive /\ stdin # <<>>
    /\ got' = got \cup {Head(stdin)}
    /\ stdin' = Tail(stdin)
    /\ UNCHANGED <<calls, ctx, nextID, table, closer, wclosed, stdout, frames,
                   alive, wire, loop, panicked>>

\* An answer, a repeated answer, a notification, a frame over the limit.
ServerWrites ==
    /\ alive /\ Len(stdout) < PipeCap /\ frames < MaxFrames
    /\ frames' = frames + 1
    /\ \/ \E i \in got :
            /\ stdout' = Append(stdout, i)
            /\ got' = IF "late" \in Server THEN got ELSE got \ {i}
       \/ "note" \in Server /\ stdout' = Append(stdout, Note) /\ got' = got
       \/ "huge" \in Server /\ stdout' = Append(stdout, Huge) /\ got' = got
    /\ UNCHANGED <<calls, ctx, nextID, table, closer, wclosed, stdin, alive,
                   wire, loop, panicked>>

\* The process ends: by itself, at the end of its input, or killed by Close.
ServerDies ==
    /\ alive
    /\ "dies" \in Server \/ wclosed
    /\ alive' = FALSE
    /\ UNCHANGED <<calls, ctx, nextID, table, closer, wclosed, stdin, got,
                   stdout, frames, wire, loop, panicked>>
-----------------------------------------------------------------------------
(* stdioWire.readLoop and Client.readLoop. *)

\* One frame; a frame over the limit, or the end of the file, ends the loop.
Read ==
    /\ reader = "read"
    /\ \/ /\ stdout # <<>>
          /\ stdout' = Tail(stdout)
          /\ IF Head(stdout) = Huge THEN reader' = "gone" /\ frame' = frame
             ELSE reader' = "send" /\ frame' = Head(stdout)
       \/ stdout = <<>> /\ ~alive /\ reader' = "gone" /\ UNCHANGED <<stdout, frame>>
    /\ UNCHANGED <<calls, ctx, nextID, table, closer, wclosed, stdin, server,
                   out, outShut, loop, panicked>>

\* A closed out channel panics; closeCh is the way out of a full one.
Forward ==
    /\ reader = "send"
    /\ \/ /\ Len(out) < OutCap \/ outShut
          /\ out' = IF outShut THEN out ELSE Append(out, frame)
          /\ panicked' = (panicked \/ outShut)
          /\ reader' = "read"
       \/ wclosed /\ reader' = "gone" /\ UNCHANGED <<out, panicked>>
    /\ UNCHANGED <<calls, ctx, nextID, table, closer, wclosed, stdin, server,
                   stdout, frame, outShut, loop>>

DispatchMutant ==
    /\ loop = "run" /\ out # <<>>
    /\ out' = Tail(out)
    /\ LET i == Head(out)
       IN  reply' = IF pending # {} /\ i # Note
                    THEN [reply EXCEPT ![CHOOSE j \in pending : TRUE] = i] ELSE reply
    /\ UNCHANGED <<calls, ctx, nextID, pending, shut, closer, wclosed, stdin,
                   server, stdout, reader, frame, outShut, loop, panicked>>
\* dispatch: look-up and delivery under the lock.  The channel holds one reply;
\* more are dropped, as are replies without a caller and notifications.
Dispatch ==
    /\ loop = "run" /\ out # <<>>
    /\ out' = Tail(out)
    /\ LET i == Head(out)
       IN  /\ reply' = IF i \in pending /\ i \notin shut /\ reply[i] = NoId
                       THEN [reply EXCEPT ![i] = i] ELSE reply
           /\ panicked' = (panicked \/ (i \in pending /\ i \in shut))
    /\ UNCHANGED <<calls, ctx, nextID, pending, shut, closer, wclosed, stdin,
                   server, stdout, reader, frame, outShut, loop>>

\* shutdownPending, and the end of Close: closes every channel of the table.
CloseChannels == shut' = shut \cup pending /\ pending' = {}

\* The out channel is closed and empty.
LoopEnds ==
    /\ loop = "run" /\ out = <<>> /\ outShut
    /\ loop' = "gone"
    /\ CloseChannels
    /\ UNCHANGED <<calls, ctx, nextID, reply, closer, wclosed, stdin, server,
                   stdout, wire, panicked>>
-----------------------------------------------------------------------------
(* Close. *)

\* The flag, closeCh and stdin.
CloseBegins ==
    /\ closer = "no"
    /\ closer' = "wire" /\ wclosed' = TRUE
    /\ UNCHANGED <<calls, ctx, nextID, table, stdin, server, stdout, wire, loop,
                   panicked>>

\* cmd.Wait, with a kill after a second; it closes our end of stdout.
CloseWaits ==
    /\ closer = "wire" /\ ~alive
    /\ closer' = "reader"
    /\ stdout' = <<>>
    /\ UNCHANGED <<calls, ctx, nextID, table, wclosed, stdin, server, wire,
                   loop, panicked>>

\* readerDone, then close(out).
CloseOut ==
    /\ closer = "reader" /\ reader = "gone"
    /\ closer' = "pending" /\ outShut' = TRUE
    /\ UNCHANGED <<calls, ctx, nextID, table, wclosed, stdin, server, stdout,
                   reader, frame, out, loop, panicked>>

\* The sweep at the end of Close.
ClosePending ==
    /\ closer = "pending"
    /\ closer' = "done"
    /\ CloseChannels
    /\ UNCHANGED <<calls, ctx, nextID, reply, wclosed, stdin, server, stdout,
                   wire, loop, panicked>>

Next ==
    \/ \E c \in Callers : Begin(c) \/ Register(c) \/ Send(c) \/ Wait(c) \/ Cancel(c)
    \/ ServerReads \/ ServerWrites \/ ServerDies
    \/ Read \/ Forward \/ Dispatch \/ LoopEnds
    \/ CloseBegins \/ CloseWaits \/ CloseOut \/ ClosePending

Spec == Init /\ [][Next]_vars

\* Close kills a server that does not end once its stdin is closed.
DiesClosed == ServerDies /\ wclosed

\* The goroutines run and Close kills the process; nothing is asked of the
\* server.
FairSpec ==
    /\ Spec
    /\ \A c \in Callers : WF_vars(Register(c)) /\ WF_vars(Send(c)) /\ WF_vars(Wait(c))
    /\ WF_vars(Read) /\ WF_vars(Forward) /\ WF_vars(Dispatch) /\ WF_vars(LoopEnds)
    /\ WF_vars(DiesClosed)
    /\ WF_vars(CloseWaits) /\ WF_vars(CloseOut) /\ WF_vars(ClosePending)
-----------------------------------------------------------------------------
(* Properties. *)

\* A call returns the answer to its own request, whatever order, repetition or
\* lateness the server answers with, and no other call has that id.
OwnReply ==
    \A c \in Callers : result[c] \in Ids =>
        /\ result[c] = id[c]
        /\ \A d \in Callers : id[d] = id[c] => d = c

\* No goroutine sends on a channel that Close or shutdownPending has closed: the
\* wire closes out only after its reader is gone, and dispatch delivers under
\* the lock the channels are closed under.
NoPanic == ~panicked

\* "Close terminates the transport and rejects any in-flight calls" (client.go):
\* Close returns and every call that has begun ends, also one that passed the
\* look at closed before Close and registered after it.
Closing == closer = "wire"

AllRejected == closer = "done" /\ \A c \in Callers : pc[c] \in {"idle", "done"}

CloseRejectsAll == Closing ~> AllRejected

\* "call ... Honors ctx cancellation" (client.go).
CancelReturns == \A c \in Callers : ctx[c] ~> (pc[c] = "done")
=============================================================================
