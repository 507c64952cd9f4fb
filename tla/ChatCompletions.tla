--------------------------- MODULE ChatCompletions ---------------------------
(***************************************************************************)
(* POST /v1/chat/completions (cmd/affentserve/chat_completions.go): the    *)
(* handlers of several clients of one session subscribe to its events,     *)
(* send a turn and put the reply together, buffered or streamed, while the *)
(* fanout hands out the events of whatever turn is running and drops what  *)
(* a subscriber has no room for.  A client may disconnect and the session  *)
(* may be closed at any moment.                                            *)
(***************************************************************************)
EXTENDS Integers, Sequences

CONSTANTS Clients,      \* concurrent requests
          Streamers,    \* those with stream=true
          Leavers,      \* those that may disconnect
          Closes,       \* whether the session may be closed
          Buffer,       \* capacity of a subscription (512)
          MaxTurns,     \* bound: turns
          MaxRounds,    \* bound: model calls of a turn
          MaxDeltas     \* bound: deltas of a message

VARIABLES pc,       \* where the handler of a client is
          chan,     \* the events waiting in its subscription
          own,      \* the turn it sent, 0 for none
          out,      \* bufferedTurnResult, or what was streamed so far
          reply,    \* how the handler ended
          gone,     \* the client disconnected (r.Context)
          lost,     \* an event of its turn was dropped for it
          turn,     \* Loop.current, 0 for none
          cancelled,\* Loop.cancelFn was called
          work,     \* what the running turn said
          queue,    \* s.events
          said,     \* for each turn that ended, what it said and why it ended
          closed    \* closedCh and the subscriptions are closed

vars == <<pc, chan, own, out, reply, gone, lost, turn, cancelled, work, queue, said, closed>>
clientVars == <<pc, own, out, reply, gone>>
loopVars == <<turn, cancelled, work, said>>

ChatAssumption ==
    /\ Streamers \cup Leavers \subseteq Clients /\ Closes \in BOOLEAN
    /\ {Buffer, MaxTurns, MaxRounds, MaxDeltas} \subseteq Nat \ {0}

Event(type, v) == [turn |-> turn, type |-> type, v |-> v]
Fresh == [content |-> <<>>, finish |-> "stop", error |-> FALSE]
NoWork == [round |-> 0, text |-> <<>>, all |-> <<>>, finish |-> "stop", reason |-> "none"]

Init ==
    /\ pc = [c \in Clients |-> "idle"] /\ chan = [c \in Clients |-> <<>>]
    /\ own = [c \in Clients |-> 0] /\ out = [c \in Clients |-> Fresh]
    /\ reply = [c \in Clients |-> "none"]
    /\ gone = [c \in Clients |-> FALSE] /\ lost = [c \in Clients |-> FALSE]
    /\ turn = 0 /\ cancelled = FALSE /\ work = NoWork
    /\ queue = <<>> /\ said = <<>> /\ closed = FALSE
-----------------------------------------------------------------------------
(* The turn, as far as its events show it. *)

Running == turn # 0 /\ work.reason = "none"

Publish(events) == queue' = queue \o events

\* A message.delta of the stream.
SayDelta ==
    /\ Running /\ ~cancelled /\ Len(work.text) < MaxDeltas
    /\ LET piece == <<turn, Len(work.all) + 1>>
       IN  /\ work' = [work EXCEPT !.text = Append(@, piece), !.all = Append(@, piece)]
           /\ Publish(<<Event("message.delta", piece)>>)
    /\ UNCHANGED <<clientVars, chan, lost, turn, cancelled, said, closed>>

\* publishMessageDone says nothing of an empty text.
Done(finish) ==
    IF work.text = <<>> THEN <<>>
    ELSE <<Event("message.done", [text |-> work.text, finish |-> finish])>>

\* A message with tool calls, or one a completion guard rejected: the loop
\* asks the model again.
NextRound(rejected) ==
    /\ Running /\ ~cancelled /\ work.round + 1 < MaxRounds
    /\ work' = [work EXCEPT !.round = @ + 1, !.text = <<>>]
    /\ Publish(IF rejected THEN <<>> ELSE Done("tool_calls"))
    /\ UNCHANGED <<clientVars, chan, lost, turn, cancelled, said, closed>>

Ending(reason, finish) == work' = [work EXCEPT !.reason = reason, !.finish = finish]

\* The accepted answer; the provider may have cut it short.
FinalAnswer(finish) ==
    /\ Running /\ ~cancelled /\ work.text # <<>>
    /\ Ending("completed", finish) /\ Publish(Done(finish))
    /\ UNCHANGED <<clientVars, chan, lost, turn, cancelled, said, closed>>

\* The budget is spent, the provider failed, or the turn was cancelled.
TurnFails(reason) ==
    /\ Running /\ (reason = "cancelled" <=> cancelled)
    /\ Ending(reason, "stop")
    /\ Publish(IF reason = "error" THEN <<Event("error", 0)>> ELSE <<>>)
    /\ UNCHANGED <<clientVars, chan, lost, turn, cancelled, said, closed>>

\* turn.end is published while the turn still holds the loop ...
PublishTurnEnd ==
    /\ turn # 0 /\ work.reason # "none" /\ Len(said) < turn
    /\ said' = Append(said, work)
    /\ Publish(<<Event("turn.end", work.reason)>>)
    /\ UNCHANGED <<clientVars, chan, lost, turn, cancelled, work, closed>>

\* ... and takeTurn lets it go.
TakeTurn ==
    /\ turn # 0 /\ Len(said) = turn
    /\ turn' = 0 /\ cancelled' = FALSE /\ work' = NoWork
    /\ UNCHANGED <<clientVars, chan, lost, queue, said, closed>>
-----------------------------------------------------------------------------
(* The fanout of the session. *)

Subscribed(c) == pc[c] \in {"sending", "reading"} /\ ~closed

\* dispatchSessionEvent: a subscriber without room is skipped.
Dispatch ==
    /\ queue # <<>> /\ ~closed
    /\ LET room(c) == Len(chan[c]) < Buffer
       IN  /\ chan' = [c \in Clients |-> IF Subscribed(c) /\ room(c)
                                         THEN Append(chan[c], Head(queue)) ELSE chan[c]]
           /\ lost' = [c \in Clients |-> lost[c] \/ (Subscribed(c) /\ ~room(c))]
    /\ queue' = Tail(queue)
    /\ UNCHANGED <<clientVars, loopVars, closed>>

\* Session.Close: the turn is cancelled and the fanout closes the channels.
CloseSession ==
    /\ Closes /\ ~closed /\ closed' = TRUE /\ cancelled' = (turn # 0)
    /\ UNCHANGED <<clientVars, chan, lost, turn, work, queue, said>>
-----------------------------------------------------------------------------
(* The handler of a client. *)

\* Subscribe before SendUser, "so we never miss the turn.start event".
Subscribe(c) ==
    /\ pc[c] = "idle" /\ pc' = [pc EXCEPT ![c] = "sending"]
    /\ UNCHANGED <<chan, own, out, reply, gone, lost, loopVars, queue, closed>>

\* The handler returns; the deferred Unsubscribe drops its channel.
Returns(c, how) ==
    /\ pc' = [pc EXCEPT ![c] = "done"] /\ reply' = [reply EXCEPT ![c] = how]
    /\ chan' = [chan EXCEPT ![c] = <<>>]

\* 499 when the client is gone already, 409 when a turn is in flight.
SendRefused(c) ==
    /\ pc[c] = "sending" /\ (gone[c] \/ turn # 0)
    /\ Returns(c, IF gone[c] THEN "499" ELSE "409")
    /\ UNCHANGED <<own, out, gone, lost, loopVars, queue, closed>>

SendAccepted(c) ==
    /\ pc[c] = "sending" /\ ~gone[c] /\ turn = 0 /\ Len(said) < MaxTurns
    /\ turn' = Len(said) + 1 /\ own' = [own EXCEPT ![c] = Len(said) + 1]
    /\ lost' = [lost EXCEPT ![c] = FALSE]
    /\ pc' = [pc EXCEPT ![c] = "reading"]
    /\ UNCHANGED <<chan, out, reply, gone, cancelled, work, queue, said, closed>>

Disconnect(c) ==
    /\ c \in Leavers /\ pc[c] \in {"sending", "reading"}
    /\ ~gone[c] /\ gone' = [gone EXCEPT ![c] = TRUE]
    /\ UNCHANGED <<pc, chan, own, out, reply, lost, loopVars, queue, closed>>

\* ctx.Done, or a keep-alive that cannot be written: CancelTurn.
GiveUp(c) ==
    /\ pc[c] = "reading" /\ gone[c]
    /\ cancelled' = (turn # 0)
    /\ Returns(c, "gone")
    /\ UNCHANGED <<own, out, gone, lost, turn, work, queue, said, closed>>

\* eventForTurn.
ForTurn(e, c) == e.turn = own[c]

\* openAIFinishReason.
openAIFinishReason(reason) == IF reason = "max_turns" THEN "length" ELSE "stop"

\* What an event of the turn does to the buffered result.
Buffered(o, e) ==
    CASE e.type = "message.delta" -> [o EXCEPT !.content = Append(@, e.v)]
      [] e.type = "message.done" ->
           IF e.v.finish = "tool_calls" THEN [o EXCEPT !.content = <<>>]
           ELSE [o EXCEPT !.content = e.v.text, !.finish = e.v.finish]
      [] e.type = "error" -> [o EXCEPT !.error = TRUE]
      [] e.type = "turn.end" /\ e.v # "completed" ->
           [o EXCEPT !.finish = openAIFinishReason(e.v), !.error = @ \/ e.v = "error"]
      [] OTHER -> o

\* What it adds to the stream: modelFinish counts on a completed turn only.
Streamed(o, e) ==
    CASE e.type = "message.delta" -> [o EXCEPT !.content = Append(@, e.v)]
      [] e.type = "message.done" /\ e.v.finish # "tool_calls" -> [o EXCEPT !.finish = e.v.finish]
      [] e.type = "error" -> [o EXCEPT !.error = TRUE]
      [] e.type = "turn.end" /\ e.v # "completed" -> [o EXCEPT !.finish = openAIFinishReason(e.v)]
      [] OTHER -> o

\* writeChatCompletionResponse: 502 for a failed turn; a stream ends with DONE.
Answer(c, o) == IF c \notin Streamers /\ o.error THEN "502" ELSE "200"

\* bufferChatCompletion, streamChatCompletion: the next event.
Read(c) ==
    /\ pc[c] = "reading" /\ chan[c] # <<>>
    /\ LET e == Head(chan[c])
           o == IF c \in Streamers THEN Streamed(out[c], e) ELSE Buffered(out[c], e)
       IN  /\ out' = [out EXCEPT ![c] = IF ForTurn(e, c) THEN o ELSE @]
           /\ IF ForTurn(e, c) /\ e.type = "turn.end"
              THEN Returns(c, Answer(c, o))
              ELSE /\ chan' = [chan EXCEPT ![c] = Tail(@)]
                   /\ UNCHANGED <<pc, reply>>
    /\ UNCHANGED <<own, gone, lost, loopVars, queue, closed>>

\* The channel is closed and drained: 500, or a stream cut without DONE.
StreamCloses(c) ==
    /\ pc[c] = "reading" /\ closed /\ chan[c] = <<>>
    /\ Returns(c, IF c \in Streamers THEN "cut" ELSE "500")
    /\ UNCHANGED <<own, out, gone, lost, loopVars, queue, closed>>

Next ==
    \/ SayDelta \/ (\E rejected \in BOOLEAN : NextRound(rejected))
    \/ (\E finish \in {"stop", "length"} : FinalAnswer(finish))
    \/ (\E reason \in {"max_turns", "error", "cancelled"} : TurnFails(reason))
    \/ PublishTurnEnd \/ TakeTurn \/ Dispatch \/ CloseSession
    \/ \E c \in Clients :
         \/ Subscribe(c) \/ SendRefused(c) \/ SendAccepted(c)
         \/ Disconnect(c) \/ GiveUp(c) \/ Read(c) \/ StreamCloses(c)

Spec == Init /\ [][Next]_vars
-----------------------------------------------------------------------------
\* A 200 answers the request with its own turn: a buffered reply is the
\* terminal answer and not the progress notes before it, a stream is all that
\* was said, and finish_reason is that of the model, or of the turn when it
\* did not complete; a failed turn is never a buffered 200.  The client whose
\* full subscription lost an event is left out.
ReplyIsOwn ==
    \A c \in Clients : reply[c] \in {"200", "502"} /\ ~lost[c] =>
      LET t == said[own[c]]
      IN  /\ t.reason = "completed" /\ c \notin Streamers => out[c].content = t.text
          /\ c \in Streamers => out[c].content = t.all
          /\ out[c].finish = IF t.reason = "completed" THEN t.finish
                             ELSE openAIFinishReason(t.reason)
          /\ c \notin Streamers => (reply[c] = "502" <=> t.reason = "error")

\* "On cancellation we propagate the cancel into the affent Loop so the
\* browser / LLM call doesn't keep running ... with no listener"
\* (chat_completions.go): a client that leaves stops its own turn.
CancelsOwn == [][\A c \in Clients : GiveUp(c) /\ turn # 0 => turn = own[c]]_vars
==============================================================================
