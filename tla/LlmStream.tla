------------------------------ MODULE LlmStream ------------------------------
(***************************************************************************)
(* One streaming chat call (internal/agent/llm.go, Loop.consumeAndPersist):*)
(* the provider sends chunks; consumeStream reads them in a goroutine of   *)
(* its own, assembles the message and passes events on through a channel;  *)
(* the loop consumes them.  A watchdog closes the body after a gap, and    *)
(* the call's context may end at any moment (timeout or Cancel).           *)
(*                                                                         *)
(* Fragments of text and of tool arguments are counted: an assembled call  *)
(* is the number of its fragments.  Call 1 is the first the provider       *)
(* opened, and so on.                                                      *)
(***************************************************************************)
EXTENDS Integers, Sequences, FiniteSets

CONSTANTS Style,       \* how the provider labels fragments: "indexed",
                       \* "no_index", or "repeat_id" (index and id on each)
          MaxCalls,    \* tool calls in the response
          MaxArgs,     \* argument fragments per call
          MaxText,     \* text fragments
          Buffer       \* streamEventChanBuffer, 32 in the code

LlmStreamAssumption ==
    /\ Style \in {"indexed", "no_index", "repeat_id"}
    /\ {MaxCalls, MaxArgs, MaxText, Buffer} \subseteq Nat

VARIABLES sent,       \* what the provider has sent: fragments per call, text
          server,     \* open, finished (finish_reason sent), closed
                      \* (after it), broken (before it)
          wire,       \* chunks sent and not read
          body,       \* open, closed (watchdog or context), reset
          calls,      \* the reader's calls: index -> fragments
          text,       \* the reader's text fragments
          finishSeen, \* finish_reason was read
          reader,     \* reading, emitting, ended
          out,        \* the event to emit, while emitting
          chan,       \* the channel of StreamEvents; closed when reader ends
          ctx,        \* live or done
          shown,      \* text fragments published as message.delta
          got,        \* the Finish event the loop received, if any
          failed,     \* an Err event was received
          result      \* none, message, error

vars == <<sent, server, wire, body, calls, text, finishSeen, reader, out, chan,
          ctx, shown, got, failed, result>>

NoMessage == [calls |-> <<>>, text |-> -1]

Init ==
    /\ sent = [calls |-> <<>>, text |-> 0]
    /\ server = "open" /\ wire = <<>> /\ body = "open"
    /\ calls = <<>> /\ text = 0 /\ finishSeen = FALSE
    /\ reader = "reading" /\ out = <<>> /\ chan = <<>> /\ ctx = "live"
    /\ shown = 0 /\ got = NoMessage /\ failed = FALSE /\ result = "none"

reading == <<calls, text, finishSeen, reader, out, chan>>

consuming == <<ctx, shown, got, failed, result>>

(***************************************************************************)
(* The provider (external).  index 0 stands for an absent index.           *)
(***************************************************************************)
Fragment(i, header, arg) ==
    [type |-> "call", header |-> header, arg |-> arg,
     index |-> IF Style = "no_index" THEN 0 ELSE i]

Send(chunk) == wire' = Append(wire, chunk) /\ UNCHANGED <<body, reading, consuming>>

SendText ==
    /\ server = "open" /\ sent.text < MaxText
    /\ sent' = [sent EXCEPT !.text = @ + 1]
    /\ Send([type |-> "text"]) /\ UNCHANGED server

SendHeader(arg) ==
    /\ server = "open" /\ Len(sent.calls) < MaxCalls
    /\ sent' = [sent EXCEPT !.calls = Append(@, IF arg THEN 1 ELSE 0)]
    /\ Send(Fragment(Len(sent.calls) + 1, TRUE, arg)) /\ UNCHANGED server

SendArgs(i) ==
    /\ server = "open" /\ i \in 1..Len(sent.calls) /\ sent.calls[i] < MaxArgs
    /\ Style = "no_index" => i = Len(sent.calls)
    /\ sent' = [sent EXCEPT !.calls[i] = @ + 1]
    /\ Send(Fragment(i, Style = "repeat_id", TRUE)) /\ UNCHANGED server

SendFinish ==
    /\ server = "open" /\ server' = "finished"
    /\ Send([type |-> "finish"]) /\ UNCHANGED sent

\* The provider closes the response, with or without [DONE], at any point;
\* the connection breaks; or the fragment exceeds one of the size caps.  It
\* may also just stop sending.
Hangup(how) ==
    /\ server \in {"open", "finished"}
    /\ server' = IF server = "open" THEN "broken" ELSE "closed"
    /\ wire' = Append(wire, [type |-> how])
    /\ UNCHANGED <<sent, body, reading, consuming>>

(***************************************************************************)
(* The reader.                                                             *)
(***************************************************************************)
\* Which call a fragment belongs to: its index, the next free one for a
\* header without, the highest for arguments without.
CallIndex(c) ==
    IF c.index # 0 THEN c.index
    ELSE IF c.header THEN Len(calls) + 1 ELSE Len(calls)

AddFragmentMutant(c) ==
    LET i == CallIndex(c)
        n == IF c.arg THEN 1 ELSE 0
    IN IF c.header THEN IF i > Len(calls) THEN Append(calls, n) ELSE [calls EXCEPT ![i] = n]
       ELSE [calls EXCEPT ![Len(calls)] = @ + n]

\* A header makes a new call at its index, whatever was there.
AddFragment(c) ==
    LET i == CallIndex(c)
        n == IF c.arg THEN 1 ELSE 0
    IN IF c.header THEN IF i > Len(calls) THEN Append(calls, n) ELSE [calls EXCEPT ![i] = n]
       ELSE IF i \in DOMAIN calls THEN [calls EXCEPT ![i] = @ + n] ELSE calls

Assembled == [calls |-> calls, text |-> text]

Emit(ev) == reader' = "emitting" /\ out' = ev

\* The end of the stream: the message if finish_reason was seen, else an
\* error the loop may retry.
EndOfStream ==
    IF finishSeen THEN Emit([type |-> "finish", value |-> Assembled])
    ELSE Emit([type |-> "error", value |-> NoMessage])

\* Scan returns a line: buffered lines come first, also after the body was
\* closed.
ReadChunk ==
    /\ reader = "reading" /\ wire # <<>>
    /\ wire' = Tail(wire)
    /\ LET c == Head(wire) IN
         CASE c.type = "text" ->
                /\ text' = text + 1
                /\ Emit([type |-> "text", value |-> NoMessage])
                /\ UNCHANGED <<calls, finishSeen>>
           [] c.type = "call" ->
                /\ calls' = AddFragment(c)
                /\ Emit([type |-> "call", value |-> NoMessage])
                /\ UNCHANGED <<text, finishSeen>>
           [] c.type = "finish" ->
                /\ finishSeen' = TRUE
                /\ UNCHANGED <<calls, text, reader, out>>
           [] c.type = "oversize" ->
                /\ Emit([type |-> "error", value |-> NoMessage])
                /\ UNCHANGED <<calls, text, finishSeen>>
           [] OTHER -> EndOfStream /\ UNCHANGED <<calls, text, finishSeen>>
    /\ UNCHANGED <<sent, server, body, chan, consuming>>

\* Nothing more to read and the body is closed: the read error.
ReadClosed ==
    /\ reader = "reading" /\ wire = <<>> /\ body = "closed"
    /\ EndOfStream
    /\ UNCHANGED <<sent, server, wire, body, calls, text, finishSeen, chan, consuming>>

\* No chunk within StreamIdleTimeout, or StreamPostFinishTimeout after
\* finish_reason: the timer runs while the reader waits for the provider.
Watchdog ==
    /\ body = "open" /\ reader = "reading" /\ wire = <<>>
    /\ body' = "closed"
    /\ UNCHANGED <<sent, server, wire, reading, consuming>>

AfterEmit == IF out.type \in {"finish", "error"} THEN "ended" ELSE "reading"

EmitEventMutant ==
    /\ reader = "emitting" /\ Len(chan) < Buffer
    /\ chan' = Append(chan, out)
    /\ reader' = AfterEmit
    /\ UNCHANGED <<sent, server, wire, body, calls, text, finishSeen, out, consuming>>

\* emit: a select between the channel and ctx.Done().
EmitEvent ==
    /\ reader = "emitting"
    /\ \/ /\ Len(chan) < Buffer
          /\ chan' = Append(chan, out)
          /\ reader' = AfterEmit
       \/ /\ ctx = "done"
          /\ reader' = "ended" /\ UNCHANGED chan
    /\ UNCHANGED <<sent, server, wire, body, calls, text, finishSeen, out, consuming>>

(***************************************************************************)
(* The consumer.  It gives up as soon as it sees the context done, even    *)
(* with the message in hand; the error then is the context's.              *)
(***************************************************************************)
Consume ==
    /\ result = "none" /\ chan # <<>>
    /\ chan' = Tail(chan)
    /\ LET ev == Head(chan) IN
         /\ shown' = IF ev.type = "text" THEN shown + 1 ELSE shown
         /\ got' = IF ev.type = "finish" THEN ev.value ELSE got
         /\ failed' = (failed \/ ev.type = "error")
    /\ result' = IF ctx = "done" THEN "error" ELSE result
    /\ UNCHANGED <<sent, server, wire, body, calls, text, finishSeen, reader, out, ctx>>

\* The channel is closed and drained.
ConsumeEnd ==
    /\ result = "none" /\ chan = <<>> /\ reader = "ended"
    /\ result' = IF failed \/ got = NoMessage THEN "error" ELSE "message"
    /\ UNCHANGED <<sent, server, wire, body, reading, ctx, shown, got, failed>>

\* The timeout of the call or a Cancel: the request's body is closed too.
EndContext ==
    /\ ctx = "live" /\ result = "none"
    /\ ctx' = "done" /\ body' = "closed"
    /\ UNCHANGED <<sent, server, wire, reading, shown, got, failed, result>>

Done == result # "none" /\ UNCHANGED vars

Next ==
    \/ SendText \/ \E arg \in BOOLEAN : SendHeader(arg)
    \/ \E i \in 1..MaxCalls : SendArgs(i)
    \/ SendFinish \/ \E how \in {"done", "reset", "oversize"} : Hangup(how)
    \/ ReadChunk \/ ReadClosed \/ Watchdog \/ EmitEvent
    \/ Consume \/ ConsumeEnd \/ EndContext \/ Done

Spec == Init /\ [][Next]_vars

(***************************************************************************)
(* The goroutines run and the watchdog's timer fires when nothing arrives; *)
(* nothing is assumed of the provider.  After the loop has left, its       *)
(* callCancel ends the context.                                            *)
(***************************************************************************)
callCancel ==
    /\ result # "none" /\ ctx = "live"
    /\ ctx' = "done" /\ body' = "closed"
    /\ UNCHANGED <<sent, server, wire, reading, shown, got, failed, result>>

FairSpec ==
    /\ Init /\ [][Next \/ callCancel]_vars
    /\ WF_vars(ReadChunk) /\ WF_vars(ReadClosed) /\ WF_vars(Watchdog)
    /\ WF_vars(EmitEvent) /\ WF_vars(Consume) /\ WF_vars(ConsumeEnd)
    /\ WF_vars(callCancel)

-----------------------------------------------------------------------------
\* A message the loop goes on with is the whole message: every fragment the
\* provider sent for every call, and every piece of text ("each chunk may add
\* to function.arguments", llm.go), however the chunks interleave; and one
\* the provider finished, never a truncated one.
MessageComplete ==
    result = "message" =>
      /\ got = sent
      /\ server \in {"finished", "closed"}

\* What the client saw as message.delta is what is persisted as the message.
ShownIsKept == result = "message" => shown = got.text

\* The call returns, whatever the provider does: it may stop sending at any
\* moment (StreamIdleTimeout, "a forgotten [DONE] ... can't park us here").
Answered == result # "none"

CallReturns == <>Answered

\* The reading goroutine ends, also when the loop left with events unread.
ReaderEnded == reader = "ended"

ReaderEnds == <>[]ReaderEnded
==============================================================================
