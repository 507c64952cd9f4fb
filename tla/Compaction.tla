----------------------------- MODULE Compaction -----------------------------
(***************************************************************************)
(* Compaction of the conversation log: LLMSummaryCompactor.Compact         *)
(* (internal/agent/compaction.go) and the callers that decide when and     *)
(* with which limits it runs (Loop.maybeCompactWithReason and the          *)
(* functions above it in internal/agent/loop.go).                          *)
(*                                                                         *)
(* A message is its role, the number of tool calls it makes, a serial      *)
(* number that stands for its content and, for a summary, the serials of   *)
(* the messages the summarizer was shown.  Byte and token estimates are    *)
(* data: where the code compares them the model may go either way.         *)
(* Compaction runs between the rounds of a turn, so a tool round (the      *)
(* assistant message and one result per call) is appended in one step.     *)
(***************************************************************************)
EXTENDS Integers, Sequences, FiniteSets

CONSTANTS
    KeepLastMsgs,   \* LLMSummaryCompactor.KeepLast
    TriggerMsgs,    \* LLMSummaryCompactor.TriggerMsgs, 0 when it is off
    MaxBatch,       \* bound: tool calls of one assistant message
    MaxSerial,      \* bound: messages appended to the log
    SummaryDrops    \* may the summarizer's own prompt leave out old events

CompactionAssumption ==
    /\ KeepLastMsgs \in Nat \ {0}
    /\ TriggerMsgs \in Nat
    /\ MaxBatch \in Nat \ {0}
    /\ MaxSerial \in Nat
    /\ SummaryDrops \in BOOLEAN

VARIABLES
    msgs,   \* the conversation, Conversation.msgs
    next,   \* serial of the next message
    dropped \* history: some summary was written without the oldest events

vars == <<msgs, next, dropped>>

Roles == {"system", "user", "summary", "assistant", "tool"}
Message ==
    [role : Roles, serial : Nat, calls : 0..MaxBatch, covers : SUBSET Nat]

TypeOK ==
    /\ msgs \in Seq(Message)
    /\ next \in 1..(MaxSerial + 1)
    /\ dropped \in BOOLEAN

Msg(role, serial, calls) ==
    [role |-> role, serial |-> serial, calls |-> calls, covers |-> {}]
\* The synthetic message "[summary of earlier work] ...": its role is user.
Summary(covers) ==
    [role |-> "summary", serial |-> 0, calls |-> 0, covers |-> covers]

\* EnsureSystemPrompt puts one system message first.
Init ==
    /\ msgs = <<Msg("system", 0, 0)>>
    /\ next = 1
    /\ dropped = FALSE
-----------------------------------------------------------------------------
(* The log grows. *)

AppendUser ==
    /\ next <= MaxSerial
    /\ msgs' = Append(msgs, Msg("user", next, 0))
    /\ next' = next + 1
    /\ UNCHANGED dropped

AppendAnswer ==
    /\ next > 1 /\ next <= MaxSerial
    /\ msgs' = Append(msgs, Msg("assistant", next, 0))
    /\ next' = next + 1
    /\ UNCHANGED dropped

\* An assistant message with n calls and the n results.
Round(first, n) ==
    [i \in 1..(n + 1) |-> IF i = 1 THEN Msg("assistant", first, n)
                          ELSE Msg("tool", first + i - 1, 0)]

AppendRound(n) ==
    /\ next > 1 /\ next + n <= MaxSerial
    /\ msgs' = msgs \o Round(next, n)
    /\ next' = next + n + 1
    /\ UNCHANGED dropped
-----------------------------------------------------------------------------
(* LLMSummaryCompactor.Compact.  Cut points are counted as in the code: a   *)
(* cut c stands between message c and message c + 1.                        *)

forwardToSafeBoundaryMutant(m, cut) == cut
\* forwardToSafeBoundary: past any tool messages.
forwardToSafeBoundary(m, cut) ==
    IF cut >= Len(m) THEN cut
    ELSE CHOOSE c \in cut..Len(m) :
            /\ \A i \in (cut + 1)..c : m[i].role = "tool"
            /\ c = Len(m) \/ m[c + 1].role # "tool"

\* backUpToSafeBoundary: back over tool messages to the message they follow,
\* and one further when that one (or the one first cut at) makes tool calls.
backUpToSafeBoundary(m, cut) ==
    IF cut <= 0 \/ cut >= Len(m) THEN cut
    ELSE LET back == CHOOSE c \in 0..cut :
                        /\ \A i \in (c + 2)..(cut + 1) : m[i].role = "tool"
                        /\ c = 0 \/ m[c + 1].role # "tool"
         IN IF back > 0 /\ m[back + 1].calls > 0 THEN back - 1 ELSE back

\* The leading system messages.
SystemHead(m) ==
    CHOOSE n \in 0..Len(m) :
        /\ \A i \in 1..n : m[i].role = "system"
        /\ n = Len(m) \/ m[n + 1].role # "system"

\* min(keepLast, 4, room), never below 1; left alone when there is no room.
keepLastForBytePressure(nonSystem, keepFirst, keepLast) ==
    LET room == nonSystem - keepFirst - 2
        most == IF keepLast > 4 THEN 4 ELSE keepLast
    IN  IF room <= 0 THEN keepLast ELSE IF most > room THEN room ELSE most

\* A summary left by an earlier pass follows the head.
HasPrevSummary(m, headEnd) == headEnd < Len(m) /\ m[headEnd + 1].role = "summary"

\* Where Compact cuts the log m.
HeadEnd(m, keepFirst) == forwardToSafeBoundary(m, SystemHead(m) + keepFirst)
SummaryEnd(m, keepFirst) ==
    LET headEnd == HeadEnd(m, keepFirst)
    IN  IF HasPrevSummary(m, headEnd) THEN headEnd + 1 ELSE headEnd
TailStart(m, keepLast) == backUpToSafeBoundary(m, Len(m) - keepLast)

\* Compact does not return early.
WorthCompacting(m, keepFirst, keepLast) ==
    /\ Len(m) - SystemHead(m) > keepFirst + keepLast + 1
    /\ TailStart(m, keepLast) > SummaryEnd(m, keepFirst)

\* The serials of the events the summarizer is shown: those of the messages
\* after the cut "from", and everything an earlier summary among them stands for.
Shown(m, from, to) ==
    {m[i].serial : i \in (from + 1)..to} \cup UNION {m[i].covers : i \in (from + 1)..to}

\* summarize: the previous summary is always part of the prompt; of the middle the
\* newest events are, all of them unless the prompt budget or the retries
\* after an overflow leave out the oldest.
SummaryOf(m, keepFirst, keepLast, from) ==
    LET end == SummaryEnd(m, keepFirst)
        prev == IF HasPrevSummary(m, HeadEnd(m, keepFirst))
                THEN m[end].covers ELSE {}
    IN  Summary(prev \cup Shown(m, from, TailStart(m, keepLast)))

\* The head, the new summary and the tail.
Compact(m, keepFirst, keepLast, from) ==
    SubSeq(m, 1, HeadEnd(m, keepFirst))
        \o <<SummaryOf(m, keepFirst, keepLast, from)>>
        \o SubSeq(m, TailStart(m, keepLast) + 1, Len(m))
-----------------------------------------------------------------------------
(* maybeCompactWithReason and its callers. *)

DefaultKeepFirst == 2

\* shouldCompact with its triggers, and the limits that go with it.  Whether the
\* byte trigger is exceeded is not known here.
ThresholdLimits(m) ==
    {[first |-> DefaultKeepFirst, last |-> l] : l \in
        (IF TriggerMsgs > 0 /\ Len(m) <= TriggerMsgs THEN {} ELSE {KeepLastMsgs})
        \cup {keepLastForBytePressure(Len(m) - SystemHead(m), DefaultKeepFirst,
                                      KeepLastMsgs)}}

\* The emergency copy of the compactor: no triggers, keepLast halved when above 4.
EmergencyLimits(keepFirst) ==
    [first |-> keepFirst, last |-> IF KeepLastMsgs > 4 THEN KeepLastMsgs \div 2
                                   ELSE KeepLastMsgs]

\* One pass.  The result is used when it is shorter, by count or by bytes, and
\* Replace succeeds; otherwise the log stays as it is.
CompactWith(limits) ==
    /\ WorthCompacting(msgs, limits.first, limits.last)
    /\ \E from \in SummaryEnd(msgs, limits.first)..(TailStart(msgs, limits.last) - 1) :
          LET kept == SummaryEnd(msgs, limits.first) = from
              after == Compact(msgs, limits.first, limits.last, from)
          IN  /\ kept \/ SummaryDrops
              /\ Len(after) <= Len(msgs)
              /\ msgs' = after
              /\ dropped' = (dropped \/ ~kept)
    /\ UNCHANGED next

\* compactBeforeRequest below the request limit.
ThresholdCompaction == \E limits \in ThresholdLimits(msgs) : CompactWith(limits)

\* A context overflow (runStep), or the input budget of the turn (runTurn).
OverflowCompaction == CompactWith(EmergencyLimits(DefaultKeepFirst))

\* compactRequestPressureUntilDiminishing: up to two passes, each a step of its own
\* here, that keep only the first message.
PressureCompaction == CompactWith(EmergencyLimits(1))

Next ==
    \/ AppendUser \/ AppendAnswer
    \/ \E n \in 1..MaxBatch : AppendRound(n)
    \/ ThresholdCompaction \/ OverflowCompaction \/ PressureCompaction

Spec == Init /\ [][Next]_vars
-----------------------------------------------------------------------------
(* Properties. *)

\* Every tool call in the log keeps its results right behind it, one per call,
\* however often the log was compacted: neither the head nor the tail that
\* Compact keeps ends inside a round (compaction.go, forwardToSafeBoundary).
CallsAnswered ==
    \A i \in 1..Len(msgs) :
        /\ i + msgs[i].calls <= Len(msgs)
        /\ \A j \in 1..msgs[i].calls : msgs[i + j].role = "tool"

\* The task the session began with is never summarised away: the first message
\* after the system prompt is the first one a user sent (KeepFirst).
TaskKept ==
    next > 1 => /\ Len(msgs) > 1
                /\ msgs[1].role = "system"
                /\ msgs[2].serial = 1

\* A compaction neither repeats nor reorders messages: the serials of the
\* messages left in the log increase, and no message that a summary stands
\* for comes after it (head, middle and tail never overlap).
InOrder ==
    \A i, j \in 1..Len(msgs) :
        i < j => /\ msgs[i].role # "summary" /\ msgs[j].role # "summary"
                       => msgs[i].serial < msgs[j].serial
                 /\ msgs[i].role = "summary" /\ msgs[j].role # "summary"
                       => \A s \in msgs[i].covers : s < msgs[j].serial

\* Rolling summaries forget nothing: as long as the summarizer could be shown all
\* of the middle, every message ever appended is in the log or was shown to
\* the summarizer whose text, directly or through later summaries, is there.
NothingForgotten ==
    ~dropped => \A s \in 1..(next - 1) :
                    \E i \in 1..Len(msgs) : s = msgs[i].serial \/ s \in msgs[i].covers

\* "every assistant message with ToolCalls must be immediately followed by exactly
\* one role=tool message per call_id": each tool message belongs to a call
\* (the contract of Compactor, compaction.go).
RepliesHaveCalls ==
    \A i \in 1..Len(msgs) : msgs[i].role = "tool" =>
        \E k \in 1..(i - 1) : msgs[k].calls >= i - k

\* "single rolling summary": the log never holds two (LLMSummaryCompactor).
SingleSummary ==
    Cardinality({i \in 1..Len(msgs) : msgs[i].role = "summary"}) <= 1
=============================================================================
