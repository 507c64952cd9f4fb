---------------------------- MODULE EventStream -----------------------------
(***************************************************************************)
(* The event stream of one session: the fanout goroutine that numbers,     *)
(* records and sends events (cmd/affentserve/sessions.go), events.jsonl,   *)
(* and one client of GET /v1/sessions/{id}/events that disconnects and     *)
(* reconnects with the Last-Event-ID it saw (cmd/affentserve/events.go).   *)
(*                                                                         *)
(* events.jsonl is a sequence of lines, line n at index n + 1.  An event   *)
(* is a serial number; Meta is the header line and Torn a line that is not *)
(* JSON.  Session objects of the id are numbered: a closed session's       *)
(* channels are closed and the next GetOrCreate opens a new object.        *)
(***************************************************************************)
EXTENDS Integers, Sequences, Functions, FiniteSets

CONSTANTS
    MaxEvents,   \* bound: events the loop publishes
    MaxOpens,    \* bound: session objects of the id
    MaxConnects, \* bound: connections of the client
    MaxRewrites, \* bound: message edits
    Buffer,      \* capacity of the subscription channel (256)
    PageLimit,   \* maxHistoryLimit (500)
    WriteFaults  \* may a write to events.jsonl fail

EventStreamAssumption ==
    /\ {MaxEvents, MaxOpens, MaxConnects, MaxRewrites} \subseteq Nat
    /\ Buffer \in Nat \ {0} /\ PageLimit \in Nat \ {0}
    /\ WriteFaults \in BOOLEAN

Meta == 0
Torn == -1

VARIABLES
    file,      \* the lines of events.jsonl
    open,      \* the last line has no newline
    session,   \* number of the current session object
    up,        \* is it open
    nextLine,  \* Session.nextEventLine
    stuck,     \* json.Encoder keeps the first write error
    event,     \* serial of the last event published
    sending,   \* the event that is recorded and not yet sent, a set
    pc,        \* the client's handler: "off", "found", "replay", "live"
    holds,     \* the session object the handler found
    channel,   \* its subscription channel
    closed,    \* is that channel closed
    replay,    \* did the client send Last-Event-ID
    cursor,    \* replayedThrough
    last,      \* Last-Event-ID: the id of the last event the client saw
    seen,      \* what the client saw: <<id, event>> pairs
    joined,    \* the client has always sent the id it saw, and -1 at first
    dropped,   \* events a full channel dropped
    connects, edits

vars == <<file, open, session, up, nextLine, stuck, event, sending, pc, holds,
          channel, closed, replay, cursor, last, seen, joined, dropped,
          connects, edits>>
disk == <<file, open>>
writer == <<session, up, nextLine, stuck>>
handler == <<pc, holds, channel, closed, replay, cursor>>
client == <<last, seen, joined, connects>>

Pair == (0..(MaxEvents + MaxOpens)) \X (Meta..MaxEvents)

TypeOK ==
    /\ file \in Seq(Torn..MaxEvents) /\ open \in BOOLEAN
    /\ session \in 0..MaxOpens /\ up \in BOOLEAN
    /\ nextLine \in Nat /\ stuck \in BOOLEAN
    /\ event \in 0..MaxEvents /\ sending \subseteq Pair
    /\ pc \in {"off", "found", "replay", "live"} /\ holds \in 0..MaxOpens
    /\ channel \in Seq(Pair) /\ Len(channel) <= Buffer /\ closed \in BOOLEAN
    /\ replay \in BOOLEAN /\ cursor \in Int /\ last \in Int
    /\ seen \in Seq(Pair) /\ joined \in BOOLEAN
    /\ dropped \subseteq 1..MaxEvents
    /\ connects \in 0..MaxConnects /\ edits \in 0..MaxRewrites

Init ==
    /\ file = <<>> /\ open = FALSE
    /\ session = 0 /\ up = FALSE /\ nextLine = 0 /\ stuck = FALSE
    /\ event = 0 /\ sending = {}
    /\ pc = "off" /\ holds = 0 /\ channel = <<>> /\ closed = FALSE
    /\ replay = FALSE /\ cursor = -1 /\ last = -1
    /\ seen = <<>> /\ joined = FALSE /\ dropped = {}
    /\ connects = 0 /\ edits = 0
-----------------------------------------------------------------------------
(* The writer. *)

\* countJSONLLines: a last line without a newline counts.
countJSONLLines(f) == Len(f)

\* openSessionEventLog: a new file gets the meta header; an old one is counted.
openSessionEventLog ==
    /\ ~up
    /\ session < MaxOpens
    /\ session' = session + 1
    /\ up' = TRUE
    /\ stuck' = FALSE
    /\ file' = IF file = <<>> THEN <<Meta>> ELSE file
    /\ nextLine' = countJSONLLines(file')
    /\ open' = open

\* GetOrCreate of any other request.
Open ==
    /\ openSessionEventLog
    /\ UNCHANGED <<event, sending, handler, client, dropped, edits>>

\* The file after a whole line was written: behind a line without a newline
\* both are one line that is not JSON.
Appended(f, e) == IF open THEN [f EXCEPT ![Len(f)] = Torn] ELSE Append(f, e)

\* Recorder.Write on the session's json.Encoder: a failed write may leave a
\* part of the line, and makes every later write of this encoder fail.
Write(e) ==
    \/ ~stuck /\ file' = Appended(file, e) /\ open' = FALSE /\ stuck' = FALSE
    \/ stuck /\ UNCHANGED <<file, open, stuck>>
    \/ WriteFaults /\ ~stuck /\ stuck' = TRUE
       /\ \/ UNCHANGED <<file, open>>
          \/ file' = Appended(file, Torn) /\ open' = TRUE

\* dispatchSessionEvent up to the subscriptions: the number is taken before the
\* line is written, and a failed write is only logged.
Record ==
    /\ up /\ sending = {} /\ event < MaxEvents
    /\ event' = event + 1
    /\ nextLine' = nextLine + 1
    /\ Write(event')
    /\ sending' = {<<nextLine, event'>>}
    /\ UNCHANGED <<session, up, handler, client, dropped, edits>>

\* The client is subscribed to the session that is open.
Subscribed == pc \in {"replay", "live"} /\ ~closed /\ holds = session

\* The rest of dispatchSessionEvent: a send that does not block.
Send ==
    /\ sending # {}
    /\ sending' = {}
    /\ \E p \in sending :
         /\ channel' = IF Subscribed /\ Len(channel) < Buffer
                       THEN Append(channel, p) ELSE channel
         /\ dropped' = IF Subscribed /\ Len(channel) >= Buffer
                       THEN dropped \cup {p[2]} ELSE dropped
    /\ UNCHANGED <<disk, writer, event, pc, holds, closed, replay, cursor,
                   client, edits>>

\* Close waits for fanout, which closes every subscription.
CloseSession ==
    /\ up /\ sending = {}
    /\ up' = FALSE
    /\ closed' = (closed \/ Subscribed)

\* Idle eviction, shutdown, restart of the server.
Close ==
    /\ CloseSession
    /\ UNCHANGED <<disk, session, nextLine, stuck, event, sending, pc, holds,
                   channel, replay, cursor, client, dropped, edits>>

\* truncateSessionForMessageEdit: the session is closed, and events.jsonl is
\* rewritten with the lines before those of the edited turn, each with its
\* newline.
Edit ==
    /\ edits < MaxRewrites
    /\ edits' = edits + 1
    /\ CloseSession
    /\ \E n \in 1..(Len(file) - 1) : file' = SubSeq(file, 1, n)
    /\ open' = FALSE
    /\ UNCHANGED <<session, nextLine, stuck, event, sending, pc, holds,
                   channel, replay, cursor, client, dropped>>
-----------------------------------------------------------------------------
(* The client and handleSessionEvents. *)

\* sessionEventLogLastCursor.
lastCursor == countJSONLLines(file) - 1

\* A request with or without Last-Event-ID.  A cursor ahead of the file is
\* refused; the session is found or opened.
Connect(withID) ==
    /\ pc = "off" /\ connects < MaxConnects
    /\ connects' = connects + 1
    /\ replay' = withID
    /\ cursor' = IF withID THEN last ELSE -1
    /\ withID => last <= lastCursor
    /\ IF up THEN UNCHANGED <<disk, writer>> ELSE openSessionEventLog
    /\ holds' = session'
    /\ pc' = "found"
    /\ joined' = (withID /\ (joined \/ last = -1))
    /\ UNCHANGED <<event, sending, channel, closed, last, seen, dropped, edits>>

\* The 409 answer.
RefuseCursor ==
    /\ pc = "off" /\ connects < MaxConnects
    /\ last > lastCursor
    /\ connects' = connects + 1
    /\ UNCHANGED <<disk, writer, event, sending, handler, last, seen, joined,
                   dropped, edits>>

\* Subscribe: a closed session gives a closed channel.
Subscribe ==
    /\ pc = "found"
    /\ channel' = <<>>
    /\ closed' = ~(up /\ holds = session)
    /\ pc' = IF replay THEN "replay" ELSE "live"
    /\ UNCHANGED <<disk, writer, event, sending, holds, replay, cursor, client,
                   dropped, edits>>

\* The request ends: Unsubscribe.
Leave == pc' = "off" /\ channel' = <<>> /\ closed' = FALSE

\* The client goes away, whatever the handler does; what is in the channel is
\* lost.
Disconnect ==
    /\ pc # "off"
    /\ Leave
    /\ UNCHANGED <<disk, writer, event, sending, holds, replay, cursor, client,
                   dropped, edits>>

\* The lines behind the cursor that are JSON.
Readable(after) == {i \in DOMAIN file : i - 1 > after /\ file[i] # Torn}

\* The n-th of some lines.
Nth(lines, n) ==
    CHOOSE i \in lines : Cardinality({j \in lines : j <= i}) = n

\* Mutant: a page that is full is taken for the last one.
PageMutant(after) ==
    LET good == Readable(after)
        size == IF Cardinality(good) < PageLimit THEN Cardinality(good) ELSE PageLimit
    IN  [records |-> [n \in 1..size |-> <<Nth(good, n) - 1, file[Nth(good, n)]>>],
         hasMore |-> FALSE]

\* readSessionHistoryPage: the first lines after the cursor that are JSON.
Page(after) ==
    LET good == Readable(after)
        size == IF Cardinality(good) < PageLimit THEN Cardinality(good) ELSE PageLimit
    IN  [records |-> [n \in 1..size |-> <<Nth(good, n) - 1, file[Nth(good, n)]>>],
         hasMore |-> Cardinality(good) > PageLimit]

\* writeSSE of each record; the client keeps the id.
See(records) ==
    /\ seen' = seen \o records
    /\ last' = IF records = <<>> THEN last ELSE records[Len(records)][1]

\* One page of replaySessionEvents.
ReplayPage ==
    /\ pc = "replay"
    /\ IF cursor > lastCursor
       THEN Leave /\ UNCHANGED <<cursor, last, seen>>
       ELSE LET page == Page(cursor)
            IN  /\ See(page.records)
                /\ cursor' = IF page.records = <<>> THEN cursor
                             ELSE page.records[Len(page.records)][1]
                /\ pc' = IF page.hasMore THEN "replay" ELSE "live"
                /\ UNCHANGED <<channel, closed>>
    /\ UNCHANGED <<disk, writer, event, sending, holds, replay, joined,
                   connects, dropped, edits>>

DeliverSkipsMutant ==
    /\ pc = "live" /\ channel # <<>>
    /\ channel' = Tail(channel)
    /\ IF replay /\ Head(channel)[1] <= cursor + 1
       THEN UNCHANGED <<last, seen>>
       ELSE See(<<Head(channel)>>)
    /\ UNCHANGED <<disk, writer, event, sending, pc, holds, closed, replay,
                   cursor, joined, connects, dropped, edits>>
\* A live event: skipped when the replay had it.
Deliver ==
    /\ pc = "live" /\ channel # <<>>
    /\ channel' = Tail(channel)
    /\ IF replay /\ Head(channel)[1] <= cursor
       THEN UNCHANGED <<last, seen>>
       ELSE See(<<Head(channel)>>)
    /\ UNCHANGED <<disk, writer, event, sending, pc, holds, closed, replay,
                   cursor, joined, connects, dropped, edits>>

\* The channel is closed and empty: the stream ends.
StreamEnds ==
    /\ pc = "live" /\ channel = <<>> /\ closed
    /\ Leave
    /\ UNCHANGED <<disk, writer, event, sending, holds, replay, cursor, client,
                   dropped, edits>>

Next ==
    \/ Open \/ Record \/ Send \/ Close \/ Edit
    \/ \E withID \in BOOLEAN : Connect(withID)
    \/ RefuseCursor \/ Subscribe \/ Disconnect \/ ReplayPage \/ Deliver
    \/ StreamEnds

Spec == Init /\ [][Next]_vars

\* The handler runs; the client reads and, when its stream ends, reconnects with
\* the id it saw; nothing makes the client disconnect for ever.
FairSpec ==
    /\ Spec
    /\ WF_vars(Send) /\ WF_vars(Subscribe) /\ WF_vars(ReplayPage)
    /\ WF_vars(Deliver) /\ WF_vars(StreamEnds)
    /\ WF_vars(Connect(TRUE))
-----------------------------------------------------------------------------
(* Properties. *)

Seen == {seen[i][2] : i \in 1..Len(seen)}

\* The id of an event is the number of its line in events.jsonl, in the channel,
\* in flight and at the client ("Event IDs on this endpoint are durable
\* events.jsonl line cursors", events.go).
DurableIDs ==
    \A p \in sending \cup Range(channel) \cup Range(seen) :
       p[1] < Len(file) /\ file[p[1] + 1] = p[2]

\* However the replay and the live events interleave, and however often the
\* client reconnects with the id it saw, it sees the ids in increasing order:
\* no event comes twice and none out of order.
InOrder ==
    joined => \A i, j \in 1..Len(seen) : i < j => seen[i][1] < seen[j][1]

\* No event falls between the replay and the subscription: what lies before the
\* last event the client saw it has seen too, unless a full channel dropped it
\* ("the handler will first replay persisted events after that cursor, then
\* continue with live events", events.go).
NoGap ==
    joined =>
       \A i \in 1..Len(file) :
          i - 1 <= last /\ file[i] # Torn => file[i] \in Seen \cup dropped

\* "Subscriber is behind. Skip rather than block the loop. SSE clients can
\* reconnect with Last-Event-ID for replay" (sessions.go): what a full channel
\* drops, the client gets from the replay.
NothingMissed ==
    joined => \A i \in 1..Len(file) :
                 i - 1 <= last /\ file[i] # Torn => file[i] \in Seen

\* A client that keeps reconnecting with the id it saw sees every event that is
\* in the file, as long as the bounds leave it a connection.
Owed(e) == joined /\ e \in Range(file)

Paid(e) ==
    \/ e \in Seen \cup dropped
    \/ ~joined
    \/ pc = "off" /\ (connects = MaxConnects \/ (~up /\ session = MaxOpens))

CatchesUp == \A e \in 1..MaxEvents : Owed(e) ~> Paid(e)
=============================================================================
