------------------------------ MODULE MCLiveness ------------------------------
(***************************************************************************)
(* What the components owe, on small instances and under the fairness      *)
(* their goroutines justify. A behaviour picks a scene, one component with *)
(* one choice of its constants, and runs it alone. A scene never changes,  *)
(* so the strong fairness of several scenes is stated as one formula.      *)
(***************************************************************************)
EXTENDS Integers

VARIABLES scene,
          v1, v2, v3, v4, v5, v6, v7, v8, v9, v10, v11, v12, v13, v14, v15,
          v16, v17, v18, v19, v20, v21

vars == <<scene,
         v1, v2, v3, v4, v5, v6, v7, v8, v9, v10, v11, v12, v13, v14, v15,
         v16, v17, v18, v19, v20, v21>>

Sched == INSTANCE Schedules WITH
    MaxCreated <- 1, MaxSchedules <- 2, Intervals <- {1}, RetryDelay <- 1,
    Horizon <- 2, MaxTurns <- 2, MaxEdits <- 0,
    file <- v1, created <- v2, now <- v3, sweep <- v4, claims <- v5,
    turn <- v6, events <- v7, active <- v8, seen <- v9, ending <- v10,
    loopOn <- v11, turns <- v12, edits <- v13, done <- v14

Events == INSTANCE EventStream WITH
    MaxEvents <- 3, MaxOpens <- 2, MaxConnects <- 3, MaxRewrites <- 0,
    Buffer <- 2, PageLimit <- 2, WriteFaults <- FALSE,
    file <- v1, open <- v2, session <- v3, up <- v4, nextLine <- v5,
    stuck <- v6, event <- v7, sending <- v8, pc <- v9, holds <- v10,
    channel <- v11, closed <- v12, replay <- v13, cursor <- v14, last <- v15,
    seen <- v16, joined <- v17, dropped <- v18, connects <- v19, edits <- v20

Mcp == INSTANCE McpClient WITH
    Callers <- {"c1", "c2"}, PipeCap <- 1, OutCap <- 1, MaxFrames <- 1,
    Cancels <- TRUE, Server <- {"huge", "note", "dies", "late"},
    pc <- v1, id <- v2, result <- v3, ctx <- v4, nextID <- v5, pending <- v6,
    reply <- v7, shut <- v8, closer <- v9, wclosed <- v10, stdin <- v11,
    got <- v12, stdout <- v13, frames <- v14, alive <- v15, reader <- v16,
    frame <- v17, out <- v18, outShut <- v19, loop <- v20, panicked <- v21

Http == INSTANCE McpHttp WITH
    Posts <- {1, 2}, OutCap <- 1, MaxFrames <- 2, Sids <- {"s1", "s2"},
    InitGivesId <- TRUE,
    pc <- v1, given <- v2, body <- v3, drain <- v4, frames <- v5, sid <- v6,
    out <- v7, closed <- v8, closer <- v9, panicked <- v10

Memory == INSTANCE MemoryStore WITH
    Stores <- {"s1", "s2", "s3"}, Topics <- {"general"}, Core <- "core",
    General <- "general", Contents <- {3, 4}, Ops <- {"add"},
    Migrations <- FALSE, Deaths <- TRUE, CharLimit <- 12, MaxTopics <- 1,
    MaxInodes <- 1,
    file <- v1, legacy <- v2, lockAt <- v3, inodes <- v4, holder <- v5,
    store <- v6, saved <- v7

Shell == INSTANCE Executor WITH
    Backend <- "docker", Forks <- FALSE, OutputCap <- 2, MaxOutput <- 8,
    pc <- v1, child <- v2, code <- v3, command <- v4, helper <- v5,
    ctx <- v6, written <- v7, buf <- v8, dropped <- v9, result <- v10

SubStop == INSTANCE Subagent WITH
    MaxDepth <- 2, Levels <- 2, Capacity <- 2, MaxCalls <- 1, MaxSaid <- 1,
    kind <- v1, call <- v2, turn <- v3, reason <- v4, stop <- v5, chan <- v6,
    said <- v7, last <- v8, heard <- v9, result <- v10, held <- v11,
    calls <- v12

Sub == INSTANCE Subagent WITH
    MaxDepth <- 0, Levels <- 2, Capacity <- 3, MaxCalls <- 1, MaxSaid <- 1,
    kind <- v1, call <- v2, turn <- v3, reason <- v4, stop <- v5, chan <- v6,
    said <- v7, last <- v8, heard <- v9, result <- v10, held <- v11,
    calls <- v12

Verify == INSTANCE VerifyGuard WITH
    MaxTurns <- 1, MaxCalls <- 2, Skips <- TRUE, Recovers <- TRUE,
    Compacts <- TRUE,
    log <- v1, turn <- v2, calls <- v3, phase <- v4, interventions <- v5,
    blocked <- v6, did <- v7

Stream == INSTANCE LlmStream WITH
    Style <- "indexed", MaxCalls <- 1, MaxArgs <- 1, MaxText <- 1,
    Buffer <- 1,
    sent <- v1, server <- v2, wire <- v3, body <- v4, calls <- v5,
    text <- v6, finishSeen <- v7, reader <- v8, out <- v9, chan <- v10,
    ctx <- v11, shown <- v12, got <- v13, failed <- v14, result <- v15

Cache == INSTANCE ResponseCache WITH
    Writers <- {"w1", "w2"}, Readers <- {}, TTL <- 1, MaxTime <- 3,
    Overlap <- TRUE, Faults <- FALSE,
    now <- v1, meta <- v2, body <- v3, mu <- v4, fetched <- v5, writer <- v6,
    reader <- v7, seen <- v8, served <- v9, sweep <- v10, cutoff <- v11

Net == INSTANCE NetworkEvidence WITH
    Responses <- {"r1", "r2"}, Sites <- {"s1"}, MaxPages <- 2, Slots <- 1,
    Cap <- 2, Iframes <- TRUE, Navigates <- TRUE,
    pages <- v1, logPage <- v2, logSite <- v3, resp <- v4, of <- v5,
    pendingReads <- v6, entries <- v7, next <- v8, named <- v9,
    waiting <- v10, listed <- v11

Store == <<"s1", "s2", "s3">>

\* The constants are as each component assumes them.
ASSUME MCLivenessAssumption ==
    /\ Sched!ScheduleAssumption
    /\ Events!EventStreamAssumption
    /\ Mcp!McpAssumption
    /\ Http!McpHttpAssumption
    /\ Http!SidAssumption
    /\ Memory!MemoryBounds
    /\ Shell!ExecBounds
    /\ SubStop!SubagentAssumption
    /\ Sub!SubagentAssumption
    /\ Verify!VerifyGuardAssumption
    /\ Stream!LlmStreamAssumption
    /\ Cache!ResponseCacheAssumption
    /\ Net!NetworkEvidenceAssumption

\* Registers a scene does not use stay 0: after the first k.
Unused7 ==
    /\ v8 = 0 /\ v9 = 0 /\ v10 = 0 /\ v11 = 0 /\ v12 = 0 /\ v13 = 0
    /\ v14 = 0 /\ v15 = 0 /\ v16 = 0 /\ v17 = 0 /\ v18 = 0 /\ v19 = 0
    /\ v20 = 0 /\ v21 = 0

Same7 == UNCHANGED <<scene, v8, v9, v10, v11, v12, v13, v14, v15, v16, v17,
                      v18, v19, v20, v21>>

Unused10 ==
    /\ v11 = 0 /\ v12 = 0 /\ v13 = 0 /\ v14 = 0 /\ v15 = 0 /\ v16 = 0
    /\ v17 = 0 /\ v18 = 0 /\ v19 = 0 /\ v20 = 0 /\ v21 = 0

Same10 == UNCHANGED <<scene, v11, v12, v13, v14, v15, v16, v17, v18, v19,
                      v20, v21>>

Unused11 ==
    /\ v12 = 0 /\ v13 = 0 /\ v14 = 0 /\ v15 = 0 /\ v16 = 0 /\ v17 = 0
    /\ v18 = 0 /\ v19 = 0 /\ v20 = 0 /\ v21 = 0

Same11 == UNCHANGED <<scene, v12, v13, v14, v15, v16, v17, v18, v19, v20, v21>>

Unused12 ==
    /\ v13 = 0 /\ v14 = 0 /\ v15 = 0 /\ v16 = 0 /\ v17 = 0 /\ v18 = 0
    /\ v19 = 0 /\ v20 = 0 /\ v21 = 0

Same12 == UNCHANGED <<scene, v13, v14, v15, v16, v17, v18, v19, v20, v21>>

Unused14 ==
    /\ v15 = 0 /\ v16 = 0 /\ v17 = 0 /\ v18 = 0 /\ v19 = 0 /\ v20 = 0
    /\ v21 = 0

Same14 == UNCHANGED <<scene, v15, v16, v17, v18, v19, v20, v21>>

Unused15 ==
    /\ v16 = 0 /\ v17 = 0 /\ v18 = 0 /\ v19 = 0 /\ v20 = 0 /\ v21 = 0

Same15 == UNCHANGED <<scene, v16, v17, v18, v19, v20, v21>>

Unused20 ==
    /\ v21 = 0

Same20 == UNCHANGED <<scene, v21>>

Same21 == UNCHANGED <<scene>>

Init ==
    \/ scene = "schedules" /\ Sched!Init /\ Unused14
    \/ scene = "events" /\ Events!Init /\ Unused20
    \/ scene = "mcp" /\ Mcp!Init
    \/ scene = "mcp_http" /\ Http!Init /\ Unused10
    \/ scene = "memory" /\ Memory!Init /\ Unused7
    \/ scene = "shell" /\ Shell!Init /\ Unused10
    \/ scene = "subagents_stopped" /\ SubStop!Init /\ Unused12
    \/ scene = "subagents" /\ Sub!Init /\ Unused12
    \/ scene = "verify" /\ Verify!Init /\ Unused7
    \/ scene = "stream" /\ Stream!Init /\ Unused15
    \/ scene = "cache" /\ Cache!Init /\ Unused11
    \/ scene = "network" /\ Net!Init /\ Unused11

\* These scenes come to an end at their bounds.
Stop ==
    /\ scene \in {"schedules", "events", "mcp", "mcp_http", "memory", "shell"}
    /\ UNCHANGED vars

Next ==
    \/ scene = "schedules" /\ Sched!Next /\ Same14
    \/ scene = "events" /\ Events!Next /\ Same20
    \/ scene = "mcp" /\ Mcp!Next /\ Same21
    \/ scene = "mcp_http" /\ Http!Next /\ Same10
    \/ scene = "memory" /\ Memory!Next /\ Same7
    \/ scene = "shell" /\ Shell!Next /\ Same10
    \/ scene = "subagents_stopped" /\ SubStop!Next /\ Same12
    \/ scene = "subagents" /\ Sub!Next /\ Same12
    \/ scene = "verify" /\ Verify!Next /\ Same7
    \/ scene = "stream" /\ (Stream!Next \/ Stream!callCancel) /\ Same15
    \/ scene = "cache" /\ Cache!Next /\ Same11
    \/ scene = "network" /\ Net!Next /\ Same11
    \/ Stop

Spec ==
    /\ Init /\ [][Next]_vars
    /\ WF_vars(scene = "schedules" /\ Sched!Sweep /\ Same14)
    /\ WF_vars(scene = "schedules" /\ Sched!Work /\ Same14)
    /\ WF_vars(scene = "schedules" /\ Sched!Tick /\ Same14)
    /\ WF_vars(scene = "events" /\ Events!Send /\ Same20)
    /\ WF_vars(scene = "events" /\ Events!Subscribe /\ Same20)
    /\ WF_vars(scene = "events" /\ Events!ReplayPage /\ Same20)
    /\ WF_vars(scene = "events" /\ Events!Deliver /\ Same20)
    /\ WF_vars(scene = "events" /\ Events!StreamEnds /\ Same20)
    /\ WF_vars(scene = "events" /\ Events!Connect(TRUE) /\ Same20)
    /\ \A c \in {"c1", "c2"} :
         /\ WF_vars(scene = "mcp" /\ Mcp!Register(c) /\ Same21)
         /\ WF_vars(scene = "mcp" /\ Mcp!Send(c) /\ Same21)
         /\ WF_vars(scene = "mcp" /\ Mcp!Wait(c) /\ Same21)
    /\ WF_vars(scene = "mcp" /\ Mcp!Read /\ Same21)
    /\ WF_vars(scene = "mcp" /\ Mcp!Forward /\ Same21)
    /\ WF_vars(scene = "mcp" /\ Mcp!Dispatch /\ Same21)
    /\ WF_vars(scene = "mcp" /\ Mcp!LoopEnds /\ Same21)
    /\ WF_vars(scene = "mcp" /\ Mcp!DiesClosed /\ Same21)
    /\ WF_vars(scene = "mcp" /\ Mcp!CloseWaits /\ Same21)
    /\ WF_vars(scene = "mcp" /\ Mcp!CloseOut /\ Same21)
    /\ WF_vars(scene = "mcp" /\ Mcp!ClosePending /\ Same21)
    /\ \A p \in {1, 2} :
         /\ WF_vars(scene = "mcp_http" /\ Http!Check(p) /\ Same10)
         /\ WF_vars(scene = "mcp_http" /\ Http!Respond(p) /\ Same10)
         /\ WF_vars(scene = "mcp_http" /\ Http!Pin(p) /\ Same10)
         /\ WF_vars(scene = "mcp_http" /\ Http!EmitJSON(p) /\ Same10)
         /\ WF_vars(scene = "mcp_http" /\ Http!StreamEmit(p) /\ Same10)
    /\ WF_vars(scene = "mcp_http" /\ Http!CloseOut /\ Same10)
    /\ \A p \in {"s1", "s2", "s3"} :
         /\ WF_vars(scene = "memory" /\ Memory!Steps(p) /\ Same7)
    /\ WF_vars(scene = "shell" /\ Shell!Kill /\ Same10)
    /\ WF_vars(scene = "shell" /\ Shell!Return /\ Same10)
    /\ \A d \in SubStop!Depths :
         /\ WF_vars(scene = "subagents_stopped" /\ SubStop!SendUser(d) /\ Same12)
         /\ WF_vars(scene = "subagents_stopped" /\ SubStop!drainSubagent(d) /\ Same12)
         /\ WF_vars(scene = "subagents_stopped" /\ SubStop!drainCancelled(d) /\ Same12)
         /\ WF_vars(scene = "subagents_stopped" /\ SubStop!StopEnds(d) /\ Same12)
    /\ \A d \in Sub!Depths :
         /\ WF_vars(scene = "subagents" /\ Sub!SendUser(d) /\ Same12)
         /\ WF_vars(scene = "subagents" /\ Sub!drainSubagent(d) /\ Same12)
         /\ WF_vars(scene = "subagents" /\ Sub!drainCancelled(d) /\ Same12)
         /\ WF_vars(scene = "subagents" /\ Sub!TurnEnds(d) /\ Same12)
    /\ WF_vars(scene = "verify" /\ Verify!Finish /\ Same7)
    /\ WF_vars(scene = "stream" /\ Stream!ReadChunk /\ Same15)
    /\ WF_vars(scene = "stream" /\ Stream!ReadClosed /\ Same15)
    /\ WF_vars(scene = "stream" /\ Stream!Watchdog /\ Same15)
    /\ WF_vars(scene = "stream" /\ Stream!EmitEvent /\ Same15)
    /\ WF_vars(scene = "stream" /\ Stream!Consume /\ Same15)
    /\ WF_vars(scene = "stream" /\ Stream!ConsumeEnd /\ Same15)
    /\ WF_vars(scene = "stream" /\ Stream!callCancel /\ Same15)
    /\ WF_vars(scene = "cache" /\ Cache!Tick /\ Same11)
    /\ WF_vars(scene = "cache" /\ Cache!SweepLook /\ Same11)
    /\ WF_vars(scene = "cache" /\ Cache!SweepBody /\ Same11)
    /\ \A w \in {"w1", "w2"} :
         /\ WF_vars(scene = "cache" /\ Cache!PutBody(w) /\ Same11)
         /\ WF_vars(scene = "cache" /\ Cache!PutMeta(w) /\ Same11)
    /\ WF_vars(scene = "network" /\ Net!SnapshotEnds /\ Same11)
    /\ SF_vars(\/ scene = "mcp_http" /\ Http!StreamEnds(1) /\ Same10
               \/ scene = "memory" /\ Memory!Flock("s1") /\ Same7
               \/ scene = "cache" /\ Cache!SweepVerify /\ Same11)
    /\ SF_vars(\/ scene = "mcp_http" /\ Http!StreamEnds(2) /\ Same10
               \/ scene = "memory" /\ Memory!Flock("s2") /\ Same7
               \/ scene = "cache" /\ Cache!PutLock("w1") /\ Same11)
    /\ SF_vars(\/ scene = "memory" /\ Memory!Flock("s3") /\ Same7
               \/ scene = "cache" /\ Cache!PutLock("w2") /\ Same11)

-----------------------------------------------------------------------------
\* Whoever waits for a call gets its end: the callers of an MCP client that
\* is closed, though the server is silent; the close of the HTTP transport; a
\* docker command past its time limit; the call that delegates to a subagent;
\* the final answer, once the rounds of its guard are spent; the caller of
\* the model, whatever the provider does; a snapshot of the network evidence,
\* though Chrome never answers.
CallsReturn ==
    \A d \in Sub!Depths :
      (\/ scene = "mcp" /\ Mcp!Closing
       \/ scene = "mcp_http" /\ Http!Closing
       \/ scene = "shell" /\ Shell!Overdue
       \/ scene = "subagents" /\ Sub!Draining(d)
       \/ scene = "verify" /\ Verify!Spent
       \/ scene = "stream" /\ ~Stream!Answered
       \/ scene = "network" /\ Net!Waits)
      ~> (\/ scene = "mcp" /\ Mcp!AllRejected
          \/ scene = "mcp_http" /\ Http!Closed
          \/ scene = "shell" /\ Shell!Returned
          \/ scene = "subagents" /\ Sub!Drained(d)
          \/ scene = "verify" /\ Verify!Answers
          \/ scene = "stream" /\ Stream!Answered
          \/ scene = "network" /\ ~Net!Waits)

\* The goroutine that reads a stream ends, also when the loop left with
\* events unread.
ReaderEnds == <>[](scene = "stream" => Stream!ReaderEnded)

\* A cancelled turn stops the subagents below it.
CancelReachesAll ==
    (scene = "subagents_stopped" /\ SubStop!Stopping) ~> (scene = "subagents_stopped" /\ SubStop!AllStopped)

\* Nothing is left waiting: a due schedule runs, or is paused, deleted or
\* moved; a client that stays or comes back gets every event that was
\* written; a store that waits for a topic's lock gets it, though others die
\* holding it; what is expired in the cache is swept away.
NothingWaitsForEver ==
    \A k \in 1..3 :
      (\/ scene = "schedules" /\ Sched!Waiting(1)
       \/ scene = "events" /\ Events!Owed(k)
       \/ scene = "memory" /\ Memory!Waits(Store[k])
       \/ scene = "cache" /\ Cache!Stale)
      ~> (\/ scene = "schedules" /\ Sched!Served(1)
          \/ scene = "events" /\ Events!Paid(k)
          \/ scene = "memory" /\ ~Memory!Waits(Store[k])
          \/ scene = "cache" /\ ~Cache!Stale)
=============================================================================
