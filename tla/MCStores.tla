------------------------------- MODULE MCStores -------------------------------
(***************************************************************************)
(* The durable stores on small instances. A behaviour picks a scene, one   *)
(* component with one choice of its constants, and runs it alone: the      *)
(* state spaces of the components lie side by side in one run of TLC. The  *)
(* stores of StoreParts have their own variables; the others share the     *)
(* registers v1, v2, ...                                                   *)
(***************************************************************************)
EXTENDS StoreParts

\* What a scene gives a store.
CONSTANTS Opens, Connects, FewOpens, FewConnects, Rewrites \* EventStream
CONSTANTS DirObjects, DirMessages, UserTexts, FewObjects, FewMessages,
          EditCrashes, FewTexts                         \* SessionFiles
CONSTANTS MemoryStores, MemoryTopics, Entries, MemoryLocks, OneStore,
          AllTopics, FewEntries, LockFiles              \* MemoryStore
CONSTANTS KeyReaders                                    \* Accounts
CONSTANTS LoopLines, LoopFeeds, DraftLines, HttpLines, HttpFeeds \* LoopProtocol

\* The operations of LoopProtocol in its scenes.
DraftOps == {"init", "question", "patch", "update", "activate", "close"}
LoopOps == DraftOps \cup {"feed", "reactive", "checkpoint"}
AllOps == LoopOps \cup {"proactive"}
HandlerOps == {"answer", "activate", "put", "delete", "init"}

VARIABLES
    scene, v1, v2, v3, v4, v5, v6, v7, v8, v9, v10, v11

vars == <<scene,
         file, open, session, up, nextLine, stuck, event, sending, pc, holds,
         channel, closed, replay, cursor, last, seen, joined, dropped,
         connects, edits, dir, conv, evs, inode, fresh, current, opened, mem,
         trace, turn, held, turns, editing, sweeping, purged, crashes,
         created, now, sweep, claims, events, active, ending, loopOn, done,
         legacy, lockAt, inodes, holder, store, saved, mu, raw, born, faults,
         made, doc, st, torn, job, answered, owed, v1, v2, v3, v4, v5, v6,
         v7, v8, v9, v10, v11>>

\* conversation.jsonl
Conv == INSTANCE Conversation WITH
    MaxSerial <- 8, MaxBatch <- 2, MaxCrashes <- 2, WriteFaults <- {"open"},
    MachineCrashes <- FALSE,
    lines <- v1, tail <- v2, synced <- v3, up <- v4, mem <- v5, todo <- v6,
    serial <- v7, crashes <- v8

ConvTorn == INSTANCE Conversation WITH
    MaxSerial <- 6, MaxBatch <- 2, MaxCrashes <- 2,
    WriteFaults <- {"open", "partial", "close"}, MachineCrashes <- TRUE,
    lines <- v1, tail <- v2, synced <- v3, up <- v4, mem <- v5, todo <- v6,
    serial <- v7, crashes <- v8

\* The compaction of a conversation.
Compact == INSTANCE Compaction WITH
    KeepLastMsgs <- 2, TriggerMsgs <- 6, MaxBatch <- 2, MaxSerial <- 9,
    SummaryDrops <- TRUE,
    msgs <- v1, next <- v2, dropped <- v3

\* The browser's response cache.
Cache == INSTANCE ResponseCache WITH
    Writers <- {"w1", "w2"}, Readers <- {"r1"}, TTL <- 1, MaxTime <- 3,
    Overlap <- FALSE, Faults <- FALSE,
    now <- v1, meta <- v2, body <- v3, mu <- v4, fetched <- v5, writer <- v6,
    reader <- v7, seen <- v8, served <- v9, sweep <- v10, cutoff <- v11

CacheBad == INSTANCE ResponseCache WITH
    Writers <- {"w1", "w2"}, Readers <- {"r1"}, TTL <- 1, MaxTime <- 2,
    Overlap <- FALSE, Faults <- TRUE,
    now <- v1, meta <- v2, body <- v3, mu <- v4, fetched <- v5, writer <- v6,
    reader <- v7, seen <- v8, served <- v9, sweep <- v10, cutoff <- v11

\* plan.json.
Plans == INSTANCE Plan WITH
    Texts <- {"t1", "t2", "t3"}, MaxSteps <- 2, HandEdited <- TRUE,
    Modes <- {"normal", "plan_only"}, Batches <- TRUE, Deletes <- TRUE,
    file <- v1, turn <- v2, call <- v3, request <- v4

PlanRun == INSTANCE Plan WITH
    Texts <- {"t1", "t2"}, MaxSteps <- 2, HandEdited <- FALSE,
    Modes <- {"plan_only", "execute_plan"}, Batches <- FALSE, Deletes <- TRUE,
    file <- v1, turn <- v2, call <- v3, request <- v4

\* The counters of a session.
Stats == INSTANCE SessionStats WITH
    Calls <- {1, 2}, Reuse <- FALSE, Types <- {"tools"}, TailLines <- 9,
    MaxEvents <- 6, MaxLost <- 1,
    file <- v1, live <- v2, pend <- v3, window <- v4, turn <- v5, open <- v6,
    fails <- v7, lost <- v8

StatsCmd == INSTANCE SessionStats WITH
    Calls <- {1, 2}, Reuse <- FALSE, Types <- {"tools", "command"},
    TailLines <- 9, MaxEvents <- 6, MaxLost <- 0,
    file <- v1, live <- v2, pend <- v3, window <- v4, turn <- v5, open <- v6,
    fails <- v7, lost <- v8

StatsWin == INSTANCE SessionStats WITH
    Calls <- {1}, Reuse <- FALSE, Types <- {"usage", "error", "window"},
    TailLines <- 9, MaxEvents <- 6, MaxLost <- 1,
    file <- v1, live <- v2, pend <- v3, window <- v4, turn <- v5, open <- v6,
    fails <- v7, lost <- v8

\* The task state read from the events.
Task == INSTANCE TaskState WITH
    Calls <- {"test", "commit", "edit", "read"}, Sources <- {"user"},
    Rejections <- TRUE, Surfaces <- TRUE, MaxItems <- 2, TailEvents <- 5,
    MaxEvents <- 7,
    log <- v1, open <- v2

\* The constants are as each component assumes them.
ASSUME MCStoresAssumption ==
    /\ Conv!ConversationAssumption
    /\ ConvTorn!ConversationAssumption
    /\ Compact!CompactionAssumption
    /\ Ev(Opens, Connects, 0, FALSE)!EventStreamAssumption
    /\ Ev(FewOpens, FewConnects, Rewrites, TRUE)!EventStreamAssumption
    /\ Dir(DirObjects, DirMessages, 0, UserTexts, FALSE, {})!SessionFilesAssumption
    /\ Dir(FewObjects, FewMessages, EditCrashes, FewTexts, TRUE, {"prompt", "command", "compact"})!SessionFilesAssumption
    /\ Sched!ScheduleAssumption
    /\ Mem(MemoryStores, MemoryTopics, Entries, {"add", "replace"}, MemoryLocks)!MemoryBounds
    /\ Mem({OneStore}, AllTopics, FewEntries, {"add", "replace", "remove"}, LockFiles)!MemoryBounds
    /\ Key(KeyReaders, "pair", FALSE, FALSE)!AccountsAssumption
    /\ Key(KeyReaders, "none", TRUE, TRUE)!AccountsAssumption
    /\ Key({}, "pair", TRUE, TRUE)!AccountsAssumption
    /\ Cache!ResponseCacheAssumption
    /\ CacheBad!ResponseCacheAssumption
    /\ Proto(LoopOps, {"answer"}, FALSE, FALSE, LoopLines, LoopFeeds)!LoopBounds
    /\ Proto(DraftOps, {"answer", "activate"}, TRUE, TRUE, DraftLines, 0)!LoopBounds
    /\ Proto(AllOps, HandlerOps, FALSE, FALSE, HttpLines, HttpFeeds)!LoopBounds
    /\ Plans!PlanBounds
    /\ PlanRun!PlanBounds
    /\ Stats!StatsAssumption
    /\ StatsCmd!StatsAssumption
    /\ StatsWin!StatsAssumption
    /\ Task!TaskBounds

\* A variable that the scene does not use is 0 and stays so.
Unused ==
    /\ scene \notin {"events", "events_faulty", "schedules", "memory",
                     "memory_topics", "account_legacy", "account_fresh",
                     "account_faulty"} =>
         /\ file = 0
    /\ scene \notin {"events", "events_faulty"} =>
         /\ open = 0 /\ session = 0 /\ up = 0 /\ nextLine = 0 /\ stuck = 0
         /\ event = 0 /\ sending = 0 /\ holds = 0 /\ channel = 0
         /\ replay = 0 /\ cursor = 0 /\ last = 0 /\ joined = 0 /\ dropped = 0
         /\ connects = 0
    /\ scene \notin {"events", "events_faulty", "account_legacy",
                     "account_fresh", "account_faulty"} =>
         /\ pc = 0
    /\ scene \notin {"events", "events_faulty", "loop", "loop_overlap",
                     "loop_http"} =>
         /\ closed = 0
    /\ scene \notin {"events", "events_faulty", "schedules"} =>
         /\ seen = 0 /\ edits = 0
    /\ scene \notin {"files", "files_pool"} =>
         /\ dir = 0 /\ conv = 0 /\ evs = 0 /\ inode = 0 /\ fresh = 0
         /\ current = 0 /\ opened = 0 /\ mem = 0 /\ trace = 0 /\ held = 0
         /\ editing = 0 /\ sweeping = 0 /\ purged = 0 /\ crashes = 0
    /\ scene \notin {"files", "files_pool", "schedules"} =>
         /\ turn = 0 /\ turns = 0
    /\ scene # "schedules" =>
         /\ created = 0 /\ now = 0 /\ sweep = 0 /\ claims = 0 /\ active = 0
         /\ ending = 0 /\ loopOn = 0 /\ done = 0
    /\ scene \notin {"schedules", "loop", "loop_overlap", "loop_http"} =>
         /\ events = 0
    /\ scene \notin {"memory", "memory_topics"} =>
         /\ legacy = 0 /\ lockAt = 0 /\ inodes = 0 /\ holder = 0 /\ store = 0
         /\ saved = 0
    /\ scene \notin {"account_legacy", "account_fresh", "account_faulty"} =>
         /\ mu = 0 /\ raw = 0 /\ born = 0 /\ faults = 0 /\ made = 0
    /\ scene \notin {"loop", "loop_overlap", "loop_http"} =>
         /\ doc = 0 /\ st = 0 /\ torn = 0 /\ job = 0 /\ answered = 0
         /\ owed = 0
    /\ scene \notin {"conversation", "conversation_torn", "compaction",
                     "cache", "cache_faulty", "plan", "plan_executed",
                     "stats", "stats_commands", "stats_window", "task"} =>
         /\ v1 = 0 /\ v2 = 0
    /\ scene \notin {"conversation", "conversation_torn", "compaction",
                     "cache", "cache_faulty", "plan", "plan_executed",
                     "stats", "stats_commands", "stats_window"} =>
         /\ v3 = 0
    /\ scene \notin {"conversation", "conversation_torn", "cache",
                     "cache_faulty", "plan", "plan_executed", "stats",
                     "stats_commands", "stats_window"} =>
         /\ v4 = 0
    /\ scene \notin {"conversation", "conversation_torn", "cache",
                     "cache_faulty", "stats", "stats_commands",
                     "stats_window"} =>
         /\ v5 = 0 /\ v6 = 0 /\ v7 = 0 /\ v8 = 0
    /\ scene \notin {"cache", "cache_faulty"} =>
         /\ v9 = 0 /\ v10 = 0 /\ v11 = 0

Kept ==
    /\ scene' = scene
    /\ scene \notin {"events", "events_faulty", "schedules", "memory",
                     "memory_topics", "account_legacy", "account_fresh",
                     "account_faulty"} =>
         UNCHANGED <<file>>
    /\ scene \notin {"events", "events_faulty"} =>
         UNCHANGED <<open, session, up, nextLine, stuck, event, sending,
                     holds, channel, replay, cursor, last, joined, dropped,
                     connects>>
    /\ scene \notin {"events", "events_faulty", "account_legacy",
                     "account_fresh", "account_faulty"} =>
         UNCHANGED <<pc>>
    /\ scene \notin {"events", "events_faulty", "loop", "loop_overlap",
                     "loop_http"} =>
         UNCHANGED <<closed>>
    /\ scene \notin {"events", "events_faulty", "schedules"} =>
         UNCHANGED <<seen, edits>>
    /\ scene \notin {"files", "files_pool"} =>
         UNCHANGED <<dir, conv, evs, inode, fresh, current, opened, mem,
                     trace, held, editing, sweeping, purged, crashes>>
    /\ scene \notin {"files", "files_pool", "schedules"} =>
         UNCHANGED <<turn, turns>>
    /\ scene # "schedules" =>
         UNCHANGED <<created, now, sweep, claims, active, ending, loopOn,
                     done>>
    /\ scene \notin {"schedules", "loop", "loop_overlap", "loop_http"} =>
         UNCHANGED <<events>>
    /\ scene \notin {"memory", "memory_topics"} =>
         UNCHANGED <<legacy, lockAt, inodes, holder, store, saved>>
    /\ scene \notin {"account_legacy", "account_fresh", "account_faulty"} =>
         UNCHANGED <<mu, raw, born, faults, made>>
    /\ scene \notin {"loop", "loop_overlap", "loop_http"} =>
         UNCHANGED <<doc, st, torn, job, answered, owed>>
    /\ scene \notin {"conversation", "conversation_torn", "compaction",
                     "cache", "cache_faulty", "plan", "plan_executed",
                     "stats", "stats_commands", "stats_window", "task"} =>
         UNCHANGED <<v1, v2>>
    /\ scene \notin {"conversation", "conversation_torn", "compaction",
                     "cache", "cache_faulty", "plan", "plan_executed",
                     "stats", "stats_commands", "stats_window"} =>
         UNCHANGED <<v3>>
    /\ scene \notin {"conversation", "conversation_torn", "cache",
                     "cache_faulty", "plan", "plan_executed", "stats",
                     "stats_commands", "stats_window"} =>
         UNCHANGED <<v4>>
    /\ scene \notin {"conversation", "conversation_torn", "cache",
                     "cache_faulty", "stats", "stats_commands",
                     "stats_window"} =>
         UNCHANGED <<v5, v6, v7, v8>>
    /\ scene \notin {"cache", "cache_faulty"} =>
         UNCHANGED <<v9, v10, v11>>

\* These scenes come to an end at their bounds.
Stop ==
    /\ scene \in {"conversation", "conversation_torn", "compaction",
                  "events", "events_faulty", "files", "files_pool",
                  "schedules", "memory", "memory_topics", "loop",
                  "loop_overlap", "loop_http", "plan", "plan_executed",
                  "task", "stats", "stats_commands", "stats_window"}
    /\ UNCHANGED vars

Init ==
    /\ \/ scene = "conversation" /\ Conv!Init
       \/ scene = "conversation_torn" /\ ConvTorn!Init
       \/ scene = "compaction" /\ Compact!Init
       \/ scene = "events" /\ Ev(Opens, Connects, 0, FALSE)!Init
       \/ scene = "events_faulty" /\ Ev(FewOpens, FewConnects, Rewrites, TRUE)!Init
       \/ scene = "files" /\ Dir(DirObjects, DirMessages, 0, UserTexts, FALSE, {})!Init
       \/ scene = "files_pool" /\ Dir(FewObjects, FewMessages, EditCrashes, FewTexts, TRUE, {"prompt", "command", "compact"})!Init
       \/ scene = "schedules" /\ Sched!Init
       \/ scene = "memory" /\ Mem(MemoryStores, MemoryTopics, Entries, {"add", "replace"}, MemoryLocks)!Init
       \/ scene = "memory_topics" /\ Mem({OneStore}, AllTopics, FewEntries, {"add", "replace", "remove"}, LockFiles)!Init
       \/ scene = "account_legacy" /\ Key(KeyReaders, "pair", FALSE, FALSE)!Init
       \/ scene = "account_fresh" /\ Key(KeyReaders, "none", TRUE, TRUE)!Init
       \/ scene = "account_faulty" /\ Key({}, "pair", TRUE, TRUE)!Init
       \/ scene = "cache" /\ Cache!Init
       \/ scene = "cache_faulty" /\ CacheBad!Init
       \/ scene = "loop" /\ Proto(LoopOps, {"answer"}, FALSE, FALSE, LoopLines, LoopFeeds)!Init
       \/ scene = "loop_overlap" /\ Proto(DraftOps, {"answer", "activate"}, TRUE, TRUE, DraftLines, 0)!Init
       \/ scene = "loop_http" /\ Proto(AllOps, HandlerOps, FALSE, FALSE, HttpLines, HttpFeeds)!Init
       \/ scene = "plan" /\ Plans!Init
       \/ scene = "plan_executed" /\ PlanRun!Init
       \/ scene = "stats" /\ Stats!Init
       \/ scene = "stats_commands" /\ StatsCmd!Init
       \/ scene = "stats_window" /\ StatsWin!Init
       \/ scene = "task" /\ Task!Init
    /\ Unused

Next ==
    /\ Kept
    /\ \/ scene = "conversation" /\ Conv!Next
       \/ scene = "conversation_torn" /\ ConvTorn!Next
       \/ scene = "compaction" /\ Compact!Next
       \/ scene = "events" /\ Ev(Opens, Connects, 0, FALSE)!Next
       \/ scene = "events_faulty" /\ Ev(FewOpens, FewConnects, Rewrites, TRUE)!Next
       \/ scene = "files" /\ Dir(DirObjects, DirMessages, 0, UserTexts, FALSE, {})!Next
       \/ scene = "files_pool" /\ Dir(FewObjects, FewMessages, EditCrashes, FewTexts, TRUE, {"prompt", "command", "compact"})!Next
       \/ scene = "schedules" /\ Sched!Next
       \/ scene = "memory" /\ Mem(MemoryStores, MemoryTopics, Entries, {"add", "replace"}, MemoryLocks)!Next
       \/ scene = "memory_topics" /\ Mem({OneStore}, AllTopics, FewEntries, {"add", "replace", "remove"}, LockFiles)!Next
       \/ scene = "account_legacy" /\ Key(KeyReaders, "pair", FALSE, FALSE)!Next
       \/ scene = "account_fresh" /\ Key(KeyReaders, "none", TRUE, TRUE)!Next
       \/ scene = "account_faulty" /\ Key({}, "pair", TRUE, TRUE)!Next
       \/ scene = "cache" /\ Cache!Next
       \/ scene = "cache_faulty" /\ CacheBad!Next
       \/ scene = "loop" /\ Proto(LoopOps, {"answer"}, FALSE, FALSE, LoopLines, LoopFeeds)!Next
       \/ scene = "loop_overlap" /\ Proto(DraftOps, {"answer", "activate"}, TRUE, TRUE, DraftLines, 0)!Next
       \/ scene = "loop_http" /\ Proto(AllOps, HandlerOps, FALSE, FALSE, HttpLines, HttpFeeds)!Next
       \/ scene = "plan" /\ Plans!Next
       \/ scene = "plan_executed" /\ PlanRun!Next
       \/ scene = "stats" /\ Stats!Next
       \/ scene = "stats_commands" /\ StatsCmd!Next
       \/ scene = "stats_window" /\ StatsWin!Next
       \/ scene = "task" /\ Task!Next
       \/ Stop

Spec == Init /\ [][Next]_vars

-----------------------------------------------------------------------------
\* Conversation: memory holds what the file will be read back as, through
\* failed opens and crashes, and a request carries the repository context
\* once, in front of the user's latest message.
ConversationKept ==
    scene = "conversation" => Conv!Lockstep /\ Conv!OneContext

\* LoadConversation after torn writes and power failures: the messages are
\* paired and the file reads back as them; the repair turns messages into
\* notes and loses none.
LoadRecovers ==
    [][scene = "conversation_torn" =>
         /\ ConvTorn!LoadRecovers /\ ConvTorn!RepairKeepsAll]_vars

\* Compaction: every call that is kept has its answer, the user's task is
\* kept or summarised, what is kept stays in order and what left the window
\* is in the summary.
CompactionKeeps ==
    scene = "compaction" =>
      /\ Compact!CallsAnswered /\ Compact!TaskKept /\ Compact!InOrder
      /\ Compact!NothingForgotten

\* Event ids are line numbers of events.jsonl, and a client misses only what
\* its full channel dropped; with write errors, torn lines and message edits
\* it still sees ids once and in order.
EventsInOrder ==
    /\ scene = "events" => Ev(Opens, Connects, 0, FALSE)!DurableIDs /\ Ev(Opens, Connects, 0, FALSE)!NoGap
    /\ scene = "events_faulty" => Ev(FewOpens, FewConnects, Rewrites, TRUE)!InOrder

\* The conversation a session holds is the one in its directory, through
\* delete, edit, retention and reopening; after an edit the model sees
\* nothing of the turns that were cut; a session of the pool has its files,
\* with stragglers and crashes.
FilesAgree ==
    /\ scene = "files" => Dir(DirObjects, DirMessages, 0, UserTexts, FALSE, {})!MemoryMatchesFile /\ Dir(DirObjects, DirMessages, 0, UserTexts, FALSE, {})!ModelSeesNoMore
    /\ scene = "files_pool" => Dir(FewObjects, FewMessages, EditCrashes, FewTexts, TRUE, {"prompt", "command", "compact"})!PoolHasFiles

\* A slot whose turn completed does not run again, the next time moves past
\* the slot that was claimed, and when nothing is going on no claim is left.
SlotRunsOnce ==
    [][scene = "schedules" =>
         /\ Sched!SlotRunsOnce /\ Sched!MovesPastClaim
         /\ (Sched!QuietIsClean)']_vars

\* Two stores never work on one memory topic at once (lockFile); an entry
\* that was confirmed stays until it is replaced or removed; topics hold no
\* duplicates, keep to their size, and their number to its cap.
MemoryKept ==
    /\ scene = "memory" =>
         /\ Mem(MemoryStores, MemoryTopics, Entries, {"add", "replace"}, MemoryLocks)!Serialised /\ Mem(MemoryStores, MemoryTopics, Entries, {"add", "replace"}, MemoryLocks)!NothingLost /\ Mem(MemoryStores, MemoryTopics, Entries, {"add", "replace"}, MemoryLocks)!BucketsTidy
    /\ scene = "memory_topics" =>
         /\ Mem({OneStore}, AllTopics, FewEntries, {"add", "replace", "remove"}, LockFiles)!NothingLost /\ Mem({OneStore}, AllTopics, FewEntries, {"add", "replace", "remove"}, LockFiles)!BucketsTidy
         /\ Mem({OneStore}, AllTopics, FewEntries, {"add", "replace", "remove"}, LockFiles)!TopicCap

\* The account's SSH key is never lost in its move from the legacy place, the
\* public key file is that of the private one, and the key does not change
\* once it was shown.
KeyKept ==
    /\ scene = "account_legacy" => Key(KeyReaders, "pair", FALSE, FALSE)!KeyKept /\ Key(KeyReaders, "pair", FALSE, FALSE)!PairMatches
    /\ scene = "account_fresh" => Key(KeyReaders, "none", TRUE, TRUE)!PairMatches /\ Key(KeyReaders, "none", TRUE, TRUE)!OneAccountKey
    /\ scene = "account_faulty" => Key({}, "pair", TRUE, TRUE)!KeyKept /\ Key({}, "pair", TRUE, TRUE)!PairMatches

\* Copies kept beside the truth. The response cache serves no body older than
\* the TTL, body and meta agree once nobody writes, and a sweep removes
\* nothing fresh. What an operator is shown of a session's counters never
\* falls, across restarts.
CopiesHonest ==
    [][/\ scene = "cache" =>
            /\ Cache!FreshKept /\ (Cache!TtlHonest)'
            /\ (Cache!PairSettles)'
       /\ scene = "cache_faulty" =>
            /\ CacheBad!FreshKept /\ (CacheBad!TtlHonest)'
       /\ scene = "stats" => Stats!ShownNeverFalls
       /\ scene = "stats_commands" => StatsCmd!ShownNeverFalls
       /\ scene = "stats_window" => StatsWin!ShownNeverFalls]_vars

\* An active loop protocol was calibrated by the user's answer, state.json
\* mirrors the latest event of the log, and a loop that was closed is not
\* active again.
LoopStateHonest ==
    /\ scene = "loop" => Proto(LoopOps, {"answer"}, FALSE, FALSE, LoopLines, LoopFeeds)!ActiveCalibrated /\ Proto(LoopOps, {"answer"}, FALSE, FALSE, LoopLines, LoopFeeds)!MirrorsLatest
    /\ scene = "loop_overlap" => Proto(DraftOps, {"answer", "activate"}, TRUE, TRUE, DraftLines, 0)!ActiveCalibrated
    /\ scene = "loop_http" =>
         /\ Proto(AllOps, HandlerOps, FALSE, FALSE, HttpLines, HttpFeeds)!MirrorsLatest /\ Proto(AllOps, HandlerOps, FALSE, FALSE, HttpLines, HttpFeeds)!ClosedStaysClosed

\* What the plan tool writes is normalised and drops no open step, an update
\* leaves a step in progress while one is pending, and a turn that executes a
\* step updates that step only. After a context compaction the next loop feed
\* is a full one.
PlanAdvances ==
    [][/\ scene = "plan" =>
            /\ Plans!WritesTidy /\ Plans!OpenWorkKept
            /\ Plans!AlwaysAdvances
       /\ scene = "plan_executed" => PlanRun!ExecuteOnlyCurrent
       /\ scene = "loop" => Proto(LoopOps, {"answer"}, FALSE, FALSE, LoopLines, LoopFeeds)!NextFeedFull]_vars

\* The plan summary agrees with the plan. The task state never calls a
\* failing verification passed, its caps keep the best actions, and a setback
\* is reported until it is resolved. The counters of a session and the window
\* of its compactions are those its event file gives, across restarts.
DerivedAgrees ==
    /\ scene = "plan" => Plans!SummaryAgrees
    /\ scene = "task" =>
         /\ Task!VerificationNeverWrong /\ Task!BestActionsKept
         /\ Task!SetbackReported
    /\ scene = "stats" => Stats!CountersAgree /\ Stats!WindowKept
    /\ scene = "stats_commands" =>
         /\ StatsCmd!CountersAgree /\ StatsCmd!WindowKept
    /\ scene = "stats_window" =>
         /\ StatsWin!CountersAgree /\ StatsWin!WindowKept
=============================================================================
