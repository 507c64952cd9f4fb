# A TLA+ verification of Affent's session runtime

Affent is an agent runtime in Go. `affentserve` keeps a pool of durable
sessions behind an HTTP API; each session owns one `agent.Loop`, a goroutine per
turn that alternates between calls of a language model and batches of tool
calls; `affentctl` drives the same loop for one local session, and `affenteval`
scores the traces that runs leave. This directory models the parts of it that
are concurrent, can fail half-way, have budgets that interact, or derive one
piece of state from another.

Every definition that models code has its source lines in the `map` of
`PROJECT.json`; line numbers below refer to those files. A helper that
translates part of the lines of another mapped definition has no entry of its
own.

1. Inventory - 2. Plan - 3. Modules - 4. Runs - 5. Proofs - 6. Not modelled -
7. Known deviations

## 1. Inventory

| component (files) | state | operations | what is hard | correct when |
|---|---|---|---|---|
| session pool (`cmd/affentserve/sessions.go`) | `sessions` map, `shuttingDown`, `pool.mu` | `GetOrCreate`, `Get`, `gcOnce`, `Delete`, `SignalShutdown`, `Shutdown` | turns start and end without `pool.mu`; idle check and eviction are separate; `Close` runs in its own goroutine | capacity kept, one open object per id, only idle sessions evicted, shutdown closes all |
| session life and turn accounting (`sessions.go`, `session_commands.go`, `session_controls.go`) | `activeTurns`, `lastUsed`, `closedCh`, the event channel, `s.mu` | `SendUserWithOptions`, `CancelTurn`, `RunWorkbenchCommand`, `fanout`, `endTurn`, `Close` | lock-free counter, dropped events, a select that may prefer `closedCh` | the counter covers every turn in flight and returns to zero |
| agent turn loop (`internal/agent/loop.go`, `llm.go`) | turn-local budgets and flags, the current turn, the conversation | `SendUserWithOptions`, `Cancel`, `runTurn`, `runStep`, `consumeAndPersist`, `runBudgetFinal` | cancel at any point, retries with compaction, nested budgets, writes whose error is only logged, a stream that stalls | requests pair calls and results, every turn ends, budgets hold, the kept message is the one sent |
| conversation log (`internal/agent/conversation.go`) | `messages`, a JSONL file | `load` with repair, `Append`, `Replace`, `PruneTransientContext` | torn lines, failed writes, two objects on one path | reload gives what memory had, paired |
| compaction (`internal/agent/compaction.go`) | none but the log | `Compact`, cut-point search, summary retries | safe boundaries between calls and results | pairs and tail kept, nothing forgotten, or nothing changes |
| event stream (`sessions.go`, `events.go`, `internal/eventlog`) | `events.jsonl`, `nextEventLine`, subscribers | dispatch, subscribe, replay, history pages | subscribe before replay, slow subscribers, failed trace writes | a client sees every event once, in order |
| schedules (`session_schedules.go`, `session_schedule_tool.go`) | a schedules file, claims, turns being observed | create, update, delete, claim, execute, record | at-least-once runs, edits while a run is in flight, crash between claim and record | a due run happens, a finished slot does not run again |
| session directories and message edit (`sessions.go`, `session_message_edit.go`) | a directory, two JSONL files | create, DELETE, retention sweep, cut events and conversation | an old loop appends after DELETE; two files, no transaction | files and memory agree |
| loop protocol (`internal/loopstate`, `loop_protocol.go`, `session_loop_protocol.go`) | `LOOP.md`, `state.json`, an event log | activate, calibrate, feed, checkpoint, close | files shared by tool, loop and API without a lock | active means calibrated, a closed loop stays closed |
| plan and task state (`plan_tool.go`, `internal/planstate`, `taskstate`) | `plan.json`; a fold over the event log | update, execute, DELETE; scan | hand-edited files, read and write apart, capped lists over a tail | updates keep open work, the summary tells the truth |
| memory (`internal/memory`) | one bounded file per topic | add, replace, remove, migrate | `flock` on a side file that is removed, several processes | operations on a topic are serial, nothing confirmed is lost |
| MCP client (`internal/mcp`) | pending requests, transport, registry | call, close, register | close against calls in flight, a blocked pipe, a half-registered server | every call returns with its own reply |
| executor and file tools (`internal/executor`, `builtins.go`) | a child process, two pipes | Exec, edit_file | timeout against exit, processes left behind | the result is what happened |
| guards (`tool_loop_guard.go`, `workspace_verification_guard.go`) | counters of a turn; the conversation | before and after each tool call, before a final answer | counters that outlive what they counted | a refusal is justified, a stale answer is refused |
| subagents and focused tasks (`subagent.go`, `child_loop.go`) | a chain of child loops | start, drain, cancel, report | events dropped on a full channel, contexts not derived from the caller's | contained, cancelled, reported truthfully |
| skills (`skills.go`, `skill_tools.go`) | directories, a registry per session | install, confirm, replace, delete, load | several renames, several sessions, crashes | a loaded skill was asked for, a failed install leaves the old one |
| browser tools (`extras/browser`) | page, refs, response cache, evidence log | snapshot, click, find, cache get and put, sweep | numbers reused, late goroutines, two files without a lock | a click hits what the agent saw, copies are honest |
| chat completions (`chat_completions.go`) | a subscription per request | buffered and streamed replies | one feed for several clients, dropped events | a client gets the reply to its own message |
| accounts (`account_settings.go`) | key files in two places | ensure, read, migrate | migration without the lock | the key is never lost nor replaced |
| statistics (`sessions.go`, `sessions_api.go`) | counters, a scan of the file tail | observe, seed, merge | two pieces of code compute one number | they agree, across restarts |
| CLI (`cmd/affentctl`) | options, opened resources | run | precedence, cleanup, exit code | what is offered is what was asked for |
| evaluation (`internal/agenteval`, `cmd/affenteval`) | traces, verdicts, manifests | parse, judge, brief, gate, clean up | crashed processes, ids that come again, files removed too early | a pass is earned, evidence of a failure is kept |
| tool registry policies, web tools, text packages, search, web UI | none of their own | | | |

How they interact. An HTTP handler or the schedule loop takes a session from the
pool and calls `SendUserWithOptions`; the Loop runs the turn in a goroutine of
its own, appends to the conversation and publishes events on the session's
channel without blocking; the fanout goroutine takes them off, writes the trace,
counts, feeds subscribers and, on `turn.end`, calls `endTurn`; GC, LRU eviction,
edits, DELETE and Shutdown look at `activeTurns`, drop sessions from the map and
close them, and `Close` cancels the turn and waits for the fanout. Tools run
inside the turn's goroutine: the shell starts a process, an MCP call waits on
another goroutine, a subagent is a Loop below the Loop. Guards watch the calls
of a turn and the final answer. Everything durable is a file that another actor
may read or replace meanwhile: HTTP handlers beside the turn, a second process
beside the first, a new session object beside an old one.

`PROJECT.json` lists the hazards at their lines, with the properties about them.

## 2. Plan

The order in which the modules were written follows what the rest relies on:
the pool and the turn first (everything else assumes "no turn is running here"
or "this goroutine ends"), then what is durable, then the tools and guards of a
turn, then what stands around a session (chat clients, accounts, CLI, skills,
evaluation). The theorems come in the same order: type correctness and the
safety invariants of `SessionPool` and `AgentLoop`, the refinement of `Turn`,
then one component of the suites after the other.

Not yet proved and next in line: the conversation (`ConversationKept`) and the
copies of what another store holds (`CopiesHonest`). Section 5 says what stands in the way of the others.

Modules to be proved about keep parameters as CONSTANTS and use no recursive
operator; no module here declares one.

## 3. The modules

Every module starts with a comment that names its code and says what a state
is. What follows is what a reader needs besides: who the actors are, and where
the grain of the actions comes from.

### The pool and the turn

**SessionPool.** One action per critical section or goroutine step. `Handlers`
are the goroutines of HTTP requests and the schedule loop. Every `buildSession`
makes a new object, numbered by `Sessions`: a handler may still hold a dropped
object while another serves the same id. `pool`, `shutdown` are the map and the
flag; `poolHolder`, `victims`, `target` stand for `pool.mu` held over several
steps; `life`, `active`, `lastUsed`, `muHolder` are a session (`lastUsed` as a
rank, so time has no bound); `turn`, `chan`, `fan` are `Loop.current`, the event
channel and the fanout; `pc`, `held` say where a handler is. An operation that
looks for idle sessions and then evicts is two steps, because `activeTurns`
changes without `pool.mu` in between; DELETE and Shutdown ask no question, so
they are one.

**AgentLoop.** The goroutine of one session's turns. `pc` says where it is: the
top of `runTurn`'s loop, a no-tools prompt, a model call, the look at the reply,
a batch of tools, the end; `site` says who called `runStep`. The log is kept as
what a provider checks: how many calls of the last message have no result yet
(`pending`) and whether anything before it is unpaired (`broken`). What the
model answers, whether it fails, whether a guard blocks, is free. `Cancel` and
`Reload` (a crash, or eviction of an idle session, followed by `load`) may come
at any time. `Compacted` states the Compactor's contract, which `Compaction`
examines.

**Turn** is the abstract specification: one turn at a time, at most `ToolLimit`
tools, nothing after a cancel, `turn.end` with no request in flight and before
the next turn. `AgentLoop` implements it (`ImplementsTurn`, by INSTANCE with a
refinement mapping), which is checked and proved.

**LlmStream** is one streaming call below `consumeAndPersist`: chunks, the
reader goroutine, the event channel, the watchdog, the call's context. `Style`
says how the provider marks its fragments.

### Stores

| module | actors | grain |
|---|---|---|
| Conversation | one loop, crashes | one write call, one rename; a partial write leaves a tail, a machine crash may lose lines that were never synced |
| Compaction | the loop, three kinds of callers | one `Compact`; token estimates are free, so every cut the code may choose is taken |
| EventStream | loop, fanout, one client, message edits | the fanout's number, trace and send; the client's subscribe, page, live read |
| SessionFiles | objects of one id, handlers, DELETE, sweep, edits | a file operation; the sweep's look and its removal are apart |
| Schedules | sweep, API, tool, turn, fanout, clock | a read-modify-write under `schedulesMu`; look, claim, start and each event of a turn are apart |
| LoopProtocol | the turn, HTTP handlers | an operation is a list of file steps; `Overlap` lets the two actors interleave |
| MemoryStore | stores (sessions or processes) | open, flock, read, write, unlock; the side file has an inode |
| Plan | the plan tool, HTTP handlers | read and rename are two steps |
| TaskState | the log only | the scan is a fold, evaluated on every log |
| SessionStats | the fanout, restarts | one event; the scan reads a tail |
| ResponseCache | writers, readers, the sweeper | each rename, each read; readers take no lock |
| Accounts | ensurers, readers | each file operation; a file is created empty and then written |
| Skills | sessions and API workers | each system call of an install |

### Tools and guards of a turn

| module | actors | grain |
|---|---|---|
| McpClient | callers, client reader, wire reader, Close, a server that may do anything | lock regions and channel operations |
| McpHttp | posts, stream drains, Close | the wait group, the session id and the out channel are separate steps |
| McpRegister | one registration of several servers | one tool added; a failure takes back what was added |
| Executor | the command, processes it leaves, Exec | exit, kill, pipe close, return |
| FileEdit | the edit, another writer | stat, read, write (four docker calls in a container) |
| Subagent | a chain of turns | a publish, a drain step, a cancel handed down |
| ToolGuard | one turn | a tool call: attempt, result, intervention |
| VerifyGuard | the turns of a session | a message; the guard is asked as `runTurn` asks it |
| BrowserRefs | the page, the agent, late clicks | one tool call; a click's command may still run after its timeout |
| NetworkEvidence | Chrome, the observer, body readers, the agent | one browser event, one body read |
| ChatCompletions | clients of one session, the fanout, the turn | one event handed out, one event read |

### Runs of the command line and their evaluation

**RuntimeTools** and **CtlRun** are `affentctl run`: which place an option comes
from, which tools it registers, the drain of the turn, the exit code.
**TraceChecks** translates the checks of a scenario; **EvalTrace** produces
traces by one process per prompt, crashes included, and judges them;
**EvalScenarios** holds the built-in scenarios and **EvalRun** lets the best
possible agent run each of them with the tools the runner enables;
**EvalGates** and **EvalBatch** are the brief of a result and the summary with its
quality gates, and one call of `affenteval` with what it prints, keeps and
removes.

### Modules for TLC and for TLAPS

`MCStores`, `MCTools`, `MCRuns` and `MCLiveness` put many components side by side
(section 4). `StoreParts` declares the stores that are proved about: `MCStores`
extends it with the others and with the scenes, `StoreParts_proofs` with the
lemmas on each store but the loop protocol; `Stores_proofs` extends both and has
the loop protocol's lemmas. `SessionPool_proofs`,
`AgentLoop_proofs` and `Tools_proofs` extend what they prove about (section 5).
The `.cfg` files give the constants their values and replace no definition; the
symmetry of `SessionPool`'s ids and handlers is defined in the module.

## 4. Runs

| run | checks | result |
|---|---|---|
| `pool_safety` | `TypeOK`, `PoolConsistent`, `ActiveCoversTurns`, `VictimsIdle` | hold |
| `pool_live` | `ShutdownClosesAll`, with workbench commands | holds |
| `loop_safety` | `TypeOK`, `TurnKeepsPairing`, `WorkBounded`, `CalibrationStopsTools`, `ImplementsTurn`, `TurnEnds` | hold |
| `stores_safety` | twelve properties of the durable stores | hold |
| `tools_safety` | nine properties of tools and guards | hold |
| `runs_safety` | four properties of CLI, skills and evaluation | hold |
| `components_live` | four liveness properties of twelve components | hold |
| `pool_evict_race` | `EvictOnlyIdle` | violated: a turn starts between the idle check and the eviction |
| `pool_command_count` | `VictimsIdle` with the shell tool | violated: a command ends its turn twice |
| `pool_turn_end_dropped` | `TurnEndReleases` | violated: a dropped `turn.end` pins the session |
| `loop_cancel_race` | `RequestsPaired` | violated: a cancel after persist, before dispatch |
| `loop_lost_reply` | `LostReplyIsLoud` | violated: a lost answer ends as completed |

The violated properties state what a comment or a test of the repository says;
`findings` in `PROJECT.json` quotes it.

**Suites.** In `MCStores`, `MCTools`, `MCRuns` and `MCLiveness` the variable
`scene` picks one component with one choice of its constants, and never changes;
the state graphs of the components lie side by side in one run. A component is
an INSTANCE. Those that a proof module is about keep their variables and
constants under their own names, and a constant that differs between two scenes
is a parameter of the instance (`Net(Responses, Cap, Iframes)`), as in all of
`MCTools`; the others share the registers `v1`, `v2`, ... A variable the scene
does not use is 0 (`Unused`) and stays so (`Kept`). `Stop` is the stutter of a scene that has
reached its bounds or its end. A suite's property is a conjunction of `scene =
"x" => X!Property`; the comments over them say what each part means. Its parts:

| property | parts |
|---|---|
| `ConversationKept`, `LoadRecovers` | Conversation: `Lockstep`, `OneContext`; `LoadRecovers`, `RepairKeepsAll` with torn writes and power failures |
| `CompactionKeeps` | Compaction: `CallsAnswered`, `TaskKept`, `InOrder`, `NothingForgotten` |
| `EventsInOrder` | EventStream: `DurableIDs`, `NoGap`; `InOrder` with write errors and message edits |
| `FilesAgree` | SessionFiles: `MemoryMatchesFile`, `ModelSeesNoMore`; `PoolHasFiles` with stragglers and crashes |
| `SlotRunsOnce` | Schedules: `SlotRunsOnce`, `MovesPastClaim`, `QuietIsClean` |
| `MemoryKept` | MemoryStore: `Serialised`, `NothingLost`, `BucketsTidy`, `TopicCap` |
| `KeyKept` | Accounts: `KeyKept`, `PairMatches`, `OneAccountKey` |
| `CopiesHonest` | ResponseCache: `FreshKept`, `TtlHonest`, `PairSettles`; SessionStats: `ShownNeverFalls` |
| `LoopStateHonest`, `PlanAdvances` | LoopProtocol: `ActiveCalibrated`, `MirrorsLatest`, `ClosedStaysClosed`, `NextFeedFull`; Plan: `WritesTidy`, `OpenWorkKept`, `AlwaysAdvances`, `ExecuteOnlyCurrent` |
| `DerivedAgrees` | Plan: `SummaryAgrees`; TaskState: `VerificationNeverWrong`, `BestActionsKept`, `SetbackReported`; SessionStats: `CountersAgree`, `WindowKept` |
| `OwnReply` | McpClient: `OwnReply`, `NoPanic`; McpHttp: `NoPanic` |
| `ShellReported`, `EditIsExact` | Executor: `ShellReported`; FileEdit: `EditIsExact`, `EditIsUnambiguous` |
| `SubagentsContained` | Subagent: `SubagentsContained` |
| `AnswersVerified`, `GuardsTruthful` | VerifyGuard: `StaleNeverAccepted`, `BlockJustified`; ToolGuard: `RetriedOnce`, `HostGivenUp`, `FreshEvidence`, `NoEvidenceTruthful`, `SoftNeverForces` |
| `MessageComplete` | LlmStream: `MessageComplete`, `ShownIsKept`; Subagent: `ReportIsLast`; ChatCompletions: `ReplyIsOwn` |
| `RefHits`, `GivenStays` | BrowserRefs: `RefHits`, `StampsUnique`; NetworkEvidence: `SettledComplete`, `RefsStable`, `ReadsCounted`; McpHttp: `SessionPinned` |
| `VerdictEarned` | EvalTrace: `VerdictEarned`, `VerdictFair`, `ParsePairs`, `RunnersAgree`, `StateTruthful` |
| `EvalHonest` | EvalBatch: `EvidenceKept`, `PathsLive`, `ExitHonest`, `SummaryAgrees`, `ManifestAgrees`, `BriefTruthful`, `VerifierNamed`, `FailItemsGated`, `ProfileServed` |
| `SurfaceAsAsked` | CtlRun: `PrecedenceKept`, `SurfaceAsAsked`, `GuardsServable`, `NothingLeaked`, `ExitHonest`; EvalRun: `AdmittedServed`, `Solvable`; McpRegister: `FailureLeavesNothing`, `OneOwner` |
| `SkillsKept` | Skills: `Whole`, `Kept`, `ConfirmedOnly`, `RegistryMatches`, `ActiveNowTruthful`, `Loadable` |

**Bounds.** They are in the `.cfg` files and in the INSTANCE blocks, each chosen
so that the case the property is about happens and one more of it fits:

* Pool: two ids, two handlers, a pool of one and two sessions ever built, so that
  eviction, re-creation and a handler with a stale object all happen; an event
  channel of one, full at once; two turns, so that a second one can be mistaken
  for the first. `pool_live` has one id and one session: the waits it is about,
  of `Close` for the fanout and of Shutdown for the lock, need no more. The
  pool's runs switch deadlock checking off, since with every session and turn
  used up the bounded system stops.
* Loop: batches of up to two calls, two rounds, a tool budget of three (it runs
  out inside a batch), one retry, two guard interventions, one compaction per
  call; turns repeat without bound.
* Stores: serials, objects, opens and crashes are bounded by 2 to 9; two stores
  or writers where they race, one where a sequence matters; files are short but
  longer than every cap (`TailLines`, `TailEvents`, `PageLimit`, `MaxItems`);
  schedules recur (`Intervals`), one-off ones are left to the theorem.
* Tools: two callers on a pipe and a channel of one slot; three posts; a file of
  up to four pieces around a limit of three; three levels of subagents with a
  depth of two; a page of up to four elements; three responses, two slots, a log
  of one entry (and of two, where the log must not overflow); a reply of two calls
  with two fragments each; three messages of a subagent on a channel of four; two
  clients, one streaming, over two turns of one round with room for two events and
  over one turn of two rounds with room for three.
* Runs: two calls per traced turn, four notes, all built-in scenarios under the
  runners of `EvalRunners`, every invocation of `MCRuns` over two-scenario
  batches.

**Fairness.** `SessionPool`: weak fairness of goroutines that can always run when
enabled; strong fairness of steps another goroutine can disable for a moment,
which Go grants by its starvation-free mutexes and its random choice between
ready select cases (the fanout, Shutdown's drain). `AgentLoop`: weak fairness of
the turn's goroutine; model calls have a timeout, backoff is capped, a tool is
taken to return. `MCLiveness`: weak fairness of the goroutines of each
component; strong fairness of `flock`, of the cache's mutex and of a drain's
last step, which others can disable and enable again. Because the scene never
changes, the strong fairness of up to three scenes is one formula (`SF_vars(A \/
B)` in a scene where only `A` can occur is `SF_vars(A)`). Nothing is assumed of
clients, users, servers, providers, Chrome or crashes.

## 5. Proofs

Five modules hold theorems: each for every value of the constants that the named
assumptions of its modules allow (`PoolAssumption`, `LoopAssumption`,
`MCStoresAssumption`, `MCToolsAssumption`; TLC evaluates them on the runs). An
extra hypothesis is stated in the theorem and named below; section 7 says what
the code does where it does not hold.

**SessionPool_proofs**

* `TypeCorrect`. `TypeOK` is not inductive alone: a handler that sends must hold a
  session and its mutex. `Typed` adds `HandlersOK`.
* `ActiveCoversTurnsCorrect`. `CountInv`: without the shell tool, each session's
  counter is at least what `Owed` adds up (the send in progress, commands, the
  running turn, queued `turn.end`s, the one being retired). The lemmas
  `EndsQueuedAppend` and `EndsQueuedTail` count `turn.end`s in a channel.
* `PoolConsistentCorrect`. `PoolInv` adds `LockOK`: what the holder of `pool.mu`
  may rely on between its two steps - victims are still pooled, the target is
  not, and there is room for it.
* `VictimsIdleCorrect`, for `~ShellEnabled`, from the two invariants above.

**AgentLoop_proofs**

* `TypeCorrect`, with `Placed` (where the goroutine is fixes who called
  `runStep`, and a batch has calls left).
* `PairingCorrect`. `PairInv` says at each `pc` how many calls are open: none
  outside a reply, all of the reply's before the batch, those left in it.
* `WorkBoundedCorrect`. `AskedInv` ties the number of model calls to rounds,
  guards and final attempts; `AttemptInv` charges each retry to a compaction or
  to the retry limit.
* `CalibrationCorrect`, an action property, from `CalibInv`: once calibration is
  due neither a main step nor a batch can follow.
* `TurnRefinement`: initial states map to initial states of `Turn`, every step to
  a step of `Turn` or to a stutter. Beyond types it needs only `IdleRan`: between
  turns no tool of the last one is still counted.

**StoreParts_proofs** and **Stores_proofs**

* `SlotRunsOnceCorrect`, `QuietIsCleanCorrect`, `SlotRunsOnceInScene`. `SchedInv` has
  seven parts: `SchedType`; `Numbered` (turns and events carry increasing
  numbers); `Counted` (`active` is the turn, the events not yet handled and the
  end being handled); `Backed` (whatever the observer remembers stands behind an
  event or a running turn); `OneOpen` (a claim belongs to one turn); `Filed` (the
  file's entries are of schedules that were created); `Slots` (a completed slot
  is behind the schedule's next time). One lemma per action.
* `KeyKeptInScenes`. Two arguments over the same module: `MovedInv` (the legacy
  pair exists until a whole copy of it does) is proved step by step for unlocked
  readers when nothing fails, and for ensurers alone with failures and crashes;
  `FreshInv` (one generated key in flight, and its owner is known) for an
  account without a legacy key, under any failure.
* `EventsInOrderInScenes`. `OrderInv` (the numbers of what the client has seen rise,
  so do those in its channel, and what is still to come lies behind the last one
  seen, or within the replay that will skip it) holds under failing writes, edits
  and restarts; `Rank` counts the whole lines of a file, and `PageHolds` says
  which of them a history page has. `LineInv` (an event's number is the line it
  stands on) and `GapInv` (every line up to the client's id was seen or dropped for
  a full channel, and so is or was every line between it and the live events)
  hold without failures and edits.
* `MemoryKeptInScenes`. `MemCore`: every bucket is tidy, a store about to write
  has read what the file still says, and what was confirmed is on disk. The
  middle part is what a lock is for: `LockInv` (a store at the lock has the inode
  the name still leads to, and from the grant on it is the holder) gives it for
  stores that add and replace, whichever of them dies; with removals, which
  unlink the side file, one store is alone. `CapInv` keeps the room an addition
  has found. `CharsFinite` and `WithoutSize` count a bucket's characters by
  injections between buckets seen as sets of pairs, without induction.
* `FilesAgreeInScenes`. `DirInv`: `OneObject` (whoever holds a session, runs a
  turn or has its memory is the session of the pool, and while that lives no edit
  is under way) and `Aligned` (the user messages of conversation.jsonl and the
  events of its turns are equally many, and `Covered`: every message belongs to
  the turn of the event whose ordinal is the number of user messages up to it,
  `Rank`). An edit that cuts the conversation before the k-th user message and then
  the journal before the k-th event keeps both, which is what makes the model see
  nothing of the cut turns. It holds without stragglers, without messages that
  have no event (commands, prompts of schedules, compaction) and without a crash
  between the two rewrites: with any of these the ordinals differ (section 7).
  `PoolHasFiles` is proved with all of them.
* `LoopStateHonestInScenes`. An operation reads state.json when it starts and then
  makes its steps on the files, so most of the argument is about what is still to
  come: `Shape` says which operation an actor is in from the steps it has left.
  `Calibrated` (an active state.json, one about to be written, and the steps of an
  activation all stand behind a calibration) holds with overlaps and crashes; a
  turn that puts or deletes the protocol, and a handler that answers or sets up
  anew without the turn, are outside it. `Mirrored` (the number in state.json is
  that of the latest line, or of the line its owner is about to append) and
  `StaysClosed` (a closed loop is not active, nor is what is about to be written)
  need one actor at a time, `OneAtWork`, and no crash: an older read may be written
  after a newer one (section 7), and a crash comes between the two files.

**Tools_proofs**

* `OwnReplyCorrect`: `McpInv` (ids are used once; a pending entry has a waiting
  caller; a frame in flight has an entry or its caller gave up; the out channel
  closes after its reader left). `HttpNoPanicCorrect`: `HttpInv`, the wait group
  counts the posts and drains that may still send.
* `SessionPinnedCorrect`, when the server gives its id in the reply to
  initialize.
* `ShellReportedCorrect` (on the host): `ShellInv`. `EditIsExactCorrect`:
  `EditInv`, with `OneMatch` for the single place of the old text.
* `SubagentsContainedCorrect`: `SubInv` along the chain, `ChainAt` (who waits for
  whom, who was told to stop) and `HeardAt` (what a drain has heard).
* `StaleNeverAcceptedCorrect`, `BlockJustifiedCorrect`: `VerifyInv` and
  `BlockInv` relate the latest edit and test in the conversation to the latest
  that were really made. They assume that every call runs (`~Skips`), that no
  answer is accepted around the guard (`~Recovers`), that the log is not
  compacted, and for `BlockJustified` one turn.
* `GivenUpCorrect`: `WebInv` ties the guard's counters per URL and host to what
  happened. `RefusalsTruthfulCorrect`: `FilesInv` = `StrikesInv`, `ReadsInv`,
  `MissesInv`. They assume that a host with API URLs does not serve dynamic
  pages, and that files change by edits of code.
* `GivenStaysInScenes`: `NetInv` counts the body reads and keeps names attached to
  responses. `RefHitsInScenes`: `StampInv` (the stamps of a page number its
  elements without repetition: `Shortened`, `Grown` and the lemmas on them say
  what an element that goes or comes does to them), `HitInv` (what the agent
  remembers is what is stamped, when there is no late click and no fetch
  fallback), and `SettledInv` (a response that is due has a slot or is listed,
  with as many slots and log entries as responses).
* `MessageCompleteInScenes`, from three arguments of one kind: what is still on its
  way, taken in order, turns what has arrived into what was sent, and the invariant
  asks for the history of that. `MessageIsWhole`: `StreamInv`, for both styles of
  fragments and any fault of the provider; `Whole` follows the chunks on the wire
  (`Fitted` is what a fragment does to the calls read so far) and `ShownText` the
  events on the channel. `ReplyIsOwnCorrect`: `ChatInv`, for any clients, turns and
  capacities, with disconnects and the close of the session; `Told` follows the
  events of a client's subscription and of the fanout's queue up to the reply of a
  turn that ended (`Replied`) or to what the running turn has said (`Ready`).
  `ReportIsLastCorrect`: `ReportInv`, `Left` says of the events of a child's turn
  that the last message among them is the last one said. It assumes that they fit
  the channel (`ReportSaid < ReportRoom`); a full channel drops the last message.

The theorems whose names end in `InScene` or `InScenes` state a property of a
suite in every behaviour of the suite: `SceneKept` says the scene does not
change, a step of the suite is a step of its component, and the component's
lemmas or theorem do the rest. A lemma about a component takes the parameters of
its instance as bound constants, so that it holds for every scene's choice. The inductive invariants were
checked by TLC as invariants of the suites' instances before they were proved,
except the three that ask for a history, which TLC cannot enumerate.

Only model-checked, and why:

* liveness (`ShutdownClosesAll`, `TurnEnds`, `TurnEndReleases`, the four
  properties of `MCLiveness`): fairness and ENABLED are out of the prover's
  reach;
* the violations;
* properties over folds and `SelectSeq`, whose meaning for every input needs
  induction over data: `CompactionKeeps`, `LoadRecovers`, `DerivedAgrees`,
  `PlanAdvances`, `VerdictEarned`, `EvalHonest`, `SurfaceAsAsked`, and in parts
  `ConversationKept`;
* not attempted yet: `CopiesHonest`, `SkillsKept`.

## 6. Not modelled

The tool registry's argument validation and repair (a transformation of one
call's text; `AgentLoop` takes its verdict as a free choice), supporting text
packages, web fetch and search (stateless), session search and project context
(read-only), and the web UI. Of the modelled parts: launching Chromium and
executing pages (external), request and response shaping of the HTTP API,
migration of old directory layouts, the wording of prompts, summaries, timelines
and printed lines, and the modes of `affentctl` that only plan or only execute a
plan.

Granularity. In `SessionPool` the walk of `GetOrCreate` and `gcOnce` over the map
is one step and the evictions that follow it another; a session whose turn starts
during the walk is the case of a turn that starts between the two. `GetOrCreate`
reads another session's `lastUsed` without its mutex; every value comes from
`time.Now()` and `Before` then compares one word, the monotonic reading, so on a
64-bit build the outcome is the old or the new time. `touch` follows `endTurn`'s
decrement and is taken with it. In `AgentLoop` the second branch on
`forceNoToolsNext` (loop.go 1600-1616) cannot be reached, since the top of the
loop already leaves with it set, and is not modelled; a failed
`appendUserMessage` starts no turn, and the transient context it may leave is
pruned by the next one. The short page a session list may return when durable
ids are capped before they are summarised (sessions_api.go 371-439) is not
modelled.

## 7. Known deviations

What modelling showed the code to do against a comment, a document or a test of
the repository, beyond the five violations of section 4. Each line names the
property that fails and its module; the property is defined there, or holds in
the suite only under the constants that exclude the case. It fails when the
constants admit the case.

| module | property | where | what happens |
|---|---|---|---|
| AgentLoop | `RetryBudgetKept` | loop.go:3737 | an overflow retry uses up a transient retry, which the comment at 3725 denies |
| Compaction | `RepliesHaveCalls` | compaction.go:289 | backing up from an assistant message with calls may put the last result of the previous round at the head of the tail, without its call |
| Compaction | `SingleSummary` | compaction.go:197 | after a pass with one head message, the next takes the old summary for part of the head and adds another |
| Conversation | `Lockstep` | conversation.go:382 | the first append after a torn last line is glued to the fragment and lost at the next load |
| EventStream | `NothingMissed` | sessions.go:1261 | an event skipped for a full subscriber is not replayed to a client that resumes after a later one |
| EventStream | `DurableIDs` | sessions.go:1244 | a failed trace write still uses the number, and the encoder keeps its first error |
| EventStream | `NoGap` | session_message_edit.go:74 | an edit shortens the log, and numbers are used again |
| SessionFiles | `MemoryMatchesFile` | sessions.go:1691 | a handler that held an evicted session runs a turn on it, beside the new object |
| SessionFiles | `DeleteIsFinal` | sessions.go:1376 | the cancelled turn of a deleted session appends to the directory of its successor |
| SessionFiles | `EditCutsTheTurn` | session_message_edit.go:74, 161 | ordinals of the two logs differ after commands, prompts, compaction, or a crash between the two rewrites |
| SessionFiles | `SweepTakesOld` | sessions.go:1535 | the age is read before the lock and not again |
| Schedules | `PausedStaysPaused` | session_schedules.go:1073, 1169 | recording a result enables a schedule that was paused while it ran |
| LoopProtocol | `ActiveCalibrated` | loopstate/file.go:584, session_loop_protocol.go:286 | answers of an earlier loop count for a new one; a text without a status becomes running |
| LoopProtocol | `NextFeedFull` | state.go:304, 378 | a concurrent write erases the mark; a proactive compaction does not set it |
| LoopProtocol | `ClosedStaysClosed` | session_loop_protocol.go:407 | a status read before a close is written after it |
| LoopProtocol | `DraftNotRunning`, `FirstThreeFeedsFull` | state.go:587, loop_protocol.go:21 | a missing state counts as running; one first full feed, where the manual says three |
| MemoryStore | `Serialised`, `TopicCap` | memory.go:797, 597 | the lock's side file is removed while others wait on it; the number of topics is checked outside the file lock |
| Plan | `ExecuteOnlyCurrent`, `ExecutesCurrent` | plan_tool.go:846, session_controls.go:96 | a batch update passes the policy; the step is bound before the turn starts |
| Plan | `RemovedStaysRemoved` | session_plan.go:85 | an update in flight renames a cleared plan back |
| TaskState | `SourcesRepresented`, `ObjectiveKept`, `OnlyUnresolvedInjected` | events.go:708, session_task_state.go:77, events.go:304 | an only source may be evicted; the tail's first message is taken for the objective; nothing resolves an open question |
| Executor | `SuccessReported`, `TimeoutMeansStopped` | docker.go:122, 96 | with docker a success at the deadline is a timeout, and the command goes on in the container |
| Executor | `TimeoutMeansKilled`, `TimeoutCapsRun` | local.go:148, 127 | an exit code is replaced by a deadline; a background process that holds the pipes delays the return |
| FileEdit | `AppendedKept` | builtins.go:1614 | bytes appended between the read and the write disappear |
| McpClient | `CancelReturns` | stdio_wire.go:77 | a write to a full pipe does not honour the context |
| McpHttp | `SessionPinned` | http_wire.go:142 | two concurrent first ids: the later replaces the earlier |
| Subagent | `ReportIsLast`, `DrainEnds` | subagent.go:1229, loop.go:3120 | a full channel drops the last message, or `turn.end` itself |
| Subagent | `ReleasedAfterRun` | child_loop.go:118 | the directory goes while the cancelled child still writes |
| ToolGuard | `FreshEvidence` | workspace_verification_guard.go:141, tool_loop_guard.go:289 | an edit of a document or a shell command does not start a new epoch |
| ToolGuard | `HostBlockEarned`, `HostGivenUp` | tool_loop_guard.go:635 | failures of several kinds add up under the last one; API URLs are exempt under `dynamic_shell` |
| VerifyGuard | `StaleNeverAccepted` | workspace_verification_guard.go:104, 110, loop.go:1522 | a refused or skipped test counts; compaction forgets the edit's test; a recovered answer is not asked |
| VerifyGuard | `BlockJustified` | workspace_verification_guard.go:66 | edits of earlier turns count |
| LlmStream | `MessageComplete` | llm.go:704 | a provider that repeats id or name on a fragment loses the arguments so far |
| ResponseCache | `TtlHonest`, `PairSettles`, `NoBodyLeft` | cache.go:221, 244, 345 | a fetch time taken before the lock; a failed meta write; a body without meta is never swept |
| BrowserRefs | `RefHits` | snapshot.go:198, tools_interact.go:146, sessions.go:443 | numbers start at 1 again; a late click renumbers the page; the fetch fallback drives the agent's page |
| NetworkEvidence | `SettledComplete` | cache_observer.go:152 | with all slots taken a response is dropped without a trace |
| NetworkEvidence | `PageIsTheAskers`, `SameSiteFound` | network_evidence.go:175, 135 | the page of the moment the body was read; an iframe's document sets the page |
| Accounts | `KeyKept`, `LegacyReachable`, `PairMatches` | account_settings.go:1153, 1129, 1145 | unlocked readers beside a failing or crashing migration lose the key, hide it behind an empty file, or mix two pairs |
| Skills | `Whole`, `Kept` | skills.go | installs of one name share a staging directory; a crash between the two renames leaves only `.install-<name>.old` |
| Skills | `RegistryMatches`, `Loadable` | skill_tools.go, skills.go | a session that loads during an API install misses it; installs ignore the limits the loader enforces |
| ChatCompletions | `CancelsOwn` | chat_completions.go | a client that leaves may cancel another client's turn |
| SessionStats | `FailuresAgree`, `CountersAgree` | sessions.go:2135 | commands, and call ids that come again, make counting and scanning differ; a short tail lets counters fall at a restart |
| CtlRun | `ProtocolServable` | cmd_run.go | a guard may ask for a protocol tool the options left out |

Of the evaluation: `longrun-scheduled-loop-tick-provenance` and
`longrun-session-schedule-loop-coexistence` expect a LOOP.md under another
session's directory, and the `longrun-session-schedule-*` scenarios for recurring
follow-ups, unavailable ticks and control need a tool `affentctl` does not know,
so no batch run passes them (scenarios.go 2408-2495). The command lines of
docs/technical-manual.md:1165-1173 are refused by the preflight. The longrun
profile asks for the `schedules_changed` refresh and for schedule capabilities
that affentctl runs never give. `--runtime-tools=all` lacks `session_workspace`;
`--runtime-browser` counts `browser_screenshot` though it is not registered;
`AFFENTCTL_*` of the environment change the surface of a run; a scenario that
exposes the loop protocol itself is reported as missing it. A verification call
or evidence without a result counts as passed; a crashed last turn keeps the
reason of the one before; a failed middle prompt is ignored; the in-process
Runner replaces statistics per turn where the batch adds them. A batch prints the
trace's path also when the workspace is removed, stamps the manifests of passing
scenarios with failed gates in trace mode only, and prints the paths of a debug
manifest that could not be written. Skills once more: deleting an account's skill
hides a session's own until restart, a proposal's id runs its lists together, and
a skill installed from `embed:` cannot be deleted.
