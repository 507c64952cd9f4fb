------------------------------- MODULE MCTools -------------------------------
(***************************************************************************)
(* The tools and the guards of a turn on small instances. A behaviour      *)
(* picks a scene, one component with one choice of its constants, and runs *)
(* it alone: the state spaces of the components lie side by side in one    *)
(* run of TLC. The variables and most of the constants of the components   *)
(* stand under their own names, and components that have the name of a     *)
(* variable in common share it.                                            *)
(***************************************************************************)
EXTENDS Integers, Sequences

\* The constants of the components under their own names.
CONSTANTS Callers, PipeCap, OutCap, MaxFrames, Cancels, Server \* McpClient
CONSTANTS Posts, MaxStreamed, Sids, InitGivesId         \* McpHttp
CONSTANTS Backend, Forks, OutputCap, MaxOutput          \* Executor
CONSTANTS Old, New, Other, MaxEditFileBytes, MaxLen, Docker \* FileEdit
CONSTANTS MaxDepth, Levels, Capacity, MaxDelegations, MaxSaid \* Subagent
CONSTANTS Code, Docs, UrlsA, UrlsB, Apis, Queries, Pages, Kinds, WebTools,
          WebCap, WebWarnThreshold, WebHaltThreshold, WebMaxSteps \* ToolGuard
CONSTANTS FileTools, FileCap, FileWarnThreshold, FileHaltThreshold,
          FileMaxSteps                                  \* ToolGuard
CONSTANTS MaxTurns, MaxCalls, Skips, Recovers, Compacts \* VerifyGuard
CONSTANTS PageElems, MaxSteps                           \* BrowserRefs
CONSTANTS FewElems                                      \* BrowserRefs
CONSTANTS AllResponses, Sites, MaxPages, Slots, MaxEntries, Navigates \* NetworkEvidence
CONSTANTS FewResponses, FewEntries                      \* NetworkEvidence
CONSTANTS ReportDepth, ReportLevels, ReportRoom, ReportCalls, ReportSaid \* Subagent
CONSTANTS StreamCalls, MaxArgs, MaxText, StreamRoom     \* LlmStream
CONSTANTS Clients, Streamers, Quitters, MaxDeltas, ChatRoom, ChatTurns,
          FewRounds, MoreRoom, FewTurns, ChatRounds     \* ChatCompletions

VARIABLES scene,
          pc, id, nextID, pending, reply, shut, wclosed, stdin, got, stdout,
          alive, reader, frame, outShut, loop, result, ctx, closer, frames,
          out, panicked, given, body, drain, sid, closed, child, code,
          command, helper, written, buf, dropped, file, all, base, outcome,
          kind, call, reason, stop, chan, said, heard, held, turn, calls,
          last, counts, fails, halted, used, failed, hosts, warned, miss,
          strikes, forced, seen, urlFails, hostBad, misses, hard, steps,
          log, phase, interventions, blocked, did, dom, born, stamp, before,
          tool, target, found, late, acted, pages, logPage, logSite, resp,
          of, pendingReads, entries, next, named, waiting, listed, sent,
          server, wire, text, finishSeen, shown, own, gone, lost, cancelled,
          work, queue

vars == <<scene,
         pc, id, nextID, pending, reply, shut, wclosed, stdin, got, stdout,
         alive, reader, frame, outShut, loop, result, ctx, closer, frames,
         out, panicked, given, body, drain, sid, closed, child, code,
         command, helper, written, buf, dropped, file, all, base, outcome,
         kind, call, reason, stop, chan, said, heard, held, turn, calls,
         last, counts, fails, halted, used, failed, hosts, warned, miss,
         strikes, forced, seen, urlFails, hostBad, misses, hard, steps, log,
         phase, interventions, blocked, did, dom, born, stamp, before, tool,
         target, found, late, acted, pages, logPage, logSite, resp, of,
         pendingReads, entries, next, named, waiting, listed, sent, server,
         wire, text, finishSeen, shown, own, gone, lost, cancelled, work,
         queue>>

\* The stdio client of an MCP server.
Mcp == INSTANCE McpClient

\* The HTTP transport of an MCP server.
Http == INSTANCE McpHttp WITH
    MaxFrames <- MaxStreamed

\* One shell command.
Shell == INSTANCE Executor

\* edit_file.
Edit == INSTANCE FileEdit

\* Subagents.
Sub == INSTANCE Subagent WITH
    MaxCalls <- MaxDelegations

SubReport == INSTANCE Subagent WITH
    MaxDepth <- ReportDepth, Levels <- ReportLevels, Capacity <- ReportRoom,
    MaxCalls <- ReportCalls, MaxSaid <- ReportSaid

\* The guards of repeated and failing calls.
GuardWeb == INSTANCE ToolGuard WITH
    Tools <- WebTools, Cap <- WebCap, WarnThreshold <- WebWarnThreshold,
    HaltThreshold <- WebHaltThreshold, MaxSteps <- WebMaxSteps

GuardFiles == INSTANCE ToolGuard WITH
    Tools <- FileTools, Cap <- FileCap, WarnThreshold <- FileWarnThreshold,
    HaltThreshold <- FileHaltThreshold, MaxSteps <- FileMaxSteps

\* The guard of the final answer.
Verify == INSTANCE VerifyGuard

\* The stream of a model's reply.
Stream(Style) == INSTANCE LlmStream WITH
    MaxCalls <- StreamCalls, Buffer <- StreamRoom

\* The refs of the browser's snapshots.
Refs(MaxElems, Timeouts, Fallback, UsesOlder) == INSTANCE BrowserRefs

\* The browser's network evidence.
Net(Responses, Cap, Iframes) == INSTANCE NetworkEvidence

\* Chat completions over one session.
Chat(Leavers, Closes, Buffer, Turns, MaxRounds) == INSTANCE ChatCompletions WITH
    MaxTurns <- Turns

\* The constants are as each component assumes them.
ASSUME MCToolsAssumption ==
    /\ Mcp!McpAssumption
    /\ Http!McpHttpAssumption
    /\ Http!SidAssumption
    /\ Shell!ExecBounds
    /\ Edit!EditBounds
    /\ Sub!SubagentAssumption
    /\ SubReport!SubagentAssumption
    /\ GuardWeb!ToolGuardAssumption
    /\ GuardFiles!ToolGuardAssumption
    /\ Verify!VerifyGuardAssumption
    /\ Stream("indexed")!LlmStreamAssumption
    /\ Stream("no_index")!LlmStreamAssumption
    /\ Refs(PageElems, FALSE, FALSE, FALSE)!BrowserRefsAssumption
    /\ Refs(FewElems, TRUE, TRUE, TRUE)!BrowserRefsAssumption
    /\ Net(AllResponses, MaxEntries, TRUE)!NetworkEvidenceAssumption
    /\ Net(FewResponses, FewEntries, FALSE)!NetworkEvidenceAssumption
    /\ Chat(Quitters, FALSE, ChatRoom, ChatTurns, FewRounds)!ChatAssumption
    /\ Chat({}, TRUE, MoreRoom, FewTurns, ChatRounds)!ChatAssumption

\* A variable that the scene does not use is 0 and stays so.
Unused ==
    /\ scene \notin {"mcp", "mcp_http", "shell", "edit", "chat",
                     "chat_rounds"} =>
         /\ pc = 0
    /\ scene # "mcp" =>
         /\ id = 0 /\ nextID = 0 /\ pending = 0 /\ shut = 0 /\ wclosed = 0
         /\ stdin = 0 /\ stdout = 0 /\ alive = 0 /\ frame = 0 /\ outShut = 0
         /\ loop = 0
    /\ scene \notin {"mcp", "chat", "chat_rounds"} =>
         /\ reply = 0
    /\ scene \notin {"mcp", "stream", "stream_no_index"} =>
         /\ got = 0 /\ reader = 0
    /\ scene \notin {"mcp", "shell", "subagents", "subagent_report", "stream",
                     "stream_no_index"} =>
         /\ result = 0
    /\ scene \notin {"mcp", "shell", "stream", "stream_no_index"} =>
         /\ ctx = 0
    /\ scene \notin {"mcp", "mcp_http"} =>
         /\ closer = 0 /\ frames = 0 /\ panicked = 0
    /\ scene \notin {"mcp", "mcp_http", "stream", "stream_no_index", "chat",
                     "chat_rounds"} =>
         /\ out = 0
    /\ scene \notin {"mcp_http", "browser", "browser_late"} =>
         /\ given = 0
    /\ scene \notin {"mcp_http", "edit", "stream", "stream_no_index"} =>
         /\ body = 0
    /\ scene # "mcp_http" =>
         /\ drain = 0 /\ sid = 0
    /\ scene \notin {"mcp_http", "chat", "chat_rounds"} =>
         /\ closed = 0
    /\ scene # "shell" =>
         /\ child = 0 /\ code = 0 /\ command = 0 /\ helper = 0
         /\ written = 0 /\ buf = 0 /\ dropped = 0
    /\ scene # "edit" =>
         /\ file = 0 /\ all = 0 /\ base = 0 /\ outcome = 0
    /\ scene \notin {"subagents", "subagent_report"} =>
         /\ kind = 0 /\ call = 0 /\ reason = 0 /\ stop = 0 /\ heard = 0
         /\ held = 0
    /\ scene \notin {"subagents", "subagent_report", "stream",
                     "stream_no_index", "chat", "chat_rounds"} =>
         /\ chan = 0
    /\ scene \notin {"subagents", "subagent_report", "chat", "chat_rounds"} =>
         /\ said = 0
    /\ scene \notin {"subagents", "subagent_report", "verify", "chat",
                     "chat_rounds"} =>
         /\ turn = 0
    /\ scene \notin {"subagents", "subagent_report", "verify", "stream",
                     "stream_no_index"} =>
         /\ calls = 0
    /\ scene \notin {"subagents", "subagent_report", "guard_web",
                     "guard_files"} =>
         /\ last = 0
    /\ scene \notin {"guard_web", "guard_files"} =>
         /\ counts = 0 /\ fails = 0 /\ halted = 0 /\ used = 0 /\ hosts = 0
         /\ warned = 0 /\ miss = 0 /\ strikes = 0 /\ forced = 0 /\ seen = 0
         /\ urlFails = 0 /\ hostBad = 0 /\ misses = 0 /\ hard = 0
    /\ scene \notin {"guard_web", "guard_files", "stream",
                     "stream_no_index"} =>
         /\ failed = 0
    /\ scene \notin {"guard_web", "guard_files", "browser", "browser_late"} =>
         /\ steps = 0
    /\ scene # "verify" =>
         /\ log = 0 /\ phase = 0 /\ interventions = 0 /\ blocked = 0
         /\ did = 0
    /\ scene \notin {"browser", "browser_late"} =>
         /\ dom = 0 /\ born = 0 /\ stamp = 0 /\ before = 0 /\ tool = 0
         /\ target = 0 /\ found = 0 /\ late = 0 /\ acted = 0
    /\ scene \notin {"network", "network_settled"} =>
         /\ pages = 0 /\ logPage = 0 /\ logSite = 0 /\ resp = 0 /\ of = 0
         /\ pendingReads = 0 /\ entries = 0 /\ next = 0 /\ named = 0
         /\ waiting = 0 /\ listed = 0
    /\ scene \notin {"stream", "stream_no_index"} =>
         /\ sent = 0 /\ server = 0 /\ wire = 0 /\ text = 0 /\ finishSeen = 0
         /\ shown = 0
    /\ scene \notin {"chat", "chat_rounds"} =>
         /\ own = 0 /\ gone = 0 /\ lost = 0 /\ cancelled = 0 /\ work = 0
         /\ queue = 0

Kept ==
    /\ scene' = scene
    /\ scene \notin {"mcp", "mcp_http", "shell", "edit", "chat",
                     "chat_rounds"} =>
         UNCHANGED <<pc>>
    /\ scene # "mcp" =>
         UNCHANGED <<id, nextID, pending, shut, wclosed, stdin, stdout,
                     alive, frame, outShut, loop>>
    /\ scene \notin {"mcp", "chat", "chat_rounds"} =>
         UNCHANGED <<reply>>
    /\ scene \notin {"mcp", "stream", "stream_no_index"} =>
         UNCHANGED <<got, reader>>
    /\ scene \notin {"mcp", "shell", "subagents", "subagent_report", "stream",
                     "stream_no_index"} =>
         UNCHANGED <<result>>
    /\ scene \notin {"mcp", "shell", "stream", "stream_no_index"} =>
         UNCHANGED <<ctx>>
    /\ scene \notin {"mcp", "mcp_http"} =>
         UNCHANGED <<closer, frames, panicked>>
    /\ scene \notin {"mcp", "mcp_http", "stream", "stream_no_index", "chat",
                     "chat_rounds"} =>
         UNCHANGED <<out>>
    /\ scene \notin {"mcp_http", "browser", "browser_late"} =>
         UNCHANGED <<given>>
    /\ scene \notin {"mcp_http", "edit", "stream", "stream_no_index"} =>
         UNCHANGED <<body>>
    /\ scene # "mcp_http" =>
         UNCHANGED <<drain, sid>>
    /\ scene \notin {"mcp_http", "chat", "chat_rounds"} =>
         UNCHANGED <<closed>>
    /\ scene # "shell" =>
         UNCHANGED <<child, code, command, helper, written, buf, dropped>>
    /\ scene # "edit" =>
         UNCHANGED <<file, all, base, outcome>>
    /\ scene \notin {"subagents", "subagent_report"} =>
         UNCHANGED <<kind, call, reason, stop, heard, held>>
    /\ scene \notin {"subagents", "subagent_report", "stream",
                     "stream_no_index", "chat", "chat_rounds"} =>
         UNCHANGED <<chan>>
    /\ scene \notin {"subagents", "subagent_report", "chat", "chat_rounds"} =>
         UNCHANGED <<said>>
    /\ scene \notin {"subagents", "subagent_report", "verify", "chat",
                     "chat_rounds"} =>
         UNCHANGED <<turn>>
    /\ scene \notin {"subagents", "subagent_report", "verify", "stream",
                     "stream_no_index"} =>
         UNCHANGED <<calls>>
    /\ scene \notin {"subagents", "subagent_report", "guard_web",
                     "guard_files"} =>
         UNCHANGED <<last>>
    /\ scene \notin {"guard_web", "guard_files"} =>
         UNCHANGED <<counts, fails, halted, used, hosts, warned, miss,
                     strikes, forced, seen, urlFails, hostBad, misses,
                     hard>>
    /\ scene \notin {"guard_web", "guard_files", "stream",
                     "stream_no_index"} =>
         UNCHANGED <<failed>>
    /\ scene \notin {"guard_web", "guard_files", "browser", "browser_late"} =>
         UNCHANGED <<steps>>
    /\ scene # "verify" =>
         UNCHANGED <<log, phase, interventions, blocked, did>>
    /\ scene \notin {"browser", "browser_late"} =>
         UNCHANGED <<dom, born, stamp, before, tool, target, found, late,
                     acted>>
    /\ scene \notin {"network", "network_settled"} =>
         UNCHANGED <<pages, logPage, logSite, resp, of, pendingReads,
                     entries, next, named, waiting, listed>>
    /\ scene \notin {"stream", "stream_no_index"} =>
         UNCHANGED <<sent, server, wire, text, finishSeen, shown>>
    /\ scene \notin {"chat", "chat_rounds"} =>
         UNCHANGED <<own, gone, lost, cancelled, work, queue>>

\* These scenes come to an end at their bounds.
Stop ==
    /\ scene \in {"mcp", "mcp_http", "shell", "edit", "chat", "chat_rounds"}
    /\ UNCHANGED vars

Init ==
    /\ \/ scene = "mcp" /\ Mcp!Init
       \/ scene = "mcp_http" /\ Http!Init
       \/ scene = "shell" /\ Shell!Init
       \/ scene = "edit" /\ Edit!Init
       \/ scene = "subagents" /\ Sub!Init
       \/ scene = "subagent_report" /\ SubReport!Init
       \/ scene = "guard_web" /\ GuardWeb!Init
       \/ scene = "guard_files" /\ GuardFiles!Init
       \/ scene = "verify" /\ Verify!Init
       \/ scene = "stream" /\ Stream("indexed")!Init
       \/ scene = "stream_no_index" /\ Stream("no_index")!Init
       \/ scene = "browser" /\ Refs(PageElems, FALSE, FALSE, FALSE)!Init
       \/ scene = "browser_late" /\ Refs(FewElems, TRUE, TRUE, TRUE)!Init
       \/ scene = "network" /\ Net(AllResponses, MaxEntries, TRUE)!Init
       \/ scene = "network_settled" /\ Net(FewResponses, FewEntries, FALSE)!Init
       \/ scene = "chat" /\ Chat(Quitters, FALSE, ChatRoom, ChatTurns, FewRounds)!Init
       \/ scene = "chat_rounds" /\ Chat({}, TRUE, MoreRoom, FewTurns, ChatRounds)!Init
    /\ Unused

Next ==
    /\ Kept
    /\ \/ scene = "mcp" /\ Mcp!Next
       \/ scene = "mcp_http" /\ Http!Next
       \/ scene = "shell" /\ Shell!Next
       \/ scene = "edit" /\ Edit!Next
       \/ scene = "subagents" /\ Sub!Next
       \/ scene = "subagent_report" /\ SubReport!Next
       \/ scene = "guard_web" /\ GuardWeb!Next
       \/ scene = "guard_files" /\ GuardFiles!Next
       \/ scene = "verify" /\ Verify!Next
       \/ scene = "stream" /\ Stream("indexed")!Next
       \/ scene = "stream_no_index" /\ Stream("no_index")!Next
       \/ scene = "browser" /\ Refs(PageElems, FALSE, FALSE, FALSE)!Next
       \/ scene = "browser_late" /\ Refs(FewElems, TRUE, TRUE, TRUE)!Next
       \/ scene = "network" /\ Net(AllResponses, MaxEntries, TRUE)!Next
       \/ scene = "network_settled" /\ Net(FewResponses, FewEntries, FALSE)!Next
       \/ scene = "chat" /\ Chat(Quitters, FALSE, ChatRoom, ChatTurns, FewRounds)!Next
       \/ scene = "chat_rounds" /\ Chat({}, TRUE, MoreRoom, FewTurns, ChatRounds)!Next
       \/ Stop

Spec == Init /\ [][Next]_vars

-----------------------------------------------------------------------------
\* A caller of an MCP client gets the reply to its own request, and neither
\* transport sends on a closed channel.
OwnReply ==
    /\ scene = "mcp" => Mcp!OwnReply /\ Mcp!NoPanic
    /\ scene = "mcp_http" => Http!NoPanic

\* A command whose shell ended well is reported so, and what it wrote is
\* shown or counted as dropped.
ShellReported ==
    scene = "shell" => Shell!ShellReported

\* An edit replaces what was asked for and nothing else, whatever other
\* writers do, and found its text once.
EditIsExact ==
    [][scene = "edit" => Edit!EditIsExact /\ Edit!EditIsUnambiguous]_vars

\* Subagents nest no deeper than allowed and none runs on after its parent's
\* call returned; success is reported only of a completed turn.
SubagentsContained ==
    scene = "subagents" => Sub!SubagentsContained

\* No final answer is accepted while a change is newer than the checks, and
\* one is held back only for a change that was not verified.
AnswersVerified ==
    scene = "verify" => Verify!StaleNeverAccepted /\ Verify!BlockJustified

\* What was given once keeps its meaning: the session id of an MCP server and
\* the refs of the network evidence, whose count of body reads is the number
\* of readers, so that a snapshot waits for no read that is over.
GivenStays ==
    [][/\ scene = "mcp_http" => Http!SessionPinned
       /\ scene = "network" => Net(AllResponses, MaxEntries, TRUE)!RefsStable /\ (Net(AllResponses, MaxEntries, TRUE)!ReadsCounted)']_vars

\* A fetch that failed for good is tried once more at most and a host whose
\* pages keep failing is given up; a call refused as a repeat or for want of
\* evidence would bring nothing new; soft failures never force the end of a
\* turn.
GuardsTruthful ==
    /\ scene = "guard_web" => GuardWeb!RetriedOnce /\ GuardWeb!HostGivenUp
    /\ scene = "guard_files" =>
         /\ GuardFiles!FreshEvidence /\ GuardFiles!NoEvidenceTruthful
         /\ GuardFiles!SoftNeverForces

\* The message put together from the stream is the one the model sent, and
\* holds what was shown while streaming; the report of a subagent is its last
\* message, when the events fit the buffer; a client of the chat completions
\* gets the reply to its own message.
MessageComplete ==
    /\ scene = "stream" => Stream("indexed")!MessageComplete /\ Stream("indexed")!ShownIsKept
    /\ scene = "stream_no_index" => Stream("no_index")!MessageComplete
    /\ scene = "subagent_report" => SubReport!ReportIsLast
    /\ scene = "chat" => Chat(Quitters, FALSE, ChatRoom, ChatTurns, FewRounds)!ReplyIsOwn
    /\ scene = "chat_rounds" => Chat({}, TRUE, MoreRoom, FewTurns, ChatRounds)!ReplyIsOwn

\* A ref of the latest snapshot acts on the element it named, and no two
\* elements of a page carry the same stamp; a snapshot that waited for the
\* body reads lists every body.
RefHits ==
    /\ scene = "browser" => Refs(PageElems, FALSE, FALSE, FALSE)!RefHits
    /\ scene = "browser_late" => Refs(FewElems, TRUE, TRUE, TRUE)!StampsUnique
    /\ scene = "network_settled" => Net(FewResponses, FewEntries, FALSE)!SettledComplete
=============================================================================
