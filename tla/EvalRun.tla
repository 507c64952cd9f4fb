------------------------------- MODULE EvalRun -------------------------------
(***************************************************************************)
(* One scenario of a batch eval: the preflight of affenteval decides from  *)
(* the scenario whether the tools the runner enables are enough, affentctl *)
(* is started with the flags made from both, and the trace is judged. The  *)
(* agent is the best one there could be: it makes the calls the scenario   *)
(* asks for, in an order it allows, as long as the tools are offered.      *)
(***************************************************************************)
EXTENDS RuntimeTools, EvalScenarios

CONSTANTS
    Runners,   \* settings of the runner; "required" among its RuntimeTools
               \* stands for the names the preflight asks for
    Names      \* the scenarios that are run, {} for all

VARIABLES scenario, runner, stage, tools, calls, status, verdict

vars == <<scenario, runner, stage, tools, calls, status, verdict>>

EvalRunAssumption ==
    \A r \in Runners : r.RuntimeTools \subseteq STRING

SourceTools == {"web_fetch", "web_search"} \cup BrowserTools

-----------------------------------------------------------------------------
\* The preflight.

\* Names of a set of strings that begin with or contain a word.
MemoryStats == {"memory_updates", "memory_update_add", "memory_update_replace",
                "memory_update_remove", "memory_search_calls",
                "memory_search_misses"}
SessionSearchStats ==
    {"session_search_calls", "session_search_results",
     "session_search_context_hits", "session_search_matched_terms",
     "session_search_recent_sessions"}
SourceAccessStats ==
    {"source_access_results", "source_access_verified",
     "source_access_network"}

RuntimeToolsForRequiredStat(stat) ==
    If(stat \in MemoryStats, {"memory"})
    \cup If(stat \in SessionSearchStats, {"session_search"})
    \cup If(stat \in SourceAccessStats, {"source_access"})

ToolsOf(S) == {r.tool : r \in S}

RequiredRuntimeTools(s) ==
    s.RequiredTools \cup DOMAIN s.RequiredToolCounts
    \cup UNION {RuntimeToolsForRequiredStat(f) :
                    f \in DOMAIN s.RequiredToolStatsAtLeast}
    \cup ToolsOf(s.RequiredToolResultText) \cup ToolsOf(s.RequiredToolArgContains)
    \cup s.RequiredTruncatedResults \cup s.RequiredResultArtifacts
    \cup UNION {{o.earlier, o.later} : o \in s.RequiredToolOrder}
    \cup UNION {Texts(r, "Tool") : r \in s.RequiredSourceAccess}
    \cup If(s.RequiredSessionSearch \cup s.RequiredRecentSessionSearch # {},
            {"session_search"})
    \cup If(DOMAIN s.RequiredFocusedTaskCounts
            \cup DOMAIN s.RequiredFocusedTaskSourceCounts # {}, {"run_task"})
    \cup If(DOMAIN s.RequiredSubagentModeCounts
            \cup DOMAIN s.RequiredSubagentSourceCounts # {}, {"subagent_run"})
    \cup If(s.RequiredCommands \cup DOMAIN s.RequiredCommandCounts # {}
            \/ s.RequiredCommandOrder # {} \/ s.RequiredCommandBeforeTool # {}
            \/ s.RequiredCommandAfterTool # {}, {"shell"})
    \cup ToolsOf(s.RequiredCommandBeforeTool)
    \cup ToolsOf(s.RequiredCommandAfterTool)

\* What the flags enable by name; a source tool enables source_access.
EnabledNames(r) ==
    If(r.RuntimeMemory, {"memory"}) \cup If(r.RuntimeWeb, WebTools)
    \cup If(r.RuntimeBrowser, BrowserTools) \cup If(r.RuntimeMCPConfig, {"mcp"})
    \cup UNION {Group([mcp_config |-> TRUE], name) :
                    name \in r.RuntimeTools \ {"all"}}

EnabledRuntimeToolSet(r) ==
    LET names == EnabledNames(r) \ {"source_access"}
    IN  names \cup If(names \cap SourceTools # {}, {"source_access"})

EvalMode(r) == r.RuntimeEvalMode \/ r.RuntimeTools # {} \/ r.RuntimeAllTools

\* Plausible bug: the tools of calls with required arguments are forgotten.
ValidateRuntimeToolSurfaceMutant(s, r) ==
    \/ ~EvalMode(r) \/ r.RuntimeAllTools \/ "all" \in r.RuntimeTools
    \/ s.RequiredTools \ If(s.EnableMemory, {"memory"})
           \subseteq EnabledRuntimeToolSet(r)

ValidateRuntimeToolSurface(s, r) ==
    \/ ~EvalMode(r) \/ r.RuntimeAllTools \/ "all" \in r.RuntimeTools
    \/ RequiredRuntimeTools(s) \ If(s.EnableMemory, {"memory"})
           \subseteq EnabledRuntimeToolSet(r)

-----------------------------------------------------------------------------
\* The run of affentctl.

\* Its flags.
AffentctlRunArgs(s, r) ==
    LET exposed == If(s.ExposeLoopProtocolTool /\ ~r.RuntimeAllTools,
                      {"loop_protocol"})
        memory == r.RuntimeMemory \/ s.EnableMemory
    IN  [Defaults EXCEPT
            !.max_turns = s.MaxTurns,
            !.session_id = s.SessionID # "",
            !.eval_mode = EvalMode(r) \/ s.ExposeLoopProtocolTool,
            !.eval_all_tools = r.RuntimeAllTools,
            !.eval_tools = r.RuntimeTools \cup exposed,
            !.memory = TRUE, !.memoryExplicit = memory,
            !.loop_protocol = s.EnableLoopProtocol,
            !.web = r.RuntimeWeb, !.web_search = r.RuntimeWeb,
            !.browser = r.RuntimeBrowser, !.mcp_config = r.RuntimeMCPConfig,
            !.max_turn_input_tokens = s.RuntimeMaxTurnInputTokens]

VerifyRequiredLoopProtocolFinalStatus(s, st) ==
    s.RequiredLoopProtocolFinalStatus # "" =>
        s.SessionID # "" /\ st = s.RequiredLoopProtocolFinalStatus

-----------------------------------------------------------------------------
\* What an ideal agent does: the calls that the checks of the scenario ask
\* for, each one [tool, command, i], the i-th call of its kind.

Most(S) == CHOOSE m \in S \cup {0} : \A k \in S \cup {0} : m >= k
At(f, k) == IF k \in DOMAIN f THEN f[k] ELSE 0
Nth(S, i) ==
    LET q == CHOOSE p \in [1..Cardinality(S) -> S] :
                \A a, b \in 1..Cardinality(S) : a # b => p[a] # p[b]
    IN  q[((i - 1) % Cardinality(S)) + 1]

\* One call has one action and one path; other arguments can hold all texts.
ExclusiveArgs == {"action", "path"}
ArgTexts(s, tool, arg) ==
    {r.text : r \in {q \in s.RequiredToolArgContains :
                        q.tool = tool /\ q.arg = arg}}

Needed(s) ==
    (RequiredRuntimeTools(s) \ {"source_access"})
    \cup If(/\ "source_access" \in RequiredRuntimeTools(s)
            /\ RequiredRuntimeTools(s) \cap SourceTools = {}, {"web_fetch"})
    \cup If(s.RequireFinalPlanCompleted, {"plan"})
    \cup If(s.RequiredLoopProtocolFinalStatus \notin {"", s.LoopStatus},
            {"loop_protocol"})
    \cup UNION {Texts(r, "Tool") : r \in s.RequiredTaskStateAttemptedActions}

CommandsOf(s) ==
    s.RequiredCommands \cup DOMAIN s.RequiredCommandCounts
    \cup {o.command : o \in s.RequiredCommandBeforeTool
                            \cup s.RequiredCommandAfterTool}
    \cup UNION {{o.earlier, o.later} : o \in s.RequiredCommandOrder}

\* Before one tool and after another takes two.
CommandNeeds(s, c) ==
    Most({1, At(s.RequiredCommandCounts, c)}
         \cup If(/\ \E o \in s.RequiredCommandBeforeTool : o.command = c
                 /\ \E o \in s.RequiredCommandAfterTool : o.command = c, {2}))

CommandItems(s) ==
    UNION {{[tool |-> "shell", command |-> c, i |-> i] :
                i \in 1..CommandNeeds(s, c)} : c \in CommandsOf(s)}

ToolNeeds(s, tool) ==
    Most({1, At(s.RequiredToolCounts, tool)}
         \cup {r.min : r \in {q \in s.RequiredToolArgContains : q.tool = tool}}
         \cup {Cardinality(ArgTexts(s, tool, a)) : a \in ExclusiveArgs})
    - (IF tool = "shell" THEN Cardinality(CommandItems(s)) ELSE 0)

Items(s) ==
    CommandItems(s)
    \cup UNION {{[tool |-> t, command |-> "", i |-> i] :
                    i \in 1..ToolNeeds(s, t)} : t \in Needed(s)}

MustPrecede(s, x, y) ==
    \/ x.tool = y.tool /\ x.command = y.command /\ x.i < y.i
    \/ \E o \in s.RequiredToolOrder :
        x.tool = o.earlier /\ x.i = 1 /\ y.tool = o.later
    \/ \E o \in s.RequiredCommandBeforeTool :
        x.command = o.command /\ x.i = 1 /\ y.tool = o.tool
    \/ \E o \in s.RequiredCommandAfterTool :
        /\ x.tool = o.tool /\ y.command = o.command
        /\ y.i = CommandNeeds(s, o.command)
    \/ \E o \in s.RequiredCommandOrder :
        x.command = o.earlier /\ x.i = 1 /\ y.command = o.later

\* A call with everything the scenario wants of calls of its tool; it fails
\* where no call of the tool may succeed.
ArgFacts(s, x) ==
    {<<r.arg, r.text>> : r \in {q \in s.RequiredToolArgContains :
                        q.tool = x.tool /\ q.arg \notin ExclusiveArgs}}
    \cup UNION {If(ArgTexts(s, x.tool, a) # {},
                   {<<a, Nth(ArgTexts(s, x.tool, a), x.i)>>}) :
                    a \in {b \in ExclusiveArgs : ArgTexts(s, x.tool, b) # {}}}
    \cup If(x.command # "", {<<"command", x.command>>})

FoundFacts(s, tool) ==
    UNION {r.is : r \in If(tool = "session_search", s.RequiredSessionSearch
                              \cup s.RequiredRecentSessionSearch)
                        \cup {q \in s.RequiredSourceAccess :
                                <<"Tool", tool>> \in q.is}}
    \cup If(tool = "memory", {<<"memory", "update">>})
    \cup If(tool \in s.RequiredTruncatedResults, {<<"result", "truncated">>})
    \cup If(tool \in s.RequiredResultArtifacts, {<<"artifact", "whole">>})
    \cup If(tool = "run_task",
            {<<"focused_task", k>> : k \in DOMAIN s.RequiredFocusedTaskCounts})
    \cup If(tool = "subagent_run",
            {<<"subagent", m>> : m \in DOMAIN s.RequiredSubagentModeCounts})

Plenty == 100000
Called(s, x) ==
    [tool |-> x.tool, turn |-> 1, args |-> ArgFacts(s, x),
     result |-> {"wanted"}, done |-> TRUE, kinds |-> {},
     exit |-> IF /\ x.tool \in DOMAIN s.MaxSuccessfulToolCallsByTool
                 /\ s.MaxSuccessfulToolCallsByTool[x.tool] = 0 THEN 1 ELSE 0,
     is |-> FoundFacts(s, x.tool),
     n |-> [TotalSteps |-> 1, CompletedSteps |-> 1,
            SourceFindings |-> Plenty, SourceEvidence |-> Plenty]]

-----------------------------------------------------------------------------
\* The trace of such a run. What only the texts of the scenario's files and
\* prompts bring about is there; what a call or a running loop brings about
\* is there when they are.

Used(tool) == \E i \in DOMAIN calls : calls[i].tool = tool

\* A surface computes its limits from the window it was given.
SurfaceNumbers(s) ==
    LET w == s.ModelContextWindowTokens
    IN  [MaxTurnInputTokens |-> s.RuntimeMaxTurnInputTokens,
         ModelContextWindowTokens |-> w,
         CompactTriggerInputTokens |->
            CompactTriggerInputTokensForModelPolicy(
                s.CompactTriggerInputTokens, w, 0, 0,
                DefaultSummaryTriggerInputTokens),
         CompactSummaryPromptMaxBytes |->
            SummaryPromptMaxBytesForModelPolicy(
                w, 0, 0, DefaultSummaryPromptMaxBytes),
         CompactHardInputLimitTokens |-> ModelInputCapacityTokens(w, 0)]

\* What changes the surface in the middle of a run.
Changes == [schedules_changed |-> "session_schedule",
            loop_protocol_changed |-> "loop_protocol",
            workspace_changed |-> "session_workspace"]
Refreshes(s) ==
    {x \in DOMAIN s.RequiredRuntimeSurfaceRefreshReasons :
        x \in DOMAIN Changes => Used(Changes[x])}

SurfaceFacts(s) ==
    {<<"CompletionGuard", g>> : g \in s.RequiredCompletionGuards}
    \cup {<<"RefreshReason", x>> : x \in Refreshes(s)}
    \cup {<<"LoopProtocolControl",
            IF s.EnableLoopProtocol \/ s.LoopStatus # "" THEN "enabled"
            ELSE "disabled">>, <<"CompactScope", "active">>,
          <<"CompactWindowPrefillSource",
            s.RequiredRuntimeCompactPrefillSource>>,
          <<"RefreshReason", s.RequiredRuntimeSurfaceRefreshReason>>}

Largest(S) ==
    LET fields == UNION {DOMAIN r.n : r \in S}
    IN  [f \in fields |-> Most({At(r.n, f) : r \in S})]
Values(f) == {f[x] : x \in DOMAIN f}
Tagged(field, f) == {<<field, x>> : x \in DOMAIN f}

\* How many events of a type there are, and what they say.
Loop(s) == s.EnableLoopProtocol \/ s.LoopStatus # ""
CountOf(s, type) ==
    Most({At(s.RequiredTraceEventCounts, type)}
      \cup (CASE type = "runtime.surface" ->
                    {1} \cup Values(s.RequiredRuntimeSurfaceRefreshReasons)
              [] type = "loop.protocol_feed" ->
                    {s.RequiredLoopProtocolFeeds}
                    \cup Values(s.RequiredLoopProtocolFeedModes)
                    \cup {r.min : r \in s.RequiredLoopProtocolFeedMatches}
              [] type = "loop.decision" ->
                    Values(s.RequiredLoopDecisionKinds)
                    \cup Values(s.RequiredLoopDecisionResults)
                    \cup {r.min : r \in s.RequiredLoopDecisionMatches}
              [] type = "context.injected" ->
                    Values(s.RequiredContextInjectionSources)
              [] type = "context.compacted" ->
                    {s.RequiredContextCompactions, s.RequiredContextMaintenance,
                     s.RequiredReactiveCompactions, s.RequiredCompactScopeActive}
                    \cup Values(s.RequiredContextCompactionReasons)
              [] type = "message.rejected" -> Values(s.RequiredMessageRejected)
              [] type = "loop.turn_checkpoint" -> {s.Prompts}
              [] type = "loop.protocol_calibration_request" ->
                    {s.RequiredLoopProtocolCalibrationRequests}
              [] type = "loop.protocol_calibration" ->
                    {s.RequiredLoopProtocolCalibrations}
              [] OTHER -> {}))
Occurs(s, type) ==
    CASE type = "loop.protocol_feed" -> Active(s.LoopStatus)
      [] type = "loop.turn_checkpoint" -> Loop(s)
      [] type \in {"loop.protocol_calibration",
                   "loop.protocol_calibration_request"} -> s.SessionID # ""
      [] OTHER -> TRUE

EventFacts(s, type) ==
    CASE type = "runtime.surface" -> SurfaceFacts(s)
      [] type = "loop.protocol_feed" ->
            Tagged("Mode", s.RequiredLoopProtocolFeedModes)
            \cup UNION {r.is : r \in s.RequiredLoopProtocolFeedMatches}
      [] type = "loop.decision" ->
            Tagged("Kind", s.RequiredLoopDecisionKinds)
            \cup Tagged("Decision", s.RequiredLoopDecisionResults)
            \cup UNION {r.is : r \in s.RequiredLoopDecisionMatches}
      [] type = "context.injected" ->
            Tagged("Source", s.RequiredContextInjectionSources)
      [] type = "context.compacted" ->
            Tagged("Reason", s.RequiredContextCompactionReasons)
            \cup Tagged("Reason", s.RequiredContextMaintenanceReasons)
            \cup {<<"CompactScope", "active">>, <<"Reactive", "true">>}
      [] type = "message.rejected" ->
            Tagged("Trigger", s.RequiredMessageRejected)
      [] type = "conversation.repaired" ->
            Tagged("FailureKind", s.RequiredConversationRepairKinds)
      [] type = "loop.protocol_calibration_request" ->
            Tagged("Status", s.RequiredLoopProtocolCalibrationRequestStatuses)
      [] type = "loop.protocol_calibration" ->
            Tagged("Status", s.RequiredLoopProtocolCalibrationStatuses)
      [] OTHER -> {}
EventNumbers(s, type) ==
    CASE type = "runtime.surface" -> SurfaceNumbers(s)
      [] type = "loop.protocol_feed" ->
            Largest(s.RequiredLoopProtocolFeedMatches)
      [] type = "loop.decision" -> Largest(s.RequiredLoopDecisionMatches)
      [] type = "context.compacted" ->
            [EstimatedInputTokens |-> 1, TriggerInputTokens |-> 1,
             RemovedMessages |-> Plenty, ReducedBytes |-> Plenty]
      [] type = "conversation.repaired" ->
            s.RequiredConversationRepairStatsAtLeast
      [] OTHER -> <<>>

Types == <<"runtime.surface", "loop.protocol_feed", "loop.turn_checkpoint",
           "loop.decision", "context.injected", "context.compacted",
           "message.rejected", "conversation.repaired",
           "loop.protocol_calibration_request", "loop.protocol_calibration">>

\* Every prompt is a user message, of one of the modes that are asked for.
UserMessage(s, i) ==
    [type |-> "user.message", n |-> <<>>,
     is |-> IF DOMAIN s.RequiredUserMessageModes = {} THEN {}
            ELSE {<<"Mode", Nth(DOMAIN s.RequiredUserMessageModes, i)>>}]

Events(s) ==
    LET some(type) ==
            [i \in 1..(IF Occurs(s, type) THEN CountOf(s, type) ELSE 0) |->
                [type |-> type, is |-> EventFacts(s, type),
                 n |-> EventNumbers(s, type)]]
        upTo[k \in 0..Len(Types)] ==
            IF k = 0 THEN [i \in 1..s.Prompts |-> UserMessage(s, i)]
            ELSE upTo[k - 1] \o some(Types[k])
    IN  upTo[Len(Types)]

\* An action of a tool is in the task state when the tool was called.
StateItems(S) ==
    LET real == {r \in S : \A tool \in Texts(r, "Tool") : Used(tool)}
    IN  [i \in 1..Cardinality(real) |-> Nth(real, i)]

\* A counter of a tool counts when the tool was called.
Counted(stat) ==
    \A tool \in RuntimeToolsForRequiredStat(stat) :
        IF tool = "source_access" THEN \E x \in SourceTools : Used(x)
        ELSE Used(tool)

Trace(s) ==
    [events |-> Events(s), tools |-> calls, reason |-> "completed",
     final |-> {}, usage |-> 1,
     stats |-> [f \in {x \in DOMAIN s.RequiredToolStatsAtLeast : Counted(x)} |->
                    s.RequiredToolStatsAtLeast[f]],
     failures |-> s.RequiredToolFailureKindCounts, repairs |-> <<>>,
     state |-> [mode |-> s.RequiredTaskStateRequestMode,
                source |-> s.RequiredTaskStateRequestSource,
                kind |-> s.RequiredTaskStateScheduleKind,
                id |-> s.RequiredTaskStateScheduleID,
                actions |-> StateItems(s.RequiredTaskStateAttemptedActions),
                files |-> StateItems(s.RequiredTaskStateChangedFiles),
                evidence |-> StateItems(s.RequiredTaskStateEvidence)]]

-----------------------------------------------------------------------------
Resolved(r, s) ==
    IF "required" \notin r.RuntimeTools THEN r
    ELSE [r EXCEPT !.RuntimeTools =
            (@ \cup RequiredRuntimeTools(s)) \ {"required", "source_access"}]

Init ==
    /\ scenario \in SelectBatchScenariosForSuite("", Names)
    /\ \E r \in Runners : runner = Resolved(r, scenario)
    /\ stage = "preflight" /\ tools = {} /\ calls = <<>> /\ verdict = "none"
    /\ status = scenario.LoopStatus

\* affenteval refuses to start the batch.
Preflight ==
    /\ stage = "preflight"
    /\ stage' = IF ValidateRuntimeToolSurface(scenario, runner)
                THEN "setup" ELSE "refused"
    /\ UNCHANGED <<scenario, runner, tools, calls, status, verdict>>

\* The workspace is checked, then affentctl checks its own options.
Setup ==
    /\ stage = "setup"
    /\ LET c == AffentctlRunArgs(scenario, runner)
           reg == Surface(c, scenario.LoopStatus # "", {})
       IN  IF /\ VerifyScenarioLoopProtocolState(scenario)
              /\ Filters(c) => Missing(c, ResolveRuntimeCapabilities(c), reg) = {}
           THEN tools' = reg /\ stage' = "agent" /\ UNCHANGED verdict
           ELSE tools' = {} /\ stage' = "judged" /\ verdict' = "setup failed"
    /\ UNCHANGED <<scenario, runner, calls, status>>

Made(x) == \E i \in DOMAIN calls :
    /\ calls[i].tool = x.tool
    /\ \/ x.command = ""
       \/ <<"command", x.command>> \in calls[i].args
    /\ x.i <= Cardinality({j \in 1..i :
                /\ calls[j].tool = x.tool
                /\ x.command = "" =>
                    \A f \in calls[j].args : f[1] # "command"
                /\ x.command # "" => <<"command", x.command>> \in calls[j].args})

Ready ==
    {x \in Items(scenario) :
        /\ x.tool \in tools /\ x.tool \notin scenario.ForbiddenTools
        /\ ~Made(x)
        /\ \A y \in Items(scenario) : MustPrecede(scenario, y, x) => Made(y)}

\* The loop ends a turn that has used up its steps.
Budget == scenario.MaxTurns * scenario.Prompts

Call ==
    /\ stage = "agent" /\ Ready # {} /\ Len(calls) < Budget
    /\ LET x == CHOOSE y \in Ready : TRUE
       IN  /\ calls' = Append(calls, Called(scenario, x))
           /\ status' = IF /\ x.tool = "loop_protocol"
                           /\ scenario.RequiredLoopProtocolFinalStatus # ""
                        THEN scenario.RequiredLoopProtocolFinalStatus
                        ELSE status
    /\ UNCHANGED <<scenario, runner, stage, tools, verdict>>

\* The final answer; the trace and the workspace are checked.
Judge ==
    /\ stage = "agent" /\ (Ready = {} \/ Len(calls) = Budget)
    /\ verdict' = IF /\ CheckBatchTrace(scenario, Trace(scenario))
                     /\ VerifyRequiredLoopProtocolFinalStatus(scenario, status)
                  THEN "ok" ELSE "failed"
    /\ stage' = "judged"
    /\ UNCHANGED <<scenario, runner, tools, calls, status>>

Over == stage \in {"refused", "judged"}

Next == Preflight \/ Setup \/ Call \/ Judge

Spec == Init /\ [][Next]_vars

-----------------------------------------------------------------------------
TypeOK ==
    /\ stage \in {"preflight", "setup", "agent", "judged", "refused"}
    /\ verdict \in {"none", "ok", "failed", "setup failed"}
    /\ tools \subseteq KnownTools \cup {"session_workspace"}

\* The names affentctl knows besides those of its allowlist groups.
Offered == KnownTools \cup {"session_workspace"}

\* A scenario the preflight admits finds the tools it was asked about on the
\* surface: what --runtime-tools names and what affentctl registers agree.
AdmittedServed ==
    stage = "agent" /\ EvalMode(runner) /\ ~runner.RuntimeAllTools =>
        /\ RequiredRuntimeTools(scenario) \cap KnownTools \subseteq tools
        /\ "source_access" \in RequiredRuntimeTools(scenario) =>
                tools \cap SourceTools # {}

\* With the tools that its checks ask for, a scenario can be passed: no two
\* of its expectations exclude one another, and its budgets leave room for
\* the calls it requires in an order it requires.
Solvable ==
    stage = "judged" /\ Needed(scenario) \subseteq tools => verdict = "ok"

\* Nothing that the scenario forbids is needed for it.
RequiredNotForbidden ==
    Needed(scenario) \cap scenario.ForbiddenTools = {}

=============================================================================
