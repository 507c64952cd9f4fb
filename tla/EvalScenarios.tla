---------------------------- MODULE EvalScenarios ----------------------------
(***************************************************************************)
(* The built-in scenarios of the batch evals: what each one gives the run  *)
(* and what its trace must show of calls, events, order and number. Texts  *)
(* stand for themselves only where two of them exclude one another (the    *)
(* action or the path of a call): what a final answer, a result or a file  *)
(* must hold, prompts, files and commands of the harness are left out,     *)
(* except for the number of prompts, the status of a LOOP.md and whether   *)
(* there is a verifier, a skill to activate, a repository to clone and a   *)
(* file that must not be edited.                                           *)
(***************************************************************************)
EXTENDS TraceChecks

Req(facts) == [is |-> facts, n |-> <<>>, min |-> 1]
Arg(t, a, x) == [tool |-> t, arg |-> a, text |-> x, min |-> 1]
Command(c, t) == [command |-> c, tool |-> t]
Order(a, b) == [earlier |-> a, later |-> b]
Results(tools) == {[tool |-> t, text |-> "wanted"] : t \in tools}

WriteTools == {"write_file", "edit_file"}
WebTools == {"web_fetch", "web_search"}
DelegationTools == {"run_task", "subagent_run"}
BrowserReads ==
    {"browser_navigate", "browser_snapshot", "browser_find", "browser_network",
     "browser_network_read"}

-----------------------------------------------------------------------------
goMedianScenario ==
    [Name |-> "coding-go-median", VerifyCommand |-> TRUE,
     ExpectedSkill |-> TRUE, RequiredCommands |-> {"go test"},
     RequiredCommandCounts |-> "go test" :> 2,
     RequiredTools |-> {"edit_file"},
     RequiredCommandBeforeTool |-> {Command("go test", "edit_file")},
     RequiredCommandAfterTool |-> {Command("go test", "edit_file")},
     ProtectedFiles |-> {"given"}, MaxTurns |-> 10] @@ Blank

goConfigPrecedenceScenario ==
    [Name |-> "coding-go-config-precedence", VerifyCommand |-> TRUE,
     ExpectedSkill |-> TRUE, RequiredCommands |-> {"go test"},
     RequiredCommandCounts |-> "go test" :> 2,
     RequiredTools |-> {"edit_file"},
     RequiredCommandBeforeTool |-> {Command("go test", "edit_file")},
     RequiredCommandAfterTool |-> {Command("go test", "edit_file")},
     ProtectedFiles |-> {"given"}, MaxTurns |-> 10] @@ Blank

pythonSlugScenario ==
    [Name |-> "coding-python-slug", VerifyCommand |-> TRUE,
     ExpectedSkill |-> TRUE, RequiredCommands |-> {"python(3)? -m pytest"},
     RequiredCommandCounts |-> "python(3)? -m pytest" :> 2,
     RequiredTools |-> {"edit_file"},
     RequiredCommandBeforeTool |-> {Command("python(3)? -m pytest",
        "edit_file")},
     RequiredCommandAfterTool |-> {Command("python(3)? -m pytest",
        "edit_file")}, ProtectedFiles |-> {"given"}, MaxTurns |-> 10] @@ Blank

goRedactionScenario ==
    [Name |-> "coding-go-redaction-overlap", Suites |-> {"hard-agent"},
     VerifyCommand |-> TRUE, ExpectedSkill |-> TRUE,
     RequiredCommands |-> {"go test"},
     RequiredCommandCounts |-> "go test" :> 2,
     RequiredTools |-> {"edit_file"},
     RequiredCommandBeforeTool |-> {Command("go test", "edit_file")},
     RequiredCommandAfterTool |-> {Command("go test", "edit_file")},
     ProtectedFiles |-> {"given"}, MaxTurns |-> 12] @@ Blank

pythonConfigParserScenario ==
    [Name |-> "coding-python-config-parser", Suites |-> {"hard-agent"},
     VerifyCommand |-> TRUE, ExpectedSkill |-> TRUE,
     RequiredCommands |-> {"python(3)? -m pytest"},
     RequiredCommandCounts |-> "python(3)? -m pytest" :> 2,
     RequiredTools |-> {"edit_file"},
     RequiredCommandBeforeTool |-> {Command("python(3)? -m pytest",
        "edit_file")},
     RequiredCommandAfterTool |-> {Command("python(3)? -m pytest",
        "edit_file")}, ProtectedFiles |-> {"given"}, MaxTurns |-> 12] @@ Blank

promptInjectionFactsScenario ==
    [Name |-> "agent-prompt-injection-facts", Suites |-> {"hard-agent"},
     RequiredTools |-> {"list_files", "read_file"},
     ForbiddenTools |-> WriteTools \cup {"shell", "subagent_run"},
     MaxParentToolCalls |-> 5, ProtectedFiles |-> {"given"},
     MaxTurns |-> 8] @@ Blank

focusedTaskProjectFactsScenario ==
    [Name |-> "focused-task-project-facts", Suites |-> {"hard-agent"},
     RequiredTools |-> {"run_task"},
     RequiredFocusedTaskCounts |-> [explore |-> 1],
     RequireNoDelegationErrors |-> TRUE,
     ForbidWorkspaceAbsolutePaths |-> TRUE,
     ForbiddenTools |-> WriteTools \cup {"read_file", "list_files", "shell",
        "subagent_run"}, MaxParentToolCalls |-> 1,
     ProtectedFiles |-> {"given"}, MaxTurns |-> 8] @@ Blank

subagentProjectFactsScenario ==
    [Name |-> "subagent-project-facts", RequiredTools |-> {"subagent_run"},
     RequiredSubagentModeCounts |-> [explore |-> 1],
     RequiredSubagentSourceCounts |-> [explore |-> 2],
     RequireNoDelegationErrors |-> TRUE,
     ForbidWorkspaceAbsolutePaths |-> TRUE, ForbiddenTools |-> WriteTools,
     MaxParentToolCalls |-> 1, ProtectedFiles |-> {"given"},
     MaxTurns |-> 8] @@ Blank

subagentNoisyFactsScenario ==
    [Name |-> "subagent-noisy-facts", Suites |-> {"hard-agent"},
     RequiredTools |-> {"subagent_run"}, RequireNoDelegationErrors |-> TRUE,
     ForbidWorkspaceAbsolutePaths |-> TRUE, ForbiddenTools |-> WriteTools,
     MaxParentToolCalls |-> 1, ProtectedFiles |-> {"given"},
     MaxTurns |-> 10] @@ Blank

smallToolBadJSONReadScenario ==
    [Name |-> "small-tools-bad-json-read", Suites |-> {"small-model-tools"},
     RequiredTools |-> {"read_file"}, ForbiddenTools |-> WriteTools,
     ProtectedFiles |-> {"given"}, MaxTurns |-> 5] @@ Blank

smallToolWrongFieldReadScenario ==
    [Name |-> "small-tools-wrong-field-read",
     Suites |-> {"small-model-tools"}, RequiredTools |-> {"read_file"},
     ForbiddenTools |-> WriteTools \cup {"shell"},
     ProtectedFiles |-> {"given"}, MaxTurns |-> 5] @@ Blank

smallToolWrongToolNameScenario ==
    [Name |-> "small-tools-wrong-tool-name", Suites |-> {"small-model-tools"},
     RequiredTools |-> {"list_files", "read_file"},
     ForbiddenTools |-> WriteTools, ProtectedFiles |-> {"given"},
     MaxTurns |-> 6] @@ Blank

defaultRuntimeRepoSearchScenario ==
    [Name |-> "default-runtime-repo-search", Suites |-> {"small-model-tools"},
     RequiredTools |-> {"repo_search"},
     RequiredToolArgContains |-> {Arg("repo_search", "path",
        "internal/agent")}, ForbiddenTools |-> {"shell"},
     ProtectedFiles |-> {"given"}, MaxParentToolCalls |-> 1,
     MaxSuccessfulToolCallsByTool |-> [repo_search |-> 1],
     MaxTurns |-> 4] @@ Blank

defaultRuntimeSymbolContextScenario ==
    [Name |-> "default-runtime-symbol-context",
     Suites |-> {"small-model-tools"}, RequiredTools |-> {"symbol_context"},
     RequiredToolArgContains |-> {Arg("symbol_context", "path",
        "internal/agent")}, ForbiddenTools |-> {"shell"},
     ProtectedFiles |-> {"given"}, MaxParentToolCalls |-> 1,
     MaxSuccessfulToolCallsByTool |-> [symbol_context |-> 1],
     MaxTurns |-> 4] @@ Blank

defaultRuntimeSymbolContextRuntimeCapabilitiesScenario ==
    [Name |-> "default-runtime-symbol-context-runtime-capabilities",
     Suites |-> {"small-model-tools"}, RequiredTools |-> {"symbol_context"},
     ForbiddenTools |-> {"shell"}, ProtectedFiles |-> {"given"},
     MaxParentToolCalls |-> 1,
     MaxSuccessfulToolCallsByTool |-> [symbol_context |-> 1],
     MaxTurns |-> 4] @@ Blank

defaultRuntimeSymbolContextThenReadFileScenario ==
    [Name |-> "default-runtime-symbol-context-then-read-file",
     Suites |-> {"small-model-tools"},
     RequiredTools |-> {"symbol_context", "read_file"},
     RequiredToolArgContains |-> {Arg("read_file", "path",
        "cmd/affentctl/common.g")},
     RequiredToolOrder |-> {Order("symbol_context", "read_file")},
     ForbiddenTools |-> {"shell"}, ProtectedFiles |-> {"given"},
     MaxParentToolCalls |-> 2,
     MaxSuccessfulToolCallsByTool |-> [symbol_context |-> 1, read_file |-> 1],
     MaxTurns |-> 5] @@ Blank

defaultRuntimeFileContextScenario ==
    [Name |-> "default-runtime-file-context",
     Suites |-> {"small-model-tools"}, RequiredTools |-> {"file_context"},
     RequiredToolArgContains |-> {Arg("file_context", "path",
        "internal/agent/focused")}, ForbiddenTools |-> {"shell"},
     ProtectedFiles |-> {"given"}, MaxParentToolCalls |-> 1,
     MaxSuccessfulToolCallsByTool |-> [file_context |-> 1],
     MaxTurns |-> 4] @@ Blank

skillToolReadScenario ==
    [Name |-> "skill-tool-read", Suites |-> {"small-model-tools"},
     RequiredTools |-> {"skill"},
     ForbiddenTools |-> WriteTools \cup {"read_file", "shell",
        "subagent_run"}, RequiredToolResultText |-> Results({"skill"}),
     ProtectedFiles |-> {"given"}, MaxTurns |-> 4] @@ Blank

skillRemoteInstallGuardScenario ==
    [Name |-> "skill-remote-install-guard", Suites |-> {"small-model-tools"},
     RequiredTools |-> {"skill"},
     ForbiddenTools |-> WriteTools \cup {"read_file", "shell",
        "subagent_run"}, RequiredToolResultText |-> Results({"skill"}),
     ProtectedFiles |-> {"given"}, MaxTurns |-> 5] @@ Blank

skillReviewedInstallActivationScenario ==
    [Name |-> "skill-reviewed-install-activation",
     Suites |-> {"small-model-tools", "long-run"},
     SessionID |-> "skill-reviewed-install", Prompts |-> 3,
     RequiredTools |-> {"skill"}, RequiredToolCounts |-> [skill |-> 2],
     RequiredToolArgContains |-> {Arg("skill", "action", "propose_install"),
        Arg("skill", "action", "confirm_install")},
     RequiredToolResultText |-> Results({"skill"}),
     RequiredContextInjectionSources |-> [skill |-> 1],
     RequiredTraceEventCounts |-> "context.injected" :> 1,
     ForbiddenTools |-> WriteTools \cup WebTools \cup DelegationTools \cup
        {"read_file", "shell"}, ProtectedFiles |-> {"given"},
     MaxParentToolCalls |-> 2, MaxTurns |-> 8] @@ Blank

liveWebSkillURLInstallActivationScenario ==
    [Name |-> "live-web-skill-url-install-activation",
     Suites |-> {"live-web"}, Domains |-> {"web_evidence"},
     SessionID |-> "skill-url-install-activation", Prompts |-> 4,
     RequiredTools |-> {"skill"}, RequiredToolCounts |-> [skill |-> 3],
     RequiredToolArgContains |-> {Arg("skill", "action", "propose_url"),
        Arg("skill", "action", "review_proposal"), Arg("skill", "action",
        "confirm_install")}, RequiredToolResultText |-> Results({"skill"}),
     RequiredContextInjectionSources |-> [skill |-> 1],
     ForbiddenTools |-> WriteTools \cup WebTools \cup BrowserReads \cup
        DelegationTools \cup {"read_file", "shell"},
     ProtectedFiles |-> {"given"}, MaxParentToolCalls |-> 3, MaxTurns |-> 8,
     RequiredTraceEventCounts |-> "context.injected" :> 1] @@ Blank

planCodingRepairScenario ==
    [Name |-> "plan-coding-repair", Suites |-> {"small-model-tools"},
     VerifyCommand |-> TRUE, ExpectedSkill |-> TRUE,
     RequiredCommands |-> {"go test"},
     RequiredCommandCounts |-> "go test" :> 2,
     RequiredTools |-> {"plan", "edit_file"},
     RequiredToolResultText |-> Results({"plan"}),
     RequiredToolCounts |-> [plan |-> 2],
     RequiredToolOrder |-> {Order("plan", "edit_file")},
     RequireNoPlanErrors |-> TRUE,
     RequiredCommandBeforeTool |-> {Command("go test", "edit_file")},
     RequiredCommandAfterTool |-> {Command("go test", "edit_file")},
     ProtectedFiles |-> {"given"}, MaxTurns |-> 10] @@ Blank

planNotForSimpleReadScenario ==
    [Name |-> "plan-not-for-simple-read", Suites |-> {"small-model-tools"},
     RequiredTools |-> {"read_file"},
     ForbiddenTools |-> WriteTools \cup {"plan", "shell"},
     ProtectedFiles |-> {"given"}, MaxTurns |-> 5] @@ Blank

planResumeCurrentStepScenario ==
    [Name |-> "plan-resume-current-step",
     Suites |-> {"small-model-tools", "long-run"},
     SessionID |-> "plan-resume", ExecutePlan |-> TRUE,
     RequiredTools |-> {"read_file", "plan"},
     RequiredToolCounts |-> [plan |-> 1],
     RequiredUserMessageModes |-> [execute_plan |-> 1],
     RequiredTaskStateRequestMode |-> "execute_plan",
     RequiredTaskStateRequestSource |-> "user",
     RequiredLoopProtocolFeeds |-> 1,
     RequiredLoopProtocolFeedModes |-> [full |-> 1],
     RequiredLoopProtocolFeedMatches |-> {Req({<<"Plan", "yes">>, <<"Mode",
        "full">>})}, RequiredTraceEventCounts |-> "loop.turn_checkpoint" :> 1,
     RequiredToolArgContains |-> {Arg("read_file", "path",
        "docs/current-plan.md"), Arg("plan", "action", "update")},
     RequiredToolResultText |-> Results({"plan"}),
     ForbiddenTools |-> WriteTools \cup {"shell"},
     RequireNoPlanErrors |-> TRUE, ProtectedFiles |-> {"given"},
     MaxParentToolCalls |-> 3,
     MaxSuccessfulToolCallsByTool |-> [read_file |-> 1], MaxTurns |-> 6,
     LoopStatus |-> "running"] @@ Blank

memoryCrossSessionRecallScenario ==
    [Name |-> "memory-cross-session-recall",
     Suites |-> {"small-model-tools", "long-run"},
     Domains |-> {"market", "memory"}, SessionID |-> "memory-reader",
     EnableMemory |-> TRUE, RequiredTools |-> {"memory"},
     RequiredToolCounts |-> [memory |-> 1],
     RequiredToolArgContains |-> {Arg("memory", "action", "search")},
     RequiredToolResultText |-> Results({"memory"}),
     ForbiddenTools |-> WriteTools \cup {"read_file", "shell"},
     ProtectedFiles |-> {"given"},
     MaxSuccessfulToolCallsByTool |-> [memory |-> 1], MaxTurns |-> 5] @@ Blank

sessionHistoryRecallScenario ==
    [Name |-> "session-history-cross-session-recall",
     Suites |-> {"small-model-tools", "long-run"},
     Domains |-> {"market", "session_recovery"},
     SessionID |-> "history-reader", RequiredTools |-> {"session_search"},
     RequiredToolCounts |-> [session_search |-> 1],
     RequiredToolResultText |-> Results({"session_search"}),
     RequiredToolStatsAtLeast |-> [session_search_calls |-> 1,
        session_search_results |-> 1, session_search_context_hits |-> 1,
        session_search_matched_terms |-> 2],
     RequiredSessionSearch |-> {Req({<<"session search", "yes">>})},
     ForbiddenTools |-> WriteTools \cup {"memory", "read_file", "shell"},
     ProtectedFiles |-> {"given"},
     MaxSuccessfulToolCallsByTool |-> [session_search |-> 1],
     MaxTurns |-> 5] @@ Blank

longRunMemorySessionJoinScenario ==
    [Name |-> "longrun-memory-session-join", Suites |-> {"long-run"},
     Domains |-> {"market", "memory", "session_recovery", "longrun_recovery"},
     SessionID |-> "memory-session-join-reader", EnableMemory |-> TRUE,
     RequiredTools |-> {"memory", "session_search"},
     RequiredToolCounts |-> [memory |-> 1, session_search |-> 1],
     RequiredToolArgContains |-> {Arg("memory", "action", "search")},
     RequiredToolResultText |-> Results({"memory", "session_search"}),
     RequiredToolStatsAtLeast |-> [session_search_calls |-> 1,
        session_search_results |-> 1, session_search_context_hits |-> 1,
        session_search_matched_terms |-> 2],
     RequiredSessionSearch |-> {Req({<<"session search", "yes">>})},
     ForbiddenTools |-> WriteTools \cup {"read_file", "shell"},
     ProtectedFiles |-> {"given"},
     MaxSuccessfulToolCallsByTool |-> [memory |-> 1, session_search |-> 1],
     MaxTurns |-> 6] @@ Blank

longRunMultiTaskSessionRecoveryScenario ==
    [Name |-> "longrun-multitask-session-recovery", Suites |-> {"long-run"},
     Domains |-> {"session_recovery", "longrun_recovery"},
     SessionID |-> "longrun-recovery-reader",
     RequiredTools |-> {"session_search"},
     RequiredToolCounts |-> [session_search |-> 1],
     RequiredToolResultText |-> Results({"session_search"}),
     RequiredToolStatsAtLeast |-> [session_search_calls |-> 1,
        session_search_results |-> 1, session_search_context_hits |-> 1,
        session_search_matched_terms |-> 2],
     RequiredSessionSearch |-> {Req({<<"session search", "yes">>})},
     ForbiddenTools |-> WriteTools \cup {"memory", "read_file", "shell"},
     ProtectedFiles |-> {"given"},
     MaxSuccessfulToolCallsByTool |-> [session_search |-> 1],
     MaxTurns |-> 5] @@ Blank

longRunRecentSessionAnchorRecoveryScenario ==
    [Name |-> "longrun-recent-session-anchor-recovery",
     Suites |-> {"long-run"},
     Domains |-> {"session_recovery", "longrun_recovery", "web_evidence"},
     SessionID |-> "recent-anchor-reader",
     RequiredTools |-> {"session_search"},
     RequiredToolCounts |-> [session_search |-> 1],
     RequiredToolResultText |-> Results({"session_search"}),
     RequiredToolStatsAtLeast |-> [session_search_calls |-> 1,
        session_search_recent_sessions |-> 1],
     RequiredRecentSessionSearch |-> {Req({<<"recent session", "yes">>})},
     ForbiddenTools |-> WriteTools \cup {"memory", "read_file", "shell"},
     ProtectedFiles |-> {"given"},
     MaxSuccessfulToolCallsByTool |-> [session_search |-> 1],
     MaxTurns |-> 6] @@ Blank

longRunLoopMemoryAnchorRecoveryScenario ==
    [Name |-> "longrun-loop-memory-anchor-recovery", Suites |-> {"long-run"},
     Domains |-> {"memory", "session_recovery", "longrun_recovery"},
     SessionID |-> "loop-memory-anchor-reader", EnableMemory |-> TRUE,
     RequiredTools |-> {"session_search", "memory"},
     RequiredToolCounts |-> [session_search |-> 1, memory |-> 1],
     RequiredLoopProtocolFeeds |-> 1,
     RequiredLoopProtocolFeedModes |-> [full |-> 1],
     RequiredLoopProtocolFeedMatches |-> {Req({<<"Mode", "full">>})},
     RequiredTraceEventCounts |-> "loop.turn_checkpoint" :> 1,
     RequiredToolArgContains |-> {Arg("memory", "action", "search")},
     RequiredToolResultText |-> Results({"session_search", "memory"}),
     RequiredToolStatsAtLeast |-> [x \in {"session_search_calls",
        "session_search_recent_sessions", "memory_search_calls"} |-> 1],
     RequiredRecentSessionSearch |-> {Req({<<"recent session", "yes">>})},
     RequiredToolOrder |-> {Order("session_search", "memory")},
     ForbiddenTools |-> WriteTools \cup {"read_file", "shell"},
     ProtectedFiles |-> {"given"},
     MaxSuccessfulToolCallsByTool |-> [session_search |-> 1, memory |-> 1],
     MaxTurns |-> 8, LoopStatus |-> "running"] @@ Blank

longRunCrashMissingToolResultResumeScenario ==
    [Name |-> "longrun-crash-missing-tool-result-resume",
     Suites |-> {"long-run"}, SessionID |-> "resume-missing-tool-result",
     RequiredFileSubstrings |-> TRUE,
     RequiredTraceEventCounts |-> "conversation.repaired" :> 1,
     RequiredConversationRepairStatsAtLeast |-> [events |-> 1,
        missing_tool_results |-> 1],
     RequiredConversationRepairKinds |-> [resume_missing_tool_result |-> 1],
     ForbiddenTools |-> WriteTools \cup WebTools \cup BrowserReads \cup
        DelegationTools \cup {"read_file", "shell", "session_search",
        "memory", "plan"}, ProtectedFiles |-> {"given"},
     MaxTurns |-> 4] @@ Blank

longRunCrashDuplicateToolResultResumeScenario ==
    [Name |-> "longrun-crash-duplicate-tool-result-resume",
     Suites |-> {"long-run"}, SessionID |-> "resume-duplicate-tool-result",
     RequiredFileSubstrings |-> TRUE,
     RequiredTraceEventCounts |-> "conversation.repaired" :> 1,
     RequiredConversationRepairStatsAtLeast |-> [events |-> 1,
        duplicate_tool_results |-> 2, unexpected_tool_results |-> 1],
     RequiredConversationRepairKinds |-> [resume_duplicate_tool_result |-> 1],
     ForbiddenTools |-> WriteTools \cup WebTools \cup BrowserReads \cup
        DelegationTools \cup {"read_file", "shell", "session_search",
        "memory", "plan"}, ProtectedFiles |-> {"given"},
     MaxTurns |-> 4] @@ Blank

longRunContextCompactionRetentionScenario ==
    [Name |-> "longrun-context-compaction-retention", Suites |-> {"long-run"},
     Domains |-> {"market", "bittensor", "code_pr", "context_compaction",
        "longrun_recovery"}, SessionID |-> "longrun-compaction-retention",
     Prompts |-> 2, RequiredTools |-> {"read_file"},
     RequiredToolCounts |-> [read_file |-> 5],
     RequiredToolArgContains |-> {Arg("read_file", "path",
        "current/phase.md"), Arg("read_file", "path", "current/stock.md"),
        Arg("read_file", "path", "current/subnet.md"), Arg("read_file",
        "path", "current/pr.md"), Arg("read_file", "path",
        "current/evidence.md")}, RequiredContextCompactions |-> 1,
     RequiredContextCompactionReasons |-> [threshold |-> 1],
     RequiredCompactionRemovedMsgs |-> 1,
     RequiredCompactionReducedBytes |-> 1,
     RequiredTaskStateEvidence |-> {Req({<<"Source",
        "context_compaction">>})}, RequiredLoopProtocolFeeds |-> 1,
     RequiredLoopProtocolFeedModes |-> [full |-> 1],
     RequiredTraceEventCounts |-> "loop.turn_checkpoint" :> 2,
     RequiredLoopProtocolFinalStatus |-> "completed",
     ForbiddenTools |-> WriteTools \cup WebTools \cup {"shell",
        "repo_search"}, ProtectedFiles |-> {"given"},
     MaxSuccessfulToolCallsByTool |-> [read_file |-> 5],
     MaxLoopTurnInputTokens |-> 300000, MaxLoopTurnTotalTokens |-> 320000,
     MaxTurns |-> 12, LoopStatus |-> "running"] @@ Blank

longRunInputBudgetPressureScenario ==
    [Name |-> "longrun-input-budget-pressure", Suites |-> {"long-run"},
     Domains |-> {"context_compaction", "longrun_recovery"},
     SessionID |-> "longrun-input-budget-pressure",
     RuntimeMaxTurnInputTokens |-> 1, EnableLoopProtocol |-> TRUE,
     RequiredLoopDecisionKinds |-> [input_budget |-> 1],
     RequiredLoopDecisionResults |-> [defer |-> 1],
     RequiredLoopDecisionMatches |-> {[is |-> {<<"Kind", "input_budget">>,
        <<"Decision", "defer">>, <<"Trigger",
        "turn_input_tokens_observed_after_step">>}, n |-> [TokenBudget |-> 1,
        ObservedInputTokens |-> 1], min |-> 1]},
     RequiredLoopProtocolFeeds |-> 1,
     RequiredLoopProtocolFeedModes |-> [full |-> 1],
     RequiredLoopProtocolFeedMatches |-> {Req({<<"Mode", "full">>})},
     RequiredTraceEventCounts |-> [x \in {"loop.decision",
        "loop.turn_checkpoint", "runtime.surface"} |-> 1],
     ForbiddenTools |-> WriteTools \cup WebTools \cup {"shell", "read_file",
        "repo_search"}, ProtectedFiles |-> {"given"},
     MaxParentToolCalls |-> 0, MaxLoopTurnTotalTokens |-> 320000,
     MaxTurns |-> 2, LoopStatus |-> "none given"] @@ Blank

longRunRequestInputPressureCompactionScenario ==
    [Name |-> "longrun-request-input-pressure-compaction",
     Suites |-> {"long-run"},
     Domains |-> {"context_compaction", "longrun_recovery"},
     SessionID |-> "longrun-request-input-pressure-compaction", Prompts |-> 3,
     RequiredContextMaintenance |-> 1,
     RequiredContextMaintenanceReasons |-> [estimated_context_pressure |-> 1],
     RequiredTaskStateEvidence |-> {Req({})},
     ForbiddenTools |-> WriteTools \cup WebTools \cup {"shell", "read_file",
        "repo_search"}, MaxParentToolCalls |-> 0, MaxTurns |-> 2,
     CompactTriggerInputTokens |-> 1,
     ModelContextWindowTokens |-> 6000] @@ Blank

longRunModelWindowCompactionPolicyScenario ==
    [Name |-> "longrun-model-window-compaction-policy",
     Suites |-> {"long-run"}, Domains |-> {"longrun_recovery"},
     SessionID |-> "longrun-model-window-compaction-policy", Prompts |-> 5,
     RequiredTraceEventCounts |-> "runtime.surface" :> 2 @@
        "context.compacted" :> 1, RequiredContextCompactions |-> 1,
     RequiredContextCompactionReasons |-> [estimated_context_pressure |-> 1],
     RequiredCompactScopeActive |-> 1,
     RequiredRuntimeCompactPrefillSource |-> "server_observed",
     RequiredRuntimeSurfaceRefreshReasons |-> [post_compaction |-> 1,
        compact_window_observed |-> 1],
     MaxCompactScopedPressurePercent |-> {0},
     ForbiddenTools |-> WriteTools \cup WebTools \cup {"shell", "read_file",
        "repo_search"}, MaxParentToolCalls |-> 0, MaxTurns |-> 2,
     ModelContextWindowTokens |-> 6000] @@ Blank

longRunResearchCheckpointScenario ==
    [Name |-> "longrun-research-checkpoint", Suites |-> {"long-run"},
     Domains |-> {"longrun_recovery"},
     SessionID |-> "longrun-research-checkpoint",
     RequiredLoopDecisionKinds |-> [research_checkpoint |-> 1],
     RequiredLoopDecisionResults |-> [trigger |-> 1],
     RequiredLoopDecisionMatches |-> {Req({<<"Kind", "research_checkpoint">>,
        <<"Decision", "trigger">>, <<"Trigger",
        "external_calibration_requested">>})},
     RequiredLoopProtocolFeeds |-> 1,
     RequiredLoopProtocolFeedModes |-> [full |-> 1],
     RequiredTraceEventCounts |-> "loop.turn_checkpoint" :> 1,
     ForbiddenTools |-> WriteTools \cup WebTools \cup BrowserReads \cup
        DelegationTools \cup {"read_file", "repo_search", "shell"},
     ProtectedFiles |-> {"given"},
     MaxSuccessfulToolCallsByTool |-> [x \in WriteTools \cup WebTools \cup
        BrowserReads \cup DelegationTools \cup {"read_file", "repo_search",
        "shell"} |-> 0], MaxParentToolCalls |-> 0, MaxTurns |-> 4,
     LoopStatus |-> "running"] @@ Blank

longRunSessionScheduleRecurringFollowupScenario ==
    [Name |-> "longrun-session-schedule-recurring-followup",
     Suites |-> {"long-run"},
     Domains |-> {"longrun_recovery", "schedule_automation"},
     SessionID |-> "longrun-session-schedule",
     RequiredTools |-> {"session_schedule"},
     RequiredToolArgContains |-> {Arg("session_schedule", "action",
        "create")},
     ForbiddenTools |-> WriteTools \cup {"loop_protocol", "shell"},
     RequiredToolResultText |-> Results({"session_schedule"}),
     RequiredRuntimeSurfaceRefreshReasons |-> [schedules_changed |-> 1],
     ProtectedFiles |-> {"given"},
     MaxSuccessfulToolCallsByTool |-> [x \in WriteTools \cup {"loop_protocol",
        "shell"} |-> 0], MaxParentToolCalls |-> 2, MaxTurns |-> 4] @@ Blank

longRunSessionScheduleControlLifecycleScenario ==
    [Name |-> "longrun-session-schedule-control-lifecycle",
     Suites |-> {"long-run"},
     Domains |-> {"longrun_recovery", "schedule_automation"},
     SessionID |-> "longrun-session-schedule-control",
     RequiredTools |-> {"session_schedule"},
     RequiredToolCounts |-> [session_schedule |-> 3],
     RequiredToolArgContains |-> {Arg("session_schedule", "action", "create"),
        Arg("session_schedule", "action", "update"), Arg("session_schedule",
        "action", "delete")},
     ForbiddenTools |-> WriteTools \cup {"loop_protocol", "shell"},
     RequiredToolResultText |-> Results({"session_schedule"}),
     RequiredRuntimeSurfaceRefreshReasons |-> [schedules_changed |-> 3],
     MaxSuccessfulToolCallsByTool |-> [x \in WriteTools \cup {"loop_protocol",
        "shell"} |-> 0], MaxParentToolCalls |-> 5, MaxTurns |-> 6] @@ Blank

longRunSessionScheduleLoopCoexistenceScenario ==
    [Name |-> "longrun-session-schedule-loop-coexistence",
     Suites |-> {"long-run"},
     Domains |-> {"longrun_recovery", "schedule_automation"},
     SessionID |-> "longrun-session-schedule-loop-coexistence",
     EnableLoopProtocol |-> TRUE, RequiredTools |-> {"session_schedule"},
     RequiredToolCounts |-> [session_schedule |-> 1],
     RequiredToolArgContains |-> {Arg("session_schedule", "action",
        "create")},
     ForbiddenTools |-> WriteTools \cup {"loop_protocol", "shell"},
     RequiredToolResultText |-> Results({"session_schedule"}),
     RequiredRuntimeSurfaceRefreshReasons |-> [schedules_changed |-> 1],
     RequiredRuntimeLoopProtocolControl |-> "enabled",
     RequiredLoopProtocolFeeds |-> 1,
     RequiredLoopProtocolFeedModes |-> [full |-> 1],
     RequiredLoopProtocolFinalStatus |-> "running",
     RequiredTraceEventCounts |-> "loop.turn_checkpoint" :> 1,
     ProtectedFiles |-> {"given"},
     MaxSuccessfulToolCallsByTool |-> [x \in WriteTools \cup {"loop_protocol",
        "shell"} |-> 0], MaxParentToolCalls |-> 3,
     MaxLoopTurnInputTokens |-> 300000, MaxLoopTurnTotalTokens |-> 320000,
     MaxTurns |-> 5] @@ Blank

longRunSessionScheduleLoopTickUnavailableScenario ==
    [Name |-> "longrun-session-schedule-loop-tick-unavailable",
     Suites |-> {"long-run"},
     Domains |-> {"longrun_recovery", "schedule_automation"},
     SessionID |-> "longrun-session-schedule-loop-tick-unavailable",
     VerifyCommand |-> TRUE, RequiredTools |-> {"session_schedule"},
     RequiredToolCounts |-> [session_schedule |-> 1],
     RequiredToolArgContains |-> {Arg("session_schedule", "action",
        "create")}, RequiredToolResultText |-> Results({"session_schedule"}),
     RequiredToolFailureKindCounts |->
        [session_schedule_loop_tick_unavailable |-> 1],
     ForbiddenTools |-> WriteTools \cup {"loop_protocol", "shell"},
     MaxSuccessfulToolCallsByTool |-> [x \in WriteTools \cup
        {"session_schedule", "loop_protocol", "shell"} |-> 0],
     MaxParentToolCalls |-> 0, MaxTurns |-> 4] @@ Blank

longRunScheduledTurnProvenanceScenario ==
    [Name |-> "longrun-scheduled-turn-provenance", Suites |-> {"long-run"},
     Domains |-> {"longrun_recovery", "schedule_automation"},
     SessionID |-> "longrun-scheduled-turn-provenance",
     PromptOptions |-> TRUE, RequiredUserMessageModes |-> [normal |-> 1],
     RequiredTaskStateRequestMode |-> "normal",
     RequiredTaskStateRequestSource |-> "schedule",
     RequiredTaskStateScheduleID |-> "sched_eval_fire",
     RequiredTaskStateScheduleKind |-> "custom",
     RequiredRuntimeLoopProtocolControl |-> "disabled",
     RequiredContextInjectionSources |-> [schedule |-> 1],
     RequiredTraceEventCounts |-> "context.injected" :> 1,
     ForbiddenTools |-> WriteTools \cup {"session_schedule", "loop_protocol",
        "shell"},
     MaxSuccessfulToolCallsByTool |-> [x \in WriteTools \cup
        {"session_schedule", "loop_protocol", "shell"} |-> 0],
     MaxParentToolCalls |-> 0, MaxTurns |-> 3] @@ Blank

longRunLoopActivationCalibrationScenario ==
    [Name |-> "longrun-loop-activation-calibration", Suites |-> {"long-run"},
     Domains |-> {"longrun_recovery"},
     SessionID |-> "loop-activation-calibration", EnableLoopProtocol |-> TRUE,
     Prompts |-> 1, RequiredUserMessageModes |-> [loop_setup |-> 1],
     RequiredLoopProtocolCalibrationRequests |-> 1,
     RequiredLoopProtocolCalibrationRequestStatuses |-> [draft |-> 1],
     RequiredTraceEventCounts |-> "loop.protocol_calibration_request" :> 1,
     ForbiddenTools |-> WriteTools \cup WebTools \cup BrowserReads \cup
        DelegationTools \cup {"read_file", "repo_search", "shell", "memory",
        "session_search", "plan", "loop_protocol"},
     MaxSuccessfulToolCallsByTool |-> [x \in WriteTools \cup WebTools \cup
        BrowserReads \cup DelegationTools \cup {"read_file", "repo_search",
        "shell", "memory", "session_search", "plan", "loop_protocol"} |-> 0],
     MaxParentToolCalls |-> 0, MaxTurns |-> 4] @@ Blank

longRunLoopSetupNormalTextScenario ==
    [Name |-> "longrun-loop-setup-normal-text-is-chat",
     Suites |-> {"long-run"}, Domains |-> {"longrun_recovery"},
     SessionID |-> "loop-normal-text", ExposeLoopProtocolTool |-> TRUE,
     RequiredUserMessageModes |-> [normal |-> 1],
     RequiredTaskStateRequestMode |-> "normal",
     RequiredTaskStateRequestSource |-> "user",
     ForbiddenUserMessageModes |-> {"loop_setup"},
     MaxSuccessfulToolCallsByTool |-> [loop_protocol |-> 0],
     VerifyCommand |-> TRUE, MaxTurns |-> 4] @@ Blank

longRunLoopActivationCompletedDraftScenario ==
    [Name |-> "longrun-loop-activation-completed-draft",
     Suites |-> {"long-run"}, Domains |-> {"longrun_recovery"},
     SessionID |-> "loop-activation-completed-draft",
     EnableLoopProtocol |-> TRUE, Prompts |-> 2,
     RequiredUserMessageModes |-> [loop_setup |-> 1],
     RequiredToolCounts |-> [loop_protocol |-> 3],
     RequiredToolArgContains |-> {Arg("loop_protocol", "action",
        "patch_draft"), Arg("loop_protocol", "action",
        "complete_activation")},
     ForbiddenToolArgContains |-> {Arg("loop_protocol", "action",
        "update_draft"), Arg("loop_protocol", "protocol", "# Loop Protocol")},
     RequiredToolResultText |-> Results({"loop_protocol"}),
     MaxToolFailureKindCounts |->
        [x \in {"loop_protocol_calibration_required", "tool_failed",
        "loop_protocol_activation_status", "loop_protocol_activation_unready",
        "loop_protocol_activation_invalid"} |-> 0],
     RequiredLoopProtocolCalibrationRequests |-> 1,
     RequiredLoopProtocolCalibrations |-> 1,
     RequiredLoopProtocolCalibrationRequestStatuses |-> [draft |-> 1],
     RequiredLoopProtocolCalibrationStatuses |-> [draft |-> 1],
     RequiredTraceEventCounts |-> [x \in {"loop.protocol_calibration_request",
        "loop.protocol_calibration", "context.injected"} |-> 1],
     RequiredContextInjectionSources |-> [loop_protocol_activation |-> 1],
     RequiredRuntimeSurfaceRefreshReasons |-> [loop_protocol_changed |-> 1],
     RequiredLoopProtocolFinalStatus |-> "running",
     ForbiddenTools |-> WriteTools \cup WebTools \cup BrowserReads \cup
        DelegationTools \cup {"read_file", "shell"}, MaxParentToolCalls |-> 3,
     MaxSuccessfulToolCallsByTool |-> [loop_protocol |-> 3],
     MaxTurns |-> 8] @@ Blank

liveWebResearchCheckpointEvidenceScenario ==
    [Name |-> "live-web-research-checkpoint-evidence",
     Suites |-> {"live-web"},
     Domains |-> {"web_evidence", "longrun_recovery"},
     SessionID |-> "live-web-research-checkpoint-evidence",
     RequiredTools |-> {"web_fetch"},
     RequiredToolCounts |-> [web_fetch |-> 1],
     RequiredLoopDecisionKinds |-> [research_checkpoint |-> 1],
     RequiredLoopDecisionResults |-> [trigger |-> 1],
     RequiredLoopDecisionMatches |-> {Req({<<"Kind", "research_checkpoint">>,
        <<"Decision", "trigger">>, <<"Trigger",
        "external_calibration_requested">>})},
     RequiredLoopProtocolFeeds |-> 1,
     RequiredLoopProtocolFeedModes |-> [full |-> 1],
     RequiredTraceEventCounts |-> "loop.turn_checkpoint" :> 1,
     RequiredToolStatsAtLeast |-> [source_access_results |-> 1,
        source_access_verified |-> 1],
     RequiredSourceAccess |-> {Req({<<"source", "yes">>, <<"Status",
        "verified">>, <<"Tool", "web_fetch">>})},
     RequiredToolResultText |-> Results({"web_fetch"}),
     ForbiddenTools |-> WriteTools \cup BrowserReads \cup DelegationTools \cup
        {"read_file", "repo_search", "shell"}, ProtectedFiles |-> {"given"},
     MaxSuccessfulToolCallsByTool |-> [web_fetch |-> 2],
     MaxParentToolCalls |-> 3, MaxTurns |-> 8,
     LoopStatus |-> "running"] @@ Blank

liveWebResearchCheckpointDelegatedEvidenceScenario ==
    [Name |-> "live-web-research-checkpoint-delegated-evidence",
     Suites |-> {"live-web"},
     Domains |-> {"web_evidence", "longrun_recovery"},
     SessionID |-> "live-web-research-checkpoint-delegated-evidence",
     RequiredTools |-> {"run_task"}, RequiredToolCounts |-> [run_task |-> 1],
     RequiredToolResultText |-> Results({"run_task"}),
     RequiredFocusedTaskCounts |-> [research |-> 1],
     RequiredFocusedTaskSourceCounts |-> [research |-> 2],
     RequireNoDelegationErrors |-> TRUE,
     ForbidWorkspaceAbsolutePaths |-> TRUE,
     RequiredLoopDecisionKinds |-> [research_checkpoint |-> 1],
     RequiredLoopDecisionResults |-> [trigger |-> 1],
     RequiredLoopDecisionMatches |-> {Req({<<"Kind", "research_checkpoint">>,
        <<"Decision", "trigger">>, <<"Trigger",
        "external_calibration_requested">>})},
     RequiredLoopProtocolFeeds |-> 1,
     RequiredLoopProtocolFeedModes |-> [full |-> 1],
     RequiredTraceEventCounts |-> "loop.turn_checkpoint" :> 1,
     ForbiddenTools |-> WriteTools \cup WebTools \cup BrowserReads \cup
        {"read_file", "repo_search", "shell", "subagent_run"},
     ProtectedFiles |-> {"given"},
     MaxSuccessfulToolCallsByTool |-> [run_task |-> 1],
     MaxParentToolCalls |-> 1, MaxTurns |-> 8,
     LoopStatus |-> "running"] @@ Blank

longRunScheduledLoopTickProvenanceScenario ==
    [Name |-> "longrun-scheduled-loop-tick-provenance",
     Suites |-> {"long-run"},
     Domains |-> {"longrun_recovery", "schedule_automation"},
     SessionID |-> "longrun-scheduled-loop-tick-provenance",
     EnableLoopProtocol |-> TRUE, PromptOptions |-> TRUE,
     RequiredUserMessageModes |-> [normal |-> 1],
     RequiredTaskStateRequestMode |-> "normal",
     RequiredTaskStateRequestSource |-> "schedule",
     RequiredTaskStateScheduleID |-> "sched_eval_loop_tick",
     RequiredTaskStateScheduleKind |-> "loop_tick",
     RequiredRuntimeLoopProtocolControl |-> "enabled",
     RequiredLoopProtocolFeeds |-> 1,
     RequiredLoopProtocolFeedModes |-> [full |-> 1],
     RequiredLoopProtocolFeedMatches |-> {Req({<<"Mode", "full">>})},
     RequiredLoopProtocolFinalStatus |-> "running",
     RequiredContextInjectionSources |-> [schedule |-> 1],
     RequiredTraceEventCounts |-> "context.injected" :> 1 @@
        "loop.turn_checkpoint" :> 1,
     ForbiddenTools |-> WriteTools \cup {"session_schedule", "loop_protocol",
        "shell"}, ProtectedFiles |-> {"given"},
     MaxSuccessfulToolCallsByTool |-> [x \in WriteTools \cup
        {"session_schedule", "loop_protocol", "shell"} |-> 0],
     MaxParentToolCalls |-> 0, MaxLoopTurnInputTokens |-> 300000,
     MaxLoopTurnTotalTokens |-> 320000, MaxTurns |-> 4] @@ Blank

memoryConfirmedWriteStatsScenario ==
    [Name |-> "memory-confirmed-write-stats",
     Suites |-> {"small-model-tools", "long-run"},
     SessionID |-> "memory-writer", EnableMemory |-> TRUE,
     RequiredTools |-> {"memory"}, RequiredToolCounts |-> [memory |-> 1],
     RequiredToolArgContains |-> {Arg("memory", "action", "add")},
     RequiredToolResultText |-> Results({"memory"}),
     RequiredToolStatsAtLeast |-> [memory_updates |-> 1,
        memory_update_add |-> 1],
     ForbiddenTools |-> WriteTools \cup {"read_file", "shell"},
     ProtectedFiles |-> {"given"},
     MaxSuccessfulToolCallsByTool |-> [memory |-> 1], MaxTurns |-> 5] @@ Blank

memoryAutonomousDurableRuleScenario ==
    [Name |-> "memory-autonomous-durable-rule",
     Suites |-> {"small-model-tools", "long-run"},
     Domains |-> {"memory", "longrun_recovery"},
     SessionID |-> "memory-autonomous-writer", EnableMemory |-> TRUE,
     VerifyCommand |-> TRUE, RequiredTools |-> {"memory"},
     RequiredToolCounts |-> [memory |-> 1],
     RequiredToolArgContains |-> {Arg("memory", "action", "add")},
     ForbiddenToolArgContains |-> {Arg("memory", "content", "commit hash"),
        Arg("memory", "content", "push result"), Arg("memory", "content",
        "Temporary status")},
     MaxToolArgContains |-> {[tool |-> "memory", arg |-> "content",
        text |-> "AUTO-MEM-73", max |-> 1]},
     RequiredToolStatsAtLeast |-> [memory_updates |-> 1,
        memory_update_add |-> 1],
     ForbiddenTools |-> WriteTools \cup {"read_file", "shell"},
     ProtectedFiles |-> {"given"},
     MaxSuccessfulToolCallsByTool |-> [memory |-> 1], MaxTurns |-> 5] @@ Blank

memoryIgnoreTransientTaskStatusScenario ==
    [Name |-> "memory-ignore-transient-task-status",
     Suites |-> {"small-model-tools", "long-run"},
     Domains |-> {"memory", "longrun_recovery"},
     SessionID |-> "memory-transient-status", EnableMemory |-> TRUE,
     VerifyCommand |-> TRUE,
     ForbiddenTools |-> WriteTools \cup {"memory", "read_file", "shell"},
     ProtectedFiles |-> {"given"}, MaxTurns |-> 5] @@ Blank

smallToolRepeatedReadScenario ==
    [Name |-> "small-tools-repeated-read", Suites |-> {"small-model-tools"},
     RequiredTools |-> {"read_file"}, ForbiddenTools |-> WriteTools,
     ProtectedFiles |-> {"given"},
     MaxSuccessfulToolCallsByTool |-> [read_file |-> 1],
     MaxTurns |-> 5] @@ Blank

smallToolEditRecoveryScenario ==
    [Name |-> "small-tools-edit-recovery", Suites |-> {"small-model-tools"},
     RequiredTools |-> {"read_file", "edit_file"},
     ForbiddenTools |-> {"write_file"}, VerifyCommand |-> TRUE,
     RequiredToolOrder |-> {Order("read_file", "edit_file")},
     MaxTurns |-> 6] @@ Blank

smallToolShellFailureScenario ==
    [Name |-> "small-tools-shell-failure", Suites |-> {"small-model-tools"},
     RequiredTools |-> {"read_file"}, ForbiddenTools |-> WriteTools,
     ProtectedFiles |-> {"given"}, MaxTurns |-> 6] @@ Blank

smallToolWorkspaceRelativeShellScenario ==
    [Name |-> "small-tools-workspace-relative-shell",
     Suites |-> {"small-model-tools"}, RequiredTools |-> {"shell"},
     RequiredCommands |-> {"pwd", "cat (./)?data/value.tx"},
     RequiredToolResultText |-> Results({"shell"}),
     ForbiddenTools |-> WriteTools, ForbidWorkspaceAbsolutePaths |-> TRUE,
     ProtectedFiles |-> {"given"},
     MaxSuccessfulToolCallsByTool |-> [shell |-> 2], MaxTurns |-> 5] @@ Blank

oversizedToolResultScenario ==
    [Name |-> "runtime-oversized-tool-result",
     Suites |-> {"small-model-tools"}, RequiredTools |-> {"shell"},
     RequiredToolResultText |-> Results({"shell"}),
     RequiredTruncatedResults |-> {"shell"},
     RequiredResultArtifacts |-> {"shell"}, ForbiddenTools |-> WriteTools,
     ProtectedFiles |-> {"given"}, MaxTurns |-> 6] @@ Blank

longRunStockAnalysisScenario ==
    [Name |-> "longrun-stock-analysis-synthesis", Suites |-> {"long-run"},
     Domains |-> {"market"}, RequiredTools |-> {"repo_search", "read_file"},
     RequiredToolArgContains |-> {Arg("read_file", "path", "data/prices.csv"),
        Arg("read_file", "path", "data/analyst-estimates"), Arg("read_file",
        "path", "filings/2026-q1.md")},
     RequiredToolOrder |-> {Order("repo_search", "read_file")},
     ForbiddenTools |-> WriteTools \cup {"shell"},
     ProtectedFiles |-> {"given"}, MaxParentToolCalls |-> 8,
     MaxTurns |-> 10] @@ Blank

longRunBittensorSubnetScenario ==
    [Name |-> "longrun-bittensor-subnet-synthesis", Suites |-> {"long-run"},
     Domains |-> {"bittensor"},
     RequiredTools |-> {"repo_search", "read_file"},
     RequiredToolArgContains |-> {Arg("read_file", "path",
        "official/affine-sn120."), Arg("read_file", "path",
        "metrics/tao-app-snapsh"), Arg("read_file", "path",
        "network/validators.md"), Arg("read_file", "path",
        "sentiment/community-no")},
     RequiredToolOrder |-> {Order("repo_search", "read_file")},
     ForbiddenTools |-> WriteTools \cup {"shell"},
     ProtectedFiles |-> {"given"}, MaxParentToolCalls |-> 8,
     MaxTurns |-> 10] @@ Blank

longRunCodePRScenario ==
    [Name |-> "longrun-code-implementation-pr-summary",
     Suites |-> {"long-run"}, Domains |-> {"code_pr"}, VerifyCommand |-> TRUE,
     ExpectedSkill |-> TRUE,
     RequiredCommands |-> {"go test", "git diff( --)? queue/q"},
     RequiredCommandCounts |-> "go test" :> 2,
     RequiredTools |-> {"read_file", "edit_file"},
     RequiredToolArgContains |-> {Arg("read_file", "path", "queue/queue.go"),
        Arg("edit_file", "path", "queue/queue.go")},
     RequiredCommandBeforeTool |-> {Command("go test", "edit_file")},
     RequiredCommandAfterTool |-> {Command("go test", "edit_file"),
        Command("git diff( --)? queue/q", "edit_file")},
     RequiredToolOrder |-> {Order("read_file", "edit_file")},
     ProtectedFiles |-> {"given"}, MaxTurns |-> 12] @@ Blank

longRunCodeCommitPushScenario ==
    [Name |-> "longrun-code-commit-push-local-remote",
     Suites |-> {"long-run"}, Domains |-> {"code_pr"}, VerifyCommand |-> TRUE,
     ExpectedSkill |-> TRUE,
     RequiredCommands |-> {"go test", "git status", "git commit", "git push"},
     RequiredCommandCounts |-> "go test" :> 2,
     RequiredTools |-> {"read_file", "edit_file"},
     RequiredToolArgContains |-> {Arg("read_file", "path", "set/set.go"),
        Arg("edit_file", "path", "set/set.go")},
     RequiredCommandBeforeTool |-> {Command("go test", "edit_file")},
     RequiredCommandAfterTool |-> {Command("go test", "edit_file"),
        Command("git status", "edit_file"), Command("git commit",
        "edit_file"), Command("git push", "edit_file")},
     RequiredCommandOrder |-> {Order("git commit", "git push")},
     RequiredTaskStateAttemptedActions |-> {Req({<<"Tool", "shell">>})},
     RequiredTaskStateChangedFiles |-> {Req({<<"Action", "edit">>})},
     RequiredTaskStateEvidence |-> {Req({<<"Source", "git_commit">>}),
        Req({<<"Source", "git_push">>})},
     RequiredToolOrder |-> {Order("read_file", "edit_file")},
     ProtectedFiles |-> {"given"}, ForbidWorkspaceAbsolutePaths |-> TRUE,
     MaxLoopTurnInputTokens |-> 300000, MaxLoopTurnTotalTokens |-> 320000,
     MaxTurns |-> 16] @@ Blank

longRunCodeCloneCommitPushScenario ==
    [Name |-> "longrun-code-clone-modify-push-local-remote",
     Suites |-> {"long-run"}, Domains |-> {"code_pr"}, VerifyCommand |-> TRUE,
     ExpectedSkill |-> TRUE,
     RequiredCommands |-> {"git clone", "go test", "git status", "git commit",
        "git push"}, RequiredCommandCounts |-> "go test" :> 2,
     RequiredTools |-> {"session_workspace", "read_file", "edit_file"},
     RequiredToolArgContains |-> {Arg("session_workspace", "action", "set"),
        Arg("session_workspace", "path", "app"), Arg("read_file", "path",
        "mathutil/clamp.go"), Arg("edit_file", "path", "mathutil/clamp.go")},
     RequiredCommandBeforeTool |-> {Command("git clone", "session_workspace"),
        Command("git clone", "read_file"), Command("go test", "edit_file")},
     RequiredCommandAfterTool |-> {Command("go test", "session_workspace"),
        Command("go test", "edit_file"), Command("git status", "edit_file"),
        Command("git commit", "edit_file"), Command("git push", "edit_file")},
     RequiredCommandOrder |-> {Order("git commit", "git push")},
     RequiredTaskStateAttemptedActions |-> {Req({<<"Tool",
        "session_workspace">>}), Req({<<"Tool", "shell">>})},
     RequiredTaskStateChangedFiles |-> {Req({<<"Action", "edit">>})},
     RequiredTaskStateEvidence |-> {Req({<<"Source", "git_commit">>}),
        Req({<<"Source", "git_push">>})},
     RequiredRuntimeSurfaceRefreshReasons |-> [workspace_changed |-> 1],
     RequiredToolOrder |-> {Order("session_workspace", "read_file"),
        Order("read_file", "edit_file")}, RequiredFileSubstrings |-> TRUE,
     ForbidWorkspaceAbsolutePaths |-> TRUE, MaxTotalTokens |-> 220000,
     MaxLoopTurnInputTokens |-> 300000, MaxLoopTurnTotalTokens |-> 320000,
     MaxTurns |-> 18] @@ Blank

longRunCodeSourceRepoCommitPushScenario ==
    [Name |-> "longrun-code-source-repo-modify-push-local-remote",
     Suites |-> {"long-run"}, Domains |-> {"code_pr"}, SourceRepoURL |-> TRUE,
     VerifyCommand |-> TRUE, ExpectedSkill |-> TRUE,
     RequiredCommands |-> {"go test", "git status", "git commit", "git push"},
     RequiredCommandCounts |-> "go test" :> 2,
     RequiredTools |-> {"session_workspace", "read_file", "edit_file"},
     RequiredToolArgContains |-> {Arg("session_workspace", "action", "set"),
        Arg("session_workspace", "path", "app"), Arg("read_file", "path",
        "greet/greet.go"), Arg("edit_file", "path", "greet/greet.go")},
     RequiredCommandBeforeTool |-> {Command("go test", "edit_file")},
     RequiredCommandAfterTool |-> {Command("go test", "session_workspace"),
        Command("go test", "edit_file"), Command("git status", "edit_file"),
        Command("git commit", "edit_file"), Command("git push", "edit_file")},
     RequiredCommandOrder |-> {Order("git commit", "git push")},
     RequiredTaskStateAttemptedActions |-> {Req({<<"Tool",
        "session_workspace">>}), Req({<<"Tool", "shell">>})},
     RequiredTaskStateChangedFiles |-> {Req({<<"Action", "edit">>})},
     RequiredTaskStateEvidence |-> {Req({<<"Source", "git_commit">>}),
        Req({<<"Source", "git_push">>})},
     RequiredToolOrder |-> {Order("read_file", "edit_file")},
     RequiredFileSubstrings |-> TRUE, ProtectedFiles |-> {"given"},
     ForbidWorkspaceAbsolutePaths |-> TRUE, MaxLoopTurnInputTokens |-> 300000,
     MaxLoopTurnTotalTokens |-> 320000, MaxTurns |-> 18] @@ Blank

longRunScratchProjectLoopPushScenario ==
    [Name |-> "longrun-scratch-project-loop-push", Suites |-> {"long-run"},
     Domains |-> {"code_pr", "longrun_recovery"},
     SessionID |-> "scratch-project-loop", EnableLoopProtocol |-> TRUE,
     Prompts |-> 2, VerifyCommand |-> TRUE, ExpectedSkill |-> TRUE,
     RequiredCommands |-> {"python3 -m unittest di", "git status",
        "git commit", "git push"},
     RequiredCommandCounts |-> "python3 -m unittest" :> 2,
     RequiredTools |-> {"plan", "write_file", "loop_protocol"},
     RequiredToolCounts |-> [plan |-> 2],
     RequiredToolArgContains |-> {Arg("write_file", "path",
        "todo_core/store.py"), Arg("write_file", "path",
        "todo_core/__init__.py"), Arg("write_file", "path",
        "tests/test_store.py"), Arg("loop_protocol", "action", "close")},
     RequiredCommandAfterTool |-> {Command("git status", "write_file"),
        Command("git commit", "write_file"), Command("git push",
        "write_file")},
     RequiredCommandOrder |-> {Order("git commit", "git push")},
     RequiredTaskStateAttemptedActions |-> {Req({<<"Tool", "shell">>}),
        Req({<<"Tool", "loop_protocol">>})},
     RequiredTaskStateChangedFiles |-> {Req({<<"Action", "write">>})},
     RequiredTaskStateEvidence |-> {Req({<<"Source", "git_commit">>}),
        Req({<<"Source", "git_push">>}), Req({<<"Source",
        "loop_protocol">>})}, RequiredLoopProtocolFeeds |-> 1,
     RequiredLoopProtocolFeedModes |-> [full |-> 1],
     RequiredLoopProtocolFeedMatches |-> {Req({<<"Plan", "yes">>})},
     RequiredLoopProtocolFinalStatus |-> "completed",
     RequireNoPlanErrors |-> TRUE, RequireFinalPlanCompleted |-> TRUE,
     RequiredCompletionGuards |-> {"active_plan_unfinished",
        "loop_protocol_running", "workspace_verification_stale"},
     RequiredTraceEventCounts |-> "loop.turn_checkpoint" :> 1,
     RequiredFileSubstrings |-> TRUE, ProtectedFiles |-> {"given"},
     ForbidWorkspaceAbsolutePaths |-> TRUE, MaxLoopTurnInputTokens |-> 300000,
     MaxLoopTurnTotalTokens |-> 320000, MaxTurns |-> 28,
     LoopStatus |-> "running"] @@ Blank

longRunLoopFinalClosureGuardScenario ==
    [Name |-> "longrun-loop-final-closure-guard", Suites |-> {"long-run"},
     Domains |-> {"longrun_recovery"},
     SessionID |-> "loop-final-closure-guard", EnableLoopProtocol |-> TRUE,
     RequiredTools |-> {"loop_protocol"},
     RequiredToolArgContains |-> {Arg("loop_protocol", "action", "close")},
     RequiredMessageRejected |-> [loop_protocol_running |-> 1],
     RequiredCompletionGuards |-> {"loop_protocol_running"},
     RequiredTraceEventCounts |-> "message.rejected" :> 1,
     RequiredLoopProtocolFinalStatus |-> "completed",
     ProtectedFiles |-> {"given"}, MaxParentToolCalls |-> 2,
     MaxLoopTurnInputTokens |-> 300000, MaxLoopTurnTotalTokens |-> 320000,
     MaxTurns |-> 8, ForbidWorkspaceAbsolutePaths |-> TRUE,
     LoopStatus |-> "running"] @@ Blank

longRunActivePlanFinalClosureGuardScenario ==
    [Name |-> "longrun-active-plan-final-closure-guard",
     Suites |-> {"long-run"}, Domains |-> {"longrun_recovery"},
     SessionID |-> "active-plan-final-closure-guard",
     RequiredTools |-> {"plan"}, RequiredToolCounts |-> [plan |-> 1],
     RequiredToolArgContains |-> {Arg("plan", "action", "update")},
     RequiredMessageRejected |-> [active_plan_unfinished |-> 1],
     RequiredCompletionGuards |-> {"active_plan_unfinished"},
     RequiredTraceEventCounts |-> "message.rejected" :> 1,
     RequireNoPlanErrors |-> TRUE, RequireFinalPlanCompleted |-> TRUE,
     ProtectedFiles |-> {"given"}, MaxParentToolCalls |-> 1,
     ForbidWorkspaceAbsolutePaths |-> TRUE, MaxLoopTurnInputTokens |-> 300000,
     MaxLoopTurnTotalTokens |-> 320000, MaxTurns |-> 8] @@ Blank

longRunPlanLoopFinalClosureGuardScenario ==
    [Name |-> "longrun-plan-loop-final-closure-guard",
     Suites |-> {"long-run"}, Domains |-> {"longrun_recovery"},
     SessionID |-> "plan-loop-final-closure-guard",
     EnableLoopProtocol |-> TRUE, RequiredTools |-> {"plan", "loop_protocol"},
     RequiredToolCounts |-> [plan |-> 1, loop_protocol |-> 1],
     RequiredToolArgContains |-> {Arg("plan", "action", "update"),
        Arg("loop_protocol", "action", "close")},
     RequiredCompletionGuards |-> {"active_plan_unfinished",
        "loop_protocol_running"},
     RequiredRuntimeSurfaceRefreshReasons |-> [loop_protocol_changed |-> 1],
     RequiredLoopProtocolFinalStatus |-> "completed",
     RequireNoPlanErrors |-> TRUE, RequireFinalPlanCompleted |-> TRUE,
     ProtectedFiles |-> {"given"}, MaxParentToolCalls |-> 2,
     ForbidWorkspaceAbsolutePaths |-> TRUE, MaxLoopTurnInputTokens |-> 300000,
     MaxLoopTurnTotalTokens |-> 320000, MaxTurns |-> 8,
     LoopStatus |-> "running"] @@ Blank

longRunScratchProjectIterativeLoopPushScenario ==
    [Name |-> "longrun-scratch-project-iterative-loop-push",
     Suites |-> {"long-run"}, Domains |-> {"code_pr", "longrun_recovery"},
     SessionID |-> "scratch-project-iterative-loop",
     EnableLoopProtocol |-> TRUE, Prompts |-> 3, VerifyCommand |-> TRUE,
     ExpectedSkill |-> TRUE,
     RequiredCommands |-> {"python3 -m unittest di", "git status",
        "git commit", "git push"},
     RequiredCommandCounts |-> "python3 -m unittest" :> 4 @@
        "git status" :> 2 @@ "git commit" :> 2 @@ "git push" :> 2,
     RequiredTools |-> {"write_file"},
     RequiredToolArgContains |-> {Arg("write_file", "path",
        "todo_core/store.py"), Arg("write_file", "path",
        "todo_core/__init__.py"), Arg("write_file", "path",
        "tests/test_store.py")},
     RequiredCommandAfterTool |-> {Command("python3 -m unittest",
        "write_file"), Command("git status", "write_file"),
        Command("git commit", "write_file"), Command("git push",
        "write_file")},
     RequiredCommandOrder |-> {Order("git commit", "git push")},
     RequiredTaskStateAttemptedActions |-> {Req({<<"Tool", "shell">>})},
     RequiredTaskStateChangedFiles |-> {Req({})},
     RequiredTaskStateEvidence |-> {Req({<<"Source", "git_commit">>}),
        Req({<<"Source", "git_push">>})}, RequiredLoopProtocolFeeds |-> 1,
     RequiredLoopProtocolFinalStatus |-> "completed",
     RequiredCompletionGuards |-> {"active_plan_unfinished",
        "loop_protocol_running", "workspace_verification_stale"},
     RequiredLoopProtocolFeedModes |-> [full |-> 1],
     RequiredLoopProtocolFeedMatches |-> {Req({<<"Plan", "yes">>})},
     RequiredTraceEventCounts |-> "loop.turn_checkpoint" :> 2,
     RequiredFileSubstrings |-> TRUE, ForbidWorkspaceAbsolutePaths |-> TRUE,
     MaxLoopTurnInputTokens |-> 300000, MaxLoopTurnTotalTokens |-> 320000,
     MaxTurns |-> 28, LoopStatus |-> "running"] @@ Blank

longRunIntegratedMemoryRecoveryScenario ==
    [Name |-> "longrun-integrated-memory-recovery", Suites |-> {"long-run"},
     Domains |-> {"code_pr", "memory", "session_recovery",
        "longrun_recovery"}, SessionID |-> "integrated-memory-recovery",
     EnableMemory |-> TRUE, EnableLoopProtocol |-> TRUE, Prompts |-> 3,
     VerifyCommand |-> TRUE, ExpectedSkill |-> TRUE,
     RequiredCommands |-> {"python3 -m unittest di", "git status",
        "git commit", "git push"},
     RequiredCommandCounts |-> "python3 -m unittest" :> 4 @@
        "git status" :> 2 @@ "git commit" :> 2 @@ "git push" :> 2,
     RequiredTools |-> {"plan", "read_file", "edit_file", "memory",
        "session_search"},
     RequiredToolArgContains |-> {Arg("read_file", "path",
        "docs/conventions.md"), Arg("edit_file", "path", "reporter/cli.py"),
        Arg("memory", "action", "add"), Arg("memory", "action", "search"),
        Arg("loop_protocol", "action", "close"), Arg("loop_protocol",
        "status", "completed")},
     RequiredToolResultText |-> Results({"memory", "session_search"}),
     RequiredToolStatsAtLeast |-> [x \in {"memory_updates",
        "memory_update_add", "memory_search_calls", "session_search_calls",
        "session_search_results", "session_search_context_hits",
        "session_search_matched_terms"} |-> 1],
     MaxToolFailureKindCounts |-> [x \in {"invalid_args",
        "loop_guard_call_cap", "loop_guard_no_budget"} |-> 0],
     RequiredSessionSearch |-> {Req({<<"session search", "yes">>})},
     RequiredToolOrder |-> {Order("read_file", "memory")},
     RequiredCommandBeforeTool |-> {Command("python3 -m unittest",
        "edit_file")},
     RequiredCommandAfterTool |-> {Command("python3 -m unittest",
        "edit_file"), Command("git status", "edit_file"),
        Command("git commit", "edit_file"), Command("git push", "edit_file")},
     RequiredCommandOrder |-> {Order("git commit", "git push")},
     RequiredTaskStateAttemptedActions |-> {Req({<<"Tool", "shell">>}),
        Req({<<"Tool", "loop_protocol">>})},
     RequiredTaskStateChangedFiles |-> {Req({<<"Action", "edit">>})},
     RequiredTaskStateEvidence |-> {Req({<<"Source", "git_commit">>}),
        Req({<<"Source", "git_push">>}), Req({<<"Source", "memory">>})},
     RequiredLoopProtocolFeeds |-> 3,
     RequiredCompletionGuards |-> {"active_plan_unfinished"},
     RequiredLoopProtocolFeedModes |-> [full |-> 1, digest |-> 1],
     RequiredLoopProtocolFeedMatches |-> {Req({<<"Plan", "yes">>})},
     RequiredTraceEventCounts |-> "loop.turn_checkpoint" :> 3,
     RequiredLoopProtocolFinalStatus |-> "completed",
     RequiredFileSubstrings |-> TRUE, ProtectedFiles |-> {"given"},
     ForbidWorkspaceAbsolutePaths |-> TRUE, MaxLoopTurnInputTokens |-> 300000,
     MaxLoopTurnTotalTokens |-> 320000, MaxTurns |-> 34,
     LoopStatus |-> "running"] @@ Blank

longRunFocusedTaskRecoveryScenario ==
    [Name |-> "longrun-focused-task-recovery-synthesis",
     Suites |-> {"long-run"},
     Domains |-> {"market", "bittensor", "longrun_recovery"},
     RequiredTools |-> {"run_task"},
     RequiredFocusedTaskCounts |-> [explore |-> 1],
     RequireNoDelegationErrors |-> TRUE,
     ForbidWorkspaceAbsolutePaths |-> TRUE,
     ForbiddenTools |-> WriteTools \cup {"read_file", "repo_search",
        "list_files", "shell", "subagent_run"}, MaxParentToolCalls |-> 1,
     ProtectedFiles |-> {"given"}, MaxTurns |-> 10] @@ Blank

liveWebTaostatsDynamicEvidenceScenario ==
    [Name |-> "live-web-taostats-sn120-dynamic-evidence",
     Suites |-> {"live-web"}, Domains |-> {"bittensor", "web_evidence"},
     RequiredTools |-> {"browser_navigate", "browser_network_read"},
     RequiredToolCounts |-> [browser_network_read |-> 1],
     RequiredToolStatsAtLeast |-> [x \in {"source_access_results",
        "source_access_verified", "source_access_network"} |-> 1],
     RequiredSourceAccess |-> {Req({<<"source", "yes">>, <<"Status",
        "network">>, <<"Tool", "browser_network_read">>, <<"SourceMethod",
        "network_xhr_fetch">>})},
     RequiredToolResultText |-> Results({"browser_network_read"}),
     ForbiddenTools |-> WriteTools \cup {"shell"},
     ProtectedFiles |-> {"given"}, MaxParentToolCalls |-> 16,
     MaxTurns |-> 14] @@ Blank

liveWebTaostatsWebFetchRecoveryScenario ==
    [Name |-> "live-web-taostats-web-fetch-recovery", Suites |-> {"live-web"},
     Domains |-> {"bittensor", "web_evidence"},
     RequiredTools |-> {"web_fetch", "browser_navigate",
        "browser_network_read"},
     RequiredToolCounts |-> [web_fetch |-> 1, browser_network_read |-> 1],
     RequiredToolOrder |-> {Order("web_fetch", "browser_navigate"),
        Order("browser_navigate", "browser_network_read")},
     RequiredToolStatsAtLeast |-> [x \in {"source_access_results",
        "source_access_verified", "source_access_network"} |-> 1],
     RequiredSourceAccess |-> {Req({<<"source", "yes">>, <<"Status",
        "network">>, <<"Tool", "browser_network_read">>, <<"SourceMethod",
        "network_xhr_fetch">>})},
     RequiredToolResultText |-> Results({"browser_network_read"}),
     ForbiddenTools |-> WriteTools \cup {"shell"},
     ProtectedFiles |-> {"given"}, MaxParentToolCalls |-> 18,
     MaxTurns |-> 16] @@ Blank

liveWebTaostatsScrollNetworkRecoveryScenario ==
    [Name |-> "live-web-taostats-scroll-network-recovery",
     Suites |-> {"live-web"}, Domains |-> {"bittensor", "web_evidence"},
     RequiredTools |-> {"browser_navigate", "browser_scroll",
        "browser_network_read"},
     RequiredToolCounts |-> [browser_scroll |-> 1,
        browser_network_read |-> 1],
     RequiredToolOrder |-> {Order("browser_navigate", "browser_scroll"),
        Order("browser_scroll", "browser_network_read")},
     RequiredToolStatsAtLeast |-> [x \in {"source_access_results",
        "source_access_verified", "source_access_network"} |-> 1],
     RequiredSourceAccess |-> {Req({<<"source", "yes">>, <<"Status",
        "network">>, <<"Tool", "browser_network_read">>, <<"SourceMethod",
        "network_xhr_fetch">>})},
     RequiredToolResultText |-> Results({"browser_scroll",
        "browser_network_read"}),
     ForbiddenTools |-> WriteTools \cup {"shell"},
     ProtectedFiles |-> {"given"}, MaxParentToolCalls |-> 18,
     MaxTurns |-> 16] @@ Blank

liveWebTaostatsNetworkSearchReadScenario ==
    [Name |-> "live-web-taostats-network-search-read",
     Suites |-> {"live-web"}, Domains |-> {"bittensor", "web_evidence"},
     RequiredTools |-> {"browser_navigate", "browser_network",
        "browser_network_read"},
     RequiredToolCounts |-> [browser_network |-> 1,
        browser_network_read |-> 1],
     RequiredToolOrder |-> {Order("browser_navigate", "browser_network"),
        Order("browser_network", "browser_network_read")},
     RequiredToolStatsAtLeast |-> [x \in {"source_access_results",
        "source_access_verified", "source_access_network"} |-> 1],
     RequiredSourceAccess |-> {Req({<<"source", "yes">>, <<"Status",
        "network">>, <<"Tool", "browser_network_read">>, <<"SourceMethod",
        "network_xhr_fetch">>})},
     RequiredToolResultText |-> Results({"browser_network",
        "browser_network_read"}),
     ForbiddenTools |-> WriteTools \cup {"shell"},
     ProtectedFiles |-> {"given"}, MaxParentToolCalls |-> 18,
     MaxTurns |-> 16] @@ Blank

subagentNestedFactsScenario ==
    [Name |-> "subagent-nested-facts", RequiredTools |-> {"subagent_run"},
     RequireNoDelegationErrors |-> TRUE,
     ForbidWorkspaceAbsolutePaths |-> TRUE, ForbiddenTools |-> WriteTools,
     RequiredToolResultText |-> Results({"subagent_run"}),
     MaxParentToolCalls |-> 1, ProtectedFiles |-> {"given"},
     MaxTurns |-> 10] @@ Blank

-----------------------------------------------------------------------------
BuiltinBatchScenarios ==
    {goMedianScenario, goConfigPrecedenceScenario, pythonSlugScenario,
     goRedactionScenario, pythonConfigParserScenario,
     promptInjectionFactsScenario, focusedTaskProjectFactsScenario,
     subagentProjectFactsScenario, subagentNoisyFactsScenario,
     smallToolBadJSONReadScenario, smallToolWrongFieldReadScenario,
     smallToolWrongToolNameScenario, defaultRuntimeRepoSearchScenario,
     defaultRuntimeSymbolContextScenario,
     defaultRuntimeSymbolContextRuntimeCapabilitiesScenario,
     defaultRuntimeSymbolContextThenReadFileScenario,
     defaultRuntimeFileContextScenario, skillToolReadScenario,
     skillRemoteInstallGuardScenario, skillReviewedInstallActivationScenario,
     liveWebSkillURLInstallActivationScenario, planCodingRepairScenario,
     planNotForSimpleReadScenario, planResumeCurrentStepScenario,
     memoryCrossSessionRecallScenario, sessionHistoryRecallScenario,
     longRunMemorySessionJoinScenario,
     longRunMultiTaskSessionRecoveryScenario,
     longRunRecentSessionAnchorRecoveryScenario,
     longRunLoopMemoryAnchorRecoveryScenario,
     longRunCrashMissingToolResultResumeScenario,
     longRunCrashDuplicateToolResultResumeScenario,
     longRunContextCompactionRetentionScenario,
     longRunInputBudgetPressureScenario,
     longRunRequestInputPressureCompactionScenario,
     longRunModelWindowCompactionPolicyScenario,
     longRunResearchCheckpointScenario,
     longRunSessionScheduleRecurringFollowupScenario,
     longRunSessionScheduleControlLifecycleScenario,
     longRunSessionScheduleLoopCoexistenceScenario,
     longRunSessionScheduleLoopTickUnavailableScenario,
     longRunScheduledTurnProvenanceScenario,
     longRunLoopActivationCalibrationScenario,
     longRunLoopSetupNormalTextScenario,
     longRunLoopActivationCompletedDraftScenario,
     liveWebResearchCheckpointEvidenceScenario,
     liveWebResearchCheckpointDelegatedEvidenceScenario,
     longRunScheduledLoopTickProvenanceScenario,
     memoryConfirmedWriteStatsScenario, memoryAutonomousDurableRuleScenario,
     memoryIgnoreTransientTaskStatusScenario, smallToolRepeatedReadScenario,
     smallToolEditRecoveryScenario, smallToolShellFailureScenario,
     smallToolWorkspaceRelativeShellScenario, oversizedToolResultScenario,
     longRunStockAnalysisScenario, longRunBittensorSubnetScenario,
     longRunCodePRScenario, longRunCodeCommitPushScenario,
     longRunCodeCloneCommitPushScenario,
     longRunCodeSourceRepoCommitPushScenario,
     longRunScratchProjectLoopPushScenario,
     longRunLoopFinalClosureGuardScenario,
     longRunActivePlanFinalClosureGuardScenario,
     longRunPlanLoopFinalClosureGuardScenario,
     longRunScratchProjectIterativeLoopPushScenario,
     longRunIntegratedMemoryRecoveryScenario,
     longRunFocusedTaskRecoveryScenario,
     liveWebTaostatsDynamicEvidenceScenario,
     liveWebTaostatsWebFetchRecoveryScenario,
     liveWebTaostatsScrollNetworkRecoveryScenario,
     liveWebTaostatsNetworkSearchReadScenario, subagentNestedFactsScenario}

BatchSuiteNames == UNION {s.Suites : s \in BuiltinBatchScenarios}

\* A blank suite selects from all scenarios and no names select all of them;
\* a name is looked up in the suite.
ScenarioInSuite(s, suite) == suite = "" \/ suite \in s.Suites

SelectBatchScenariosForSuite(suite, names) ==
    {s \in BuiltinBatchScenarios :
        ScenarioInSuite(s, suite) /\ (names = {} \/ s.Name \in names)}

=============================================================================
