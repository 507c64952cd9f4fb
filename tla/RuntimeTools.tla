---------------------------- MODULE RuntimeTools ----------------------------
(***************************************************************************)
(* Which tools an affentctl process offers the model: the options, the     *)
(* capabilities they resolve to, the registrations of each capability and  *)
(* the filter of eval mode. `c' is the options record of the process, a    *)
(* set of names stands for the text of --eval-tools ({} when it is blank)  *)
(* and the paths are Booleans: given or not.                               *)
(***************************************************************************)
EXTENDS Integers

\* The options with their defaults, as bind registers them.
Defaults ==
    [eval_mode |-> FALSE, eval_tools |-> {}, eval_all_tools |-> FALSE,
     memory |-> TRUE, memory_only |-> FALSE, project_context |-> TRUE,
     subagent |-> TRUE, focused_tasks |-> TRUE, web |-> FALSE,
     web_search |-> FALSE, browser |-> FALSE, browser_screenshot |-> FALSE,
     mcp_config |-> FALSE, loop_protocol |-> FALSE, session_id |-> FALSE,
     continue |-> FALSE, model |-> FALSE, max_turns |-> 10,
     max_turn_input_tokens |-> 0, retry_transient |-> 3,
     memory_topic_max_chars |-> 0, memory_max_topics |-> 0,
     model_context_window_tokens |-> 0, compact_trigger_percent |-> 0,
     subagent_max_depth |-> 2, memoryExplicit |-> FALSE]

-----------------------------------------------------------------------------
\* The names eval mode knows.

WorkspaceTools ==
    {"shell", "read_file", "file_context", "write_file", "edit_file",
     "list_files", "symbol_context", "repo_search"}

ReadonlyWorkspaceTools ==
    {"read_file", "file_context", "list_files", "symbol_context",
     "repo_search"}

BrowserTools ==
    {"browser_navigate", "browser_snapshot", "browser_find",
     "browser_network", "browser_network_read", "browser_click",
     "browser_scroll", "browser_type", "browser_wait", "browser_screenshot"}

KnownTools ==
    WorkspaceTools \cup BrowserTools \cup
    {"skill", "memory", "session_search", "plan", "loop_protocol",
     "subagent_run", "run_task", "web_fetch", "web_search", "mcp"}

\* A name of --eval-tools stands for a group or for itself.
Group(c, name) ==
    CASE name = "none" -> {}
      [] name = "all" -> KnownTools \ (IF c.mcp_config THEN {} ELSE {"mcp"})
      [] name = "workspace" -> WorkspaceTools
      [] name = "readonly_workspace" -> ReadonlyWorkspaceTools
      [] name = "web" -> {"web_fetch", "web_search"}
      [] name = "browser" -> BrowserTools
      [] name = "recall" -> {"memory", "session_search"}
      [] name = "delegation" -> {"subagent_run", "run_task"}
      [] OTHER -> {name}

EvalToolAllowlist(c) == UNION {Group(c, name) : name \in c.eval_tools}

Meets(S, T) == S \cap T # {}

EvalModeRequestsLoopProtocolTool(c) ==
    /\ c.eval_mode
    /\ c.eval_all_tools \/ "loop_protocol" \in EvalToolAllowlist(c)

-----------------------------------------------------------------------------
\* Capabilities.

NoCaps ==
    [Builtins |-> FALSE, Memory |-> FALSE, MCP |-> FALSE, Skill |-> FALSE,
     Plan |-> FALSE, SessionSearch |-> FALSE, ProjectContext |-> FALSE,
     WebFetch |-> FALSE, WebSearch |-> FALSE, Browser |-> FALSE,
     BrowserScreenshot |-> FALSE, Subagent |-> FALSE, FocusedTasks |-> FALSE]

DefaultCaps(c) ==
    [Builtins |-> TRUE, Memory |-> c.memory, MCP |-> c.mcp_config,
     Skill |-> TRUE, Plan |-> TRUE, SessionSearch |-> TRUE,
     ProjectContext |-> c.project_context, WebFetch |-> c.web,
     WebSearch |-> c.web /\ c.web_search, Browser |-> c.browser,
     BrowserScreenshot |-> c.browser /\ c.browser_screenshot,
     Subagent |-> c.subagent, FocusedTasks |-> c.focused_tasks]

EvalAllCaps(c) ==
    [k \in DOMAIN NoCaps |->
        CASE k = "ProjectContext" -> FALSE
          [] k = "MCP" -> c.mcp_config
          [] OTHER -> TRUE]

\* An allowlist keeps what it names; the flags of memory, web and browser
\* still count.
EvalCaps(c) ==
    LET allowed == EvalToolAllowlist(c)
    IN  [Builtins |-> Meets(allowed, WorkspaceTools \cup
                                     {"skill", "plan", "loop_protocol"}),
         Memory |-> (c.memoryExplicit /\ c.memory) \/ "memory" \in allowed,
         MCP |-> /\ c.mcp_config
                 /\ \/ c.eval_tools = {}
                    \/ "mcp" \in allowed
                    \/ ~(allowed \subseteq KnownTools),
         Skill |-> "skill" \in allowed,
         Plan |-> "plan" \in allowed,
         SessionSearch |-> "session_search" \in allowed,
         ProjectContext |-> FALSE,
         WebFetch |-> c.web \/ Meets(allowed, {"web_fetch", "web_search"}),
         WebSearch |-> (c.web /\ c.web_search) \/ "web_search" \in allowed,
         Browser |-> c.browser \/ Meets(allowed, BrowserTools),
         BrowserScreenshot |-> \/ c.browser /\ c.browser_screenshot
                               \/ "browser_screenshot" \in allowed,
         Subagent |-> "subagent_run" \in allowed,
         FocusedTasks |-> "run_task" \in allowed]

ResolveRuntimeCapabilities(c) ==
    CASE c.memory_only -> [NoCaps EXCEPT !.Memory = TRUE]
      [] ~c.memory_only /\ c.eval_mode /\ c.eval_all_tools -> EvalAllCaps(c)
      [] ~c.memory_only /\ c.eval_mode /\ ~c.eval_all_tools -> EvalCaps(c)
      [] OTHER -> DefaultCaps(c)

-----------------------------------------------------------------------------
\* Registrations.

If(cond, S) == IF cond THEN S ELSE {}

\* RegisterBuiltins and the session_workspace tool; `exists' says that the
\* session has a LOOP.md.
RegisterBuiltins(c, caps, exists) ==
    WorkspaceTools \cup {"session_workspace"}
    \cup If(caps.Skill, {"skill"})
    \cup If(caps.Memory, {"memory"})
    \cup If(caps.SessionSearch, {"session_search"})
    \cup If(caps.Plan, {"plan"})
    \cup If(c.loop_protocol \/ exists \/ EvalModeRequestsLoopProtocolTool(c),
            {"loop_protocol"})

\* With no builtins, memory and session search come alone.
RegisterLocal(c, caps, exists) ==
    If(caps.Builtins, RegisterBuiltins(c, caps, exists))
    \cup If(caps.Memory, {"memory"})
    \cup If(caps.SessionSearch, {"session_search"})

RegisterWeb(caps) ==
    If(caps.WebFetch, {"web_fetch"})
    \cup If(caps.WebFetch /\ caps.WebSearch, {"web_search"})
    \cup If(caps.Browser, BrowserTools \ {"browser_screenshot"})
    \cup If(caps.Browser /\ caps.BrowserScreenshot, {"browser_screenshot"})

\* The workspace and the LLM client are always there, so that both tools of
\* delegation find what they need.
RegisterDelegation(caps) ==
    If(caps.Subagent, {"subagent_run"})
    \cup If(caps.FocusedTasks, {"run_task"})

\* The registry before the filter; mcpTools are the tools the servers offer.
Registered(c, exists, mcpTools) ==
    LET caps == ResolveRuntimeCapabilities(c)
    IN  RegisterLocal(c, caps, exists) \cup RegisterWeb(caps)
        \cup If(caps.MCP, mcpTools) \cup RegisterDelegation(caps)

\* What eval mode lets through: the allowlist and what the flags enabled.
EvalAllowed(c, caps, mcpTools) ==
    LET allowed ==
            EvalToolAllowlist(c)
            \cup If(caps.Memory, {"memory"})
            \cup If(c.web, {"web_fetch"})
            \cup If(c.web /\ c.web_search, {"web_search"})
            \cup If(c.browser, BrowserTools \ {"browser_screenshot"})
            \cup If(caps.BrowserScreenshot, {"browser_screenshot"})
            \cup If(caps.MCP /\ c.eval_tools = {}, {"mcp"})
    IN  allowed \cup If(caps.MCP /\ "mcp" \in allowed, mcpTools)

Filtered(c, caps, reg, mcpTools) == reg \cap EvalAllowed(c, caps, mcpTools)

\* Plausible bug: a group that is not wholly there is accepted.
MissingMutant(c, caps, reg) ==
    IF EvalToolAllowlist(c) \cap reg = {} THEN EvalToolAllowlist(c) ELSE {}

\* Names asked for that the filtered registry does not have.
Missing(c, caps, reg) ==
    {name \in EvalToolAllowlist(c) :
        IF name = "mcp" THEN ~caps.MCP ELSE name \notin reg}

\* The tools the model sees, and whether setup gets that far.
Filters(c) == c.eval_mode /\ ~c.eval_all_tools

Surface(c, exists, mcpTools) ==
    LET caps == ResolveRuntimeCapabilities(c)
        reg == Registered(c, exists, mcpTools)
    IN  IF Filters(c) THEN Filtered(c, caps, reg, mcpTools) ELSE reg

=============================================================================
