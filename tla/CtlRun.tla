------------------------------- MODULE CtlRun -------------------------------
(***************************************************************************)
(* One `affentctl run': the options from flags, environment and config     *)
(* file, the setup of the loop with everything it opens, and the drain of  *)
(* the turn's events into the trace until the process exits.               *)
(***************************************************************************)
EXTENDS RuntimeTools, Sequences, FiniteSets

CONSTANTS
    Settings,     \* what may be set: <<lane, option, value>>
    MaxSettings,  \* how many of them one process is given
    McpTools,     \* the tools the MCP servers of the config offer
    Interrupts,   \* SIGINT may arrive
    Fails         \* opening a resource may fail

\* "junk" is a variable of the environment that does not parse.
Lanes == {"flag", "env", "junk", "file"}

CtlRunAssumption ==
    /\ MaxSettings \in Nat
    /\ \A s \in Settings : s[1] \in Lanes /\ s[2] \in DOMAIN Defaults
    /\ McpTools \cap KnownTools = {}

VARIABLES
    given,    \* the settings of this process
    disk,     \* the session directory: conversation and LOOP.md present?
    cf,       \* commonFlags
    stage,    \* where the process is
    tools,    \* names in the registry
    open,     \* resources that are open
    closers,  \* the deferred closers, in the order they were registered
    guards,   \* labels of the completion guards
    trace,    \* events written to the trace by this process
    final,    \* the text drainBatch would print
    turn,     \* what the loop has done: its last message, its end
    exit      \* exit code, -1 while running

vars == <<given, disk, cf, stage, tools, open, closers, guards, trace, final,
          turn, exit>>

exitUsage == 64
exitRuntime == 3

\* The value an option has in a lane; a lane sets an option at most once.
SetIn(lane) == {s \in given : s[1] = lane}
WasSet(lane, o) == \E s \in SetIn(lane) : s[2] = o
ValueIn(lane, o) == (CHOOSE s \in SetIn(lane) : s[2] = o)[3]

Init ==
    /\ given \in {S \in UNION {{{}}, {{a} : a \in Settings},
                      {{a, b} : a, b \in Settings},
                      {{a, b, d} : a, b, d \in Settings}} :
                    /\ Cardinality(S) <= MaxSettings
                    /\ \A s, t \in S : s[1] = t[1] /\ s[2] = t[2] => s = t}
    /\ disk \in [conv : BOOLEAN, protocol : BOOLEAN]
    /\ cf = [o \in DOMAIN Defaults |->
                IF WasSet("flag", o) THEN ValueIn("flag", o)
                ELSE IF o = "model" THEN TRUE ELSE Defaults[o]]
    /\ stage = "config file"
    /\ tools = {} /\ open = {} /\ closers = <<>> /\ guards = {}
    /\ trace = <<>> /\ final = 0 /\ turn = [said |-> 0, end |-> "none"]
    /\ exit = -1

Running == exit = -1

\* The process returns: the deferred closers run.
Return(code) ==
    /\ exit' = code /\ stage' = "exited"
    /\ open' = open \ {closers[i] : i \in DOMAIN closers}

Goto(s) == stage' = s /\ UNCHANGED <<open, exit>>

Opens(r) == open' = open \cup {r} /\ closers' = Append(closers, r)

-----------------------------------------------------------------------------
\* Configuration: CLI flag > environment > config file > default.

\* What bars a value of the config file: a flag, or a variable that is set.
LoadConfigFile ==
    /\ stage = "config file"
    /\ \/ /\ cf' = [o \in DOMAIN cf |->
                     IF o = "memoryExplicit"
                     THEN cf[o] \/ WasSet("file", "memory")
                     ELSE IF /\ WasSet("file", o)
                             /\ ~WasSet("flag", o) /\ ~WasSet("env", o)
                          THEN ValueIn("file", o) ELSE cf[o]]
          /\ Goto("env")
       \/ /\ Fails /\ SetIn("file") # {}       \* unreadable, unknown field
          /\ Return(exitUsage) /\ UNCHANGED cf
    /\ UNCHANGED <<given, disk, tools, closers, guards, trace, final, turn>>

\* A variable that does not parse ends the process, unless a flag hides it.
ApplyEnvConfig ==
    /\ stage = "env"
    /\ LET seen == {s \in SetIn("env") : ~WasSet("flag", s[2])}
       IN  IF \E s \in SetIn("junk") : ~WasSet("flag", s[2])
           THEN Return(exitUsage) /\ UNCHANGED cf
           ELSE /\ cf' = [o \in DOMAIN cf |->
                            IF \E s \in seen : s[2] = o
                            THEN ValueIn("env", o) ELSE cf[o]]
                /\ Goto("normalize")
    /\ UNCHANGED <<given, disk, tools, closers, guards, trace, final, turn>>

\* What one option implies for others.
Implied(c) ==
    LET explicit == c.memoryExplicit \/ WasSet("flag", "memory")
                                     \/ WasSet("env", "memory")
        d == [c EXCEPT !.memoryExplicit = explicit,
                       !.eval_mode = @ \/ c.eval_tools # {}
                                       \/ c.eval_all_tools]
    IN  IF c.memory_only
        THEN [d EXCEPT !.memory = TRUE, !.memoryExplicit = TRUE,
                       !.project_context = FALSE, !.subagent = FALSE,
                       !.focused_tasks = FALSE]
        ELSE d

LimitsHold(c) ==
    /\ c.max_turns > 0 /\ c.max_turn_input_tokens >= 0
    /\ c.retry_transient >= 0
    /\ c.memory_topic_max_chars >= 0 /\ c.memory_max_topics >= 0
    /\ c.model_context_window_tokens >= 0
    /\ c.compact_trigger_percent \in 0..100
    /\ c.subagent_max_depth \in 1..4
    /\ c.web_search => c.web
    /\ c.browser_screenshot => c.browser

\* 0 retries is what the loop knows as -1.
NormalizeRuntimeLimits(c) ==
    [c EXCEPT !.retry_transient = IF @ = 0 THEN -1 ELSE @]

ApplyConfig ==
    /\ stage = "normalize"
    /\ LET c == Implied(cf)
       IN  IF LimitsHold(c)
           THEN cf' = NormalizeRuntimeLimits(c) /\ Goto("session")
           ELSE cf' = c /\ Return(exitUsage)
    /\ UNCHANGED <<given, disk, tools, closers, guards, trace, final, turn>>

-----------------------------------------------------------------------------
\* setupLoop.

Caps == ResolveRuntimeCapabilities(cf)
Resumed == disk.conv /\ (cf.session_id \/ cf.continue)

\* Every step of the setup may fail on the resource it opens.
MayFail == Fails /\ Return(exitRuntime) /\ UNCHANGED <<closers, tools, guards>>

\* Model, workspace, session id and trace.
OpenSession ==
    /\ stage = "session"
    /\ \/ /\ ~cf.model
          /\ Return(exitUsage) /\ UNCHANGED closers
       \/ /\ cf.model /\ cf.continue /\ ~cf.session_id /\ ~disk.conv
          /\ Return(exitRuntime) /\ UNCHANGED closers
       \/ /\ cf.model /\ (cf.continue => cf.session_id \/ disk.conv)
          /\ Opens("trace") /\ stage' = "memory" /\ UNCHANGED exit
    /\ UNCHANGED <<given, disk, cf, tools, guards, trace, final, turn>>

SetupMemory ==
    /\ stage = "memory"
    /\ IF cf.memory_only /\ cf.mcp_config
       THEN Return(exitUsage)
       ELSE Goto("builtins") \/ (Fails /\ Return(exitUsage))
    /\ UNCHANGED <<given, disk, cf, tools, closers, guards, trace, final,
                   turn>>

RegisterLocalTools ==
    /\ stage = "builtins"
    /\ \/ tools' = RegisterLocal(cf, Caps, disk.protocol) /\ Goto("web")
          /\ UNCHANGED <<closers, guards>>
       \/ Caps.Builtins /\ MayFail            \* executor, skills
    /\ UNCHANGED <<given, disk, cf, trace, final, turn>>

\* The browser of web_fetch's fallback is the browser of the browser tools.
RegisterWebTools ==
    /\ stage = "web"
    /\ \/ /\ tools' = tools \cup RegisterWeb(Caps)
          /\ IF Caps.Browser THEN Opens("browser")
             ELSE UNCHANGED <<open, closers>>
          /\ stage' = "mcp" /\ UNCHANGED <<exit, guards>>
       \/ Caps.Browser /\ MayFail
    /\ UNCHANGED <<given, disk, cf, trace, final, turn>>

\* Servers that started before one fails are closed by RegisterAll itself.
StartMCP ==
    /\ stage = "mcp"
    /\ \/ /\ tools' = tools \cup If(Caps.MCP, McpTools)
          /\ IF Caps.MCP THEN Opens("mcp") ELSE UNCHANGED <<open, closers>>
          /\ stage' = "conversation" /\ UNCHANGED <<exit, guards>>
       \/ Caps.MCP /\ MayFail
    /\ UNCHANGED <<given, disk, cf, trace, final, turn>>

RegisterDelegationTools ==
    /\ stage = "conversation"
    /\ \/ tools' = tools \cup RegisterDelegation(Caps) /\ Goto("filter")
          /\ UNCHANGED <<closers, guards>>
       \/ MayFail                       \* conversation, sampling
    /\ UNCHANGED <<given, disk, cf, trace, final, turn>>

FilterEvalModeTools ==
    /\ stage = "filter"
    /\ IF ~Filters(cf) THEN tools' = tools /\ Goto("guards")
       ELSE LET reg == Filtered(cf, Caps, tools, McpTools)
            IN  /\ tools' = reg
                /\ IF Missing(cf, Caps, reg) = {} THEN Goto("guards")
                   ELSE Return(exitUsage)
    /\ UNCHANGED <<given, disk, cf, closers, guards, trace, final, turn>>

\* Completion guards; the protocol template; the system prompt, which makes
\* the conversation exist.
InstallGuards ==
    /\ stage = "guards"
    /\ \/ /\ guards' =
               If("shell" \in tools /\ Meets(tools, {"write_file",
                  "edit_file"}), {"verification"})
               \cup If(Caps.Builtins /\ Caps.Plan, {"active_plan"})
               \cup If(cf.loop_protocol \/ disk.protocol, {"activation"})
          /\ disk' = [conv |-> TRUE,
                      protocol |-> disk.protocol \/ cf.loop_protocol]
          /\ trace' = IF Resumed THEN trace ELSE Append(trace, "meta")
          /\ Goto("turn") /\ UNCHANGED <<tools, closers>>
       \/ MayFail /\ UNCHANGED <<disk, trace>>
    /\ UNCHANGED <<given, cf, final, turn>>

-----------------------------------------------------------------------------
\* The turn and drainBatch.

\* drainBatch records each event of the loop and keeps the last message. (An
\* error event is followed by a turn.end, whose reason decides the exit.)
Message ==
    /\ stage \in {"turn", "interrupted"} /\ turn.end = "none"
    /\ turn.said < 2
    /\ turn' = [turn EXCEPT !.said = @ + 1]
    /\ final' = turn'.said /\ trace' = Append(trace, turn'.said)
    /\ UNCHANGED <<given, disk, cf, stage, tools, open, closers, guards, exit>>

ExitOf(reason) ==
    CASE reason = "completed" -> 0
      [] reason = "cancelled" -> 130
      [] reason = "max_turns" -> 2
      [] OTHER -> 3

TurnEnds(reason) ==
    /\ stage \in {"turn", "interrupted"} /\ turn.end = "none"
    /\ turn' = [turn EXCEPT !.end = reason]
    /\ trace' = Append(trace, reason)
    /\ Return(IF stage = "interrupted" THEN 130 ELSE ExitOf(reason))
    /\ UNCHANGED <<given, disk, cf, tools, closers, guards, final>>

\* SIGINT: the turn is cancelled and drained, up to a deadline.
Interrupt ==
    /\ Interrupts /\ stage = "turn"
    /\ Goto("interrupted")
    /\ UNCHANGED <<given, disk, cf, tools, closers, guards, trace, final,
                   turn>>

DrainDeadline ==
    /\ stage = "interrupted"
    /\ Return(130)
    /\ UNCHANGED <<given, disk, cf, tools, closers, guards, trace, final,
                   turn>>

Exited == ~Running /\ UNCHANGED vars

Next ==
    \/ LoadConfigFile \/ ApplyEnvConfig \/ ApplyConfig
    \/ OpenSession \/ SetupMemory \/ RegisterLocalTools \/ RegisterWebTools
    \/ StartMCP \/ RegisterDelegationTools \/ FilterEvalModeTools
    \/ InstallGuards
    \/ Message \/ Interrupt \/ DrainDeadline \/ Exited
    \/ \E r \in {"completed", "cancelled", "max_turns", "error"} : TurnEnds(r)

Spec == Init /\ [][Next]_vars

-----------------------------------------------------------------------------
\* Properties.

TypeOK ==
    /\ given \subseteq Settings /\ DOMAIN cf = DOMAIN Defaults
    /\ open \subseteq {"trace", "browser", "mcp"}
    /\ exit \in {-1, 0, 2, exitRuntime, exitUsage, 130}

\* "Precedence: CLI flag > env var > config file > built-in default"
\* (loadConfigFile), for every option no other option implies.
Documented(o) ==
    CASE WasSet("flag", o) -> ValueIn("flag", o)
      [] ~WasSet("flag", o) /\ WasSet("env", o) -> ValueIn("env", o)
      [] ~WasSet("flag", o) /\ ~WasSet("env", o) /\ WasSet("file", o) ->
            ValueIn("file", o)
      [] OTHER -> IF o = "model" THEN TRUE ELSE Defaults[o]

PrecedenceKept ==
    stage = "normalize" =>
        \A o \in DOMAIN Defaults \ {"memoryExplicit"} : cf[o] = Documented(o)

\* In eval mode the model sees what was asked for and what the flags of
\* memory, web, browser and MCP add, nothing else, and all that was asked
\* for; a memory-only process offers the memory tool and no other.
SurfaceAsAsked ==
    stage = "turn" =>
        /\ cf.memory_only => tools = {"memory"}
        /\ Filters(cf) =>
            /\ \A n \in EvalToolAllowlist(cf) \ {"mcp"} : n \in tools
            /\ tools \subseteq
                EvalToolAllowlist(cf) \cup If(cf.memory, {"memory"})
                \cup If(cf.web, {"web_fetch", "web_search"})
                \cup If(cf.browser, BrowserTools)
                \cup If(cf.mcp_config, McpTools)
            /\ Meets(tools, McpTools) =>
                \/ cf.eval_tools = {}
                \/ "mcp" \in EvalToolAllowlist(cf)
                \/ tools \cap McpTools \subseteq EvalToolAllowlist(cf)
            /\ "web_search" \in tools =>
                cf.web_search \/ "web_search" \in EvalToolAllowlist(cf)

\* A completion guard can be satisfied: the tool it asks the model to call
\* is one the model has. (The guard of a loop protocol draft can not, when
\* eval mode or memory-only leaves the tool out: see Protocol.)
GuardsServable ==
    stage = "turn" =>
        /\ "verification" \in guards => "shell" \in tools
        /\ "active_plan" \in guards => "plan" \in tools

ProtocolServable ==
    stage = "turn" /\ "activation" \in guards => "loop_protocol" \in tools

\* However the process ends, nothing it opened stays open.
NothingLeaked == ~Running => open = {}

\* Exit code 0 says that the turn completed and its end is in the trace; the
\* text printed is the last message of the trace.
ExitHonest ==
    exit = 0 =>
        /\ turn.end = "completed" /\ trace[Len(trace)] = "completed"
        /\ final = turn.said

=============================================================================
