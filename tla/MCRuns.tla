-------------------------------- MODULE MCRuns --------------------------------
(***************************************************************************)
(* affentctl and its tools, the skills and the evaluation harness on small *)
(* instances. A behaviour picks a scene, one component with one choice of  *)
(* its constants, and runs it alone: the components share the registers    *)
(* v1, v2, ... and their state spaces lie side by side in one run of TLC.  *)
(***************************************************************************)
EXTENDS EvalGates, EvalScenarios

-----------------------------------------------------------------------------
\* Traces, scenarios and command lines for the scenes of the evaluation.

Ev(type, is) == [type |-> type, is |-> is, n |-> <<>>]
Tl(name, code, args, kinds) ==
    [tool |-> name, turn |-> 1, args |-> args, result |-> {}, done |-> TRUE,
     exit |-> code, kinds |-> kinds, is |-> {}, n |-> <<>>]
Ended(reason, tools) ==
    [NoTrace EXCEPT !.reason = reason, !.final = {"answer"}, !.tools = tools,
                    !.events = <<Ev("runtime.surface", {})>>]
More(t, e) == [t EXCEPT !.events = @ \o e]
Also(t, c) == [t EXCEPT !.tools = @ \o c]

\* What a run may come to: it goes well, or nearly everything goes wrong.
Good ==
    [setup |-> "", exit |-> 0, error |-> "", touched |-> FALSE,
     unfinished |-> FALSE, lacking |-> FALSE, parses |-> TRUE, stdout |-> TRUE,
     skilled |-> TRUE, ms |-> 1,
     verified |-> [OK |-> TRUE, ExitCode |-> 0, Truncated |-> FALSE],
     t |-> Ended("completed", <<Tl("shell", 0, {<<"command", "test">>}, {})>>)]
Bad ==
    [Good EXCEPT
        !.verified = [OK |-> FALSE, ExitCode |-> 1, Truncated |-> TRUE],
        !.t = [More(Ended("max_turns", <<Tl("shell", 1, {}, {}),
                                         Tl("plan", 1, {}, {"blocked"})>>),
                    <<Ev("conversation.repaired", {}),
                      Ev("error", {<<"FailureKind", "llm_error">>})>>)
               EXCEPT !.stats = [tool_repair_failed |-> 1, forced_no_tools |-> 1]]]
BatchOutcomes ==
    {Good, Bad, [Good EXCEPT !.exit = 1, !.error = "timeout"],
     [Good EXCEPT !.parses = FALSE], [Good EXCEPT !.setup = "protected files"],
     [Good EXCEPT !.setup = "work root"]}

\* A trace that satisfies the longrun profile, and its single defects.
Rich ==
    [More(Ended("completed", <<Tl("memory", 0, {}, {})>>),
          <<Ev("loop.protocol_calibration_request", {}),
            Ev("loop.protocol_calibration", {}), Ev("loop.protocol_feed", {}),
            Ev("loop.turn_checkpoint", {<<"Status", "completed">>})>>)
     EXCEPT !.stats = [memory_updates |-> 1, memory_update_add |-> 1,
                       session_search_calls |-> 1, session_search_results |-> 1,
                       session_search_context_hits |-> 1,
                       session_search_matched_terms |-> 1]]
Setup == [Tl("loop_protocol", 0, {<<"action", "start_setup">>}, {})
            EXCEPT !.result = {"initialized draft"}]
Defects ==
    {Rich, NoTrace, Also(Rich, <<Setup, Tl("shell", 0, {}, {})>>),
     Also(Rich, <<Tl("shell", 1, {}, {})>>),
     Also(Rich, <<Tl("shell", 0, {<<"command", "workspace path">>}, {})>>),
     Also(Rich, <<[Tl("plan", 0, {<<"action", "set">>}, {})
                    EXCEPT !.n = [TotalSteps |-> 2, CompletedSteps |-> 1]]>>),
     More(Rich, <<Ev("loop.turn_checkpoint",
                     {<<"Status", "running">>,
                      <<"RequiresCloseBeforeFinal", "true">>})>>),
     More(Rich, <<Ev("context.compacted",
                     {<<"SummaryPresent", "false">>, <<"Reason", "input">>})>>),
     More(Rich, <<Ev("loop.protocol_calibration_request", {}),
                  Ev("loop.protocol_calibration_request", {})>>),
     [Rich EXCEPT !.reason = "max_turns"], [Rich EXCEPT !.stats = <<>>],
     [Rich EXCEPT !.stats = [forced_no_tools |-> 1] @@ @],
     [Rich EXCEPT !.stats = [session_search_results |-> 3] @@ @],
     [Rich EXCEPT !.stats = [source_access_results |-> 2,
                             source_access_dynamic_partial |-> 1] @@ @],
     [Rich EXCEPT !.events = <<>>]}

PlainScenario ==
    [Blank EXCEPT !.Name = "plain", !.Suites = {"mini"}, !.Domains = {"code_pr"},
                  !.RequiredTools = {"shell"}]
CheckedScenario ==
    [Blank EXCEPT !.Name = "checked", !.Suites = {"mini"}, !.VerifyCommand = TRUE,
                  !.ProtectedFiles = {"f"}, !.ExpectedSkill = TRUE]
BatchLibrary ==
    {PlainScenario, CheckedScenario,
     [Blank EXCEPT !.Name = "open", !.Suites = {"odd"}, !.Prompts = 2],
     [Blank EXCEPT !.Name = "fixture", !.Suites = {"odd"}, !.SessionID = "s",
                   !.RequiredLoopProtocolFeeds = 1, !.SourceRepoURL = TRUE]}

MinGate(name, v) == [NoGates EXCEPT !.min = name :> v]
BatchGates ==
    {NoGates, MinGate("pass_rate", 50),
     [NoGates EXCEPT !.tags = "verifier:failed" :> 0],
     [MinGate("verifier_pass_rate", 100) EXCEPT
        !.caps = {"verifier"}, !.domains = {"code_pr"},
        !.max = "tool_error_rate" :> 0]}
BatchCalls ==
    {[CommandLine EXCEPT !.suite = "mini", !.keep = k, !.flags = f] :
        k \in BOOLEAN, f \in BatchGates}
    \cup {[CommandLine EXCEPT !.suite = "odd"],
          [CommandLine EXCEPT !.prompt = "text", !.verify = TRUE],
          [CommandLine EXCEPT !.suite = "mini", !.executor = "sandbox"],
          [CommandLine EXCEPT !.names = {"plain"}, !.executor = "sandbox"],
          [CommandLine EXCEPT !.names = {"none"}],
          [CommandLine EXCEPT !.suite = "odd", !.flags.caps = {"browser"}],
          [CommandLine EXCEPT !.flags = MinGate("pass_rate", 150)],
          [CommandLine EXCEPT !.profile = "none"],
          [CommandLine EXCEPT !.mode = "list"],
          [CommandLine EXCEPT !.mode = "coverage", !.prompt = "text"]}
TraceCalls ==
    {[CommandLine EXCEPT !.traceFile = TRUE, !.existing = t, !.profile = p, !.flags = f] :
        t \in Defects, p \in {"", "longrun", "web-evidence"},
        f \in {NoGates, [NoGates EXCEPT !.caps = {"memory"}]}}
    \cup {[CommandLine EXCEPT !.session = TRUE, !.roots = r, !.existing = Rich] :
            r \in {<<>>, <<"missing", "file">>, <<"directory", "file">>}}
    \cup {[CommandLine EXCEPT !.traceFile = TRUE, !.suite = "mini"],
          [CommandLine EXCEPT !.traceFile = TRUE, !.names = {"plain"},
                              !.existing = Rich]}
ProfileCalls ==
    {[CommandLine EXCEPT !.suite = s, !.profile = p, !.surface = FALSE] :
        s \in {"", "long-run", "live-web"}, p \in {"", "longrun", "web-evidence"}}

\* The settings of the runner for the built-in scenarios.
Runner(names, memory, web, browser) ==
    [RuntimeEvalMode |-> TRUE, RuntimeAllTools |-> FALSE, RuntimeMCPConfig |-> FALSE,
     RuntimeTools |-> names, RuntimeMemory |-> memory, RuntimeWeb |-> web,
     RuntimeBrowser |-> browser]
EvalRunners ==
    {Runner({"required"}, FALSE, FALSE, FALSE), Runner({"required"}, FALSE, TRUE, TRUE),
     Runner({"workspace", "plan", "skill"}, TRUE, FALSE, FALSE),
     Runner({}, FALSE, FALSE, TRUE)}
    \cup {[Runner({}, FALSE, FALSE, FALSE) EXCEPT !.RuntimeEvalMode = a,
                                                   !.RuntimeAllTools = a] : a \in BOOLEAN}

\* Calls of a traced run, and the scenarios it is judged by.
Act(name, args, result, code, kinds) ==
    [tool |-> name, args |-> args, result |-> result, exit |-> code, kinds |-> kinds,
     is |-> {}, n |-> <<>>]
TestPasses == Act("shell", {<<"command", "test">>}, {"ok"}, 0, {})
TestFails == Act("shell", {<<"command", "test">>}, {}, 1, {"timeout"})
WritesFile == Act("write_file", {<<"path", "f">>}, {}, 0, {})
SaysDone ==
    [Blank EXCEPT !.Prompts = 2, !.RequiredFinalText = {"done"},
                  !.MaxParentToolCalls = 1,
                  !.RequiredToolResultText = {[tool |-> "shell", text |-> "ok"]}]
TriesTwice ==
    [Blank EXCEPT !.Prompts = 2, !.RequiredToolCounts = [shell |-> 2],
                  !.RequiredToolFailureKindCounts = [timeout |-> 1],
                  !.RequiredToolStatsAtLeast = [tool_requests |-> 2, tool_errors |-> 1]]
WritesThenTests ==
    [Blank EXCEPT
        !.Prompts = 2, !.ProtectedFiles = {"g"},
        !.RequiredToolOrder = {[earlier |-> "write_file", later |-> "shell"]},
        !.RequiredTaskStateChangedFiles =
            {[is |-> {<<"Path", "f">>, <<"Action", "write">>}, n |-> <<>>, min |-> 1]},
        !.RequiredTaskStateEvidence =
            {[is |-> {<<"Source", "shell">>}, n |-> <<>>, min |-> 1]}]
FullAfterCompact ==
    [Blank EXCEPT !.RequireLoopProtocolFullAfterCompact = TRUE,
                  !.RequiredLoopProtocolFeeds = 1, !.RequiredContextCompactions = 1]
TraceNotes ==
    {Ev("context.compacted", {}), Ev("loop.protocol_feed", {<<"Mode", "full">>}),
     Ev("loop.protocol_feed", {<<"Mode", "changed">>})}

\* Where the options of affentctl are set: what the surface depends on, and
\* the ways in which settings can meet.
SurfaceSettings ==
    {<<"flag", o, TRUE>> : o \in {"eval_mode", "eval_all_tools", "memory_only", "web",
                                  "web_search", "browser", "mcp_config",
                                  "loop_protocol"}}
    \cup {<<"flag", "memory", FALSE>>}
    \cup {<<"flag", "eval_tools", t>> :
            t \in {{"all"}, {"workspace"}, {"memory"}, {"web"}, {"mcp"},
                   {"shell", "plan"}, {"none"}}}
LaneSettings ==
    {<<l, o, v>> : l \in {"flag", "env", "file"}, o \in {"memory", "web"}, v \in BOOLEAN}
    \cup {<<l, "max_turns", n>> : l \in {"flag", "env", "file"}, n \in {0, 5}}
    \cup {<<"junk", "web", TRUE>>, <<"file", "mcp_config", TRUE>>}

-----------------------------------------------------------------------------

\* Skills to install, and what users may say of the proposals.
SkillLocal ==
    [name |-> "a", body |-> "b1", source |-> "local", any |-> <<"w">>,
     allAny |-> <<>>, required |-> <<"shell">>, fits |-> TRUE]
SkillRemote ==
    [SkillLocal EXCEPT !.body = "b2", !.source = "remote", !.any = <<>>,
                       !.allAny = <<<<"w">>, <<"x">>>>, !.required = <<>>]
SkillOther ==
    [SkillLocal EXCEPT !.name = "b", !.body = "b3", !.any = <<"x">>,
                       !.required = <<"browser">>]
SkillEmbedded == [SkillOther EXCEPT !.body = "b0", !.source = "embed", !.required = <<>>]
SkillAt ==
    [name |-> "", url |-> "blob", skillFile |-> TRUE, body |-> "b4",
     manifest |-> "ok", manifestName |-> "b", path |-> "p", any |-> <<"w">>,
     allAny |-> <<>>, required |-> <<>>]
SkillTexts ==
    {[ids |-> {i}, yes |-> TRUE, no |-> n] :
        i \in {<<"a", "remote", "b2", <<"w", "x">>>>, <<"b", "remote", "b4", <<"w">>>>},
        n \in BOOLEAN} \cup {[ids |-> {}, yes |-> TRUE, no |-> FALSE]}

VARIABLES scene,
          v1, v2, v3, v4, v5, v6, v7, v8, v9, v10, v11, v12, v13

vars == <<scene,
         v1, v2, v3, v4, v5, v6, v7, v8, v9, v10, v11, v12, v13>>

\* The judgement of a traced scenario.
EvalCrash == INSTANCE EvalTrace WITH
    Scenarios <- {SaysDone, TriesTwice}, Actions <- {TestPasses, TestFails},
    Reasons <- {"max_turns"}, Finals <- {{"done"}}, Notes <- {},
    Ids <- {"a"}, MaxCalls <- 2, MaxNotes <- 0, Reuse <- FALSE,
    Crashes <- TRUE, Timeouts <- TRUE, MaxItems <- 2,
    scenario <- v1, prompt <- v2, phase <- v3, resumed <- v4, emitted <- v5,
    unread <- v6, file <- v7, exits <- v8, expired <- v9, verdict <- v10

EvalParallel == INSTANCE EvalTrace WITH
    Scenarios <- {SaysDone, TriesTwice, WritesThenTests},
    Actions <- {TestPasses, TestFails, WritesFile},
    Reasons <- {"cancelled", "error"}, Finals <- {{"done"}, {"no"}},
    Notes <- {}, Ids <- {"a", "b"}, MaxCalls <- 2, MaxNotes <- 0,
    Reuse <- FALSE, Crashes <- FALSE, Timeouts <- FALSE, MaxItems <- 1,
    scenario <- v1, prompt <- v2, phase <- v3, resumed <- v4, emitted <- v5,
    unread <- v6, file <- v7, exits <- v8, expired <- v9, verdict <- v10

EvalNotes == INSTANCE EvalTrace WITH
    Scenarios <- {FullAfterCompact}, Actions <- {}, Reasons <- {"error"},
    Finals <- {{"done"}}, Notes <- TraceNotes, Ids <- {"a"}, MaxCalls <- 0,
    MaxNotes <- 4, Reuse <- FALSE, Crashes <- TRUE, Timeouts <- FALSE,
    MaxItems <- 1,
    scenario <- v1, prompt <- v2, phase <- v3, resumed <- v4, emitted <- v5,
    unread <- v6, file <- v7, exits <- v8, expired <- v9, verdict <- v10

\* The built-in scenarios under several runners.
EvalSurface == INSTANCE EvalRun WITH
    Runners <- EvalRunners, Names <- {},
    scenario <- v1, runner <- v2, stage <- v3, tools <- v4, calls <- v5,
    status <- v6, verdict <- v7

\* A call of affenteval.
Batch == INSTANCE EvalBatch WITH
    Invocations <- BatchCalls \cup TraceCalls \cup ProfileCalls,
    Library <- BatchLibrary \cup BuiltinBatchScenarios,
    Outcomes <- BatchOutcomes, Writes <- {0, 3, 4, 5}, Removes <- BOOLEAN,
    call <- v1, stage <- v2, queue <- v3, results <- v4, rows <- v5,
    summary <- v6, gateFailures <- v7, exit <- v8, disk <- v9

\* A call of affentctl.
CtlSurface == INSTANCE CtlRun WITH
    Settings <- SurfaceSettings, MaxSettings <- 3, McpTools <- {"m"},
    Interrupts <- FALSE, Fails <- FALSE,
    given <- v1, disk <- v2, cf <- v3, stage <- v4, tools <- v5, open <- v6,
    closers <- v7, guards <- v8, trace <- v9, final <- v10, turn <- v11,
    exit <- v12

CtlLanes == INSTANCE CtlRun WITH
    Settings <- LaneSettings, MaxSettings <- 2, McpTools <- {"m"},
    Interrupts <- TRUE, Fails <- TRUE,
    given <- v1, disk <- v2, cf <- v3, stage <- v4, tools <- v5, open <- v6,
    closers <- v7, guards <- v8, trace <- v9, final <- v10, turn <- v11,
    exit <- v12

\* The skills of the account and of a session.
Skill == INSTANCE Skills WITH
    Sessions <- {"s"}, Workers <- {"w"}, Names <- {"a", "b", "given"},
    Requests <- {SkillLocal, SkillRemote, SkillOther}, Remotes <- {SkillAt},
    UserTexts <- SkillTexts, Tools <- {"shell"},
    BuiltinSkills <- {SkillEmbedded}, OwnSkills <- {}, TooLong <- {},
    MaxSkills <- 4, Apart <- "calls", MaxCalls <- 3, MaxTroubles <- 1,
    final <- v1, stage <- v2, backup <- v3, pending <- v4, reg <- v5,
    listed <- v6, said <- v7, calls <- v8, made <- v9, troubles <- v10,
    last <- v11, agreed <- v12, brought <- v13

SkillApart == INSTANCE Skills WITH
    Sessions <- {"s"}, Workers <- {"w", "x"}, Names <- {"a", "b", "given"},
    Requests <- {SkillLocal, SkillOther}, Remotes <- {}, UserTexts <- {},
    Tools <- {"shell"}, BuiltinSkills <- {SkillEmbedded}, OwnSkills <- {},
    TooLong <- {}, MaxSkills <- 4, Apart <- "names", MaxCalls <- 3,
    MaxTroubles <- 1,
    final <- v1, stage <- v2, backup <- v3, pending <- v4, reg <- v5,
    listed <- v6, said <- v7, calls <- v8, made <- v9, troubles <- v10,
    last <- v11, agreed <- v12, brought <- v13

\* The tools of MCP servers.
Register == INSTANCE McpRegister WITH
    Tools <- {"read", "shell"}, Builtins <- {"shell"}, Servers <- 2,
    MaxOffered <- 2,
    namespaced <- v1, allow <- v2, deny <- v3, order <- v4, owner <- v5,
    open <- v6, done <- v7, srvNo <- v8, pc <- v9, offered <- v10,
    names <- v11

\* The constants are as each component assumes them.
ASSUME MCRunsAssumption ==
    /\ EvalCrash!EvalTraceAssumption
    /\ EvalParallel!EvalTraceAssumption
    /\ EvalNotes!EvalTraceAssumption
    /\ EvalSurface!EvalRunAssumption
    /\ Batch!EvalBatchAssumption
    /\ CtlSurface!CtlRunAssumption
    /\ CtlLanes!CtlRunAssumption
    /\ Skill!SkillsAssumption
    /\ SkillApart!SkillsAssumption
    /\ Register!McpRegisterAssumption

\* A variable that the scene does not use is 0 and stays so.
Unused ==
    /\ scene = "eval_surface" =>
         /\ v8 = 0 /\ v9 = 0
    /\ scene \in {"eval_surface", "eval_batch"} =>
         /\ v10 = 0
    /\ scene \notin {"ctl_surface", "ctl_lanes", "skills", "skills_apart",
                     "mcp_tools"} =>
         /\ v11 = 0
    /\ scene \notin {"ctl_surface", "ctl_lanes", "skills", "skills_apart"} =>
         /\ v12 = 0
    /\ scene \notin {"skills", "skills_apart"} =>
         /\ v13 = 0

Kept ==
    /\ scene' = scene
    /\ scene = "eval_surface" =>
         UNCHANGED <<v8, v9>>
    /\ scene \in {"eval_surface", "eval_batch"} =>
         UNCHANGED <<v10>>
    /\ scene \notin {"ctl_surface", "ctl_lanes", "skills", "skills_apart",
                     "mcp_tools"} =>
         UNCHANGED <<v11>>
    /\ scene \notin {"ctl_surface", "ctl_lanes", "skills", "skills_apart"} =>
         UNCHANGED <<v12>>
    /\ scene \notin {"skills", "skills_apart"} =>
         UNCHANGED <<v13>>

\* These scenes come to an end at their bounds.
Stop ==
    /\ scene \in {"eval_crash", "eval_parallel", "eval_notes",
                  "eval_surface", "eval_batch", "ctl_surface", "ctl_lanes",
                  "skills", "skills_apart"}
    /\ UNCHANGED vars

Init ==
    /\ \/ scene = "eval_crash" /\ EvalCrash!Init
       \/ scene = "eval_parallel" /\ EvalParallel!Init
       \/ scene = "eval_notes" /\ EvalNotes!Init
       \/ scene = "eval_surface" /\ EvalSurface!Init
       \/ scene = "eval_batch" /\ Batch!Init
       \/ scene = "ctl_surface" /\ CtlSurface!Init
       \/ scene = "ctl_lanes" /\ CtlLanes!Init
       \/ scene = "skills" /\ Skill!Init
       \/ scene = "skills_apart" /\ SkillApart!Init
       \/ scene = "mcp_tools" /\ Register!Init
    /\ Unused

Next ==
    /\ Kept
    /\ \/ scene = "eval_crash" /\ EvalCrash!Next
       \/ scene = "eval_parallel" /\ EvalParallel!Next
       \/ scene = "eval_notes" /\ EvalNotes!Next
       \/ scene = "eval_surface" /\ EvalSurface!Next
       \/ scene = "eval_batch" /\ Batch!Next
       \/ scene = "ctl_surface" /\ CtlSurface!Next
       \/ scene = "ctl_lanes" /\ CtlLanes!Next
       \/ scene = "skills" /\ Skill!Next
       \/ scene = "skills_apart" /\ SkillApart!Next
       \/ scene = "mcp_tools" /\ Register!Next
       \/ Stop

Spec == Init /\ [][Next]_vars

-----------------------------------------------------------------------------
\* A scenario of the eval passes only when its last process completed the
\* turn and what it asks for did happen, though processes crash, files lose
\* the end of a turn and call ids come again; with no process lost the
\* verdict, the pairing of calls and the derived task state are those of a
\* perfect reader, and both runners read the same.
VerdictEarned ==
    /\ scene = "eval_crash" =>
         /\ EvalCrash!VerdictEarned /\ EvalCrash!VerdictFair
         /\ EvalCrash!ParsePairs /\ EvalCrash!RunnersAgree
         /\ EvalCrash!StateTruthful
    /\ scene = "eval_parallel" =>
         /\ EvalParallel!VerdictEarned /\ EvalParallel!VerdictFair
         /\ EvalParallel!ParsePairs /\ EvalParallel!RunnersAgree
         /\ EvalParallel!StateTruthful
    /\ scene = "eval_notes" =>
         /\ EvalNotes!VerdictEarned /\ EvalNotes!VerdictFair
         /\ EvalNotes!ParsePairs /\ EvalNotes!RunnersAgree
         /\ EvalNotes!StateTruthful

\* Nothing that explains a failure is deleted, the files that are named can
\* be opened, and the exit code, the printed lines, the summary, the
\* manifests and the briefs tell the same story; the longrun profile lets no
\* severe item pass, and each profile can be asked of its suite.
EvalHonest ==
    scene = "eval_batch" =>
      /\ Batch!EvidenceKept /\ Batch!PathsLive /\ Batch!ExitHonest
      /\ Batch!SummaryAgrees /\ Batch!ManifestAgrees
      /\ Batch!BriefTruthful /\ Batch!VerifierNamed
      /\ Batch!FailItemsGated /\ Batch!ProfileServed

\* An option of affentctl has the value of the strongest place that sets it,
\* the model is offered what was asked for and no guard asks for a tool it
\* lacks; what was opened is closed and the exit code says how the turn
\* ended. What the preflight of affenteval admits is offered to the agent,
\* and the best agent there could be then passes the scenario. A server that
\* fails to register leaves no tool behind, a name has one owner, and a
\* builtin is never replaced.
SurfaceAsAsked ==
    /\ scene = "ctl_surface" =>
         /\ CtlSurface!PrecedenceKept /\ CtlSurface!SurfaceAsAsked
         /\ CtlSurface!GuardsServable /\ CtlSurface!NothingLeaked
         /\ CtlSurface!ExitHonest
    /\ scene = "ctl_lanes" =>
         /\ CtlLanes!PrecedenceKept /\ CtlLanes!SurfaceAsAsked
         /\ CtlLanes!GuardsServable /\ CtlLanes!NothingLeaked
         /\ CtlLanes!ExitHonest
    /\ scene = "eval_surface" =>
         /\ EvalSurface!AdmittedServed /\ EvalSurface!Solvable
    /\ scene = "mcp_tools" =>
         /\ Register!FailureLeavesNothing /\ Register!OneOwner

\* A skill that is loaded is one that was asked for, an install that fails or
\* is cut off by a crash leaves the skill there was, and from elsewhere comes
\* only what the user agreed to; a session has the skills it would have after
\* a restart, and a skill said to be active is offered.
SkillsKept ==
    /\ scene = "skills" =>
         /\ Skill!Whole /\ Skill!Kept /\ Skill!ConfirmedOnly
         /\ Skill!RegistryMatches /\ Skill!ActiveNowTruthful
         /\ Skill!Loadable
    /\ scene = "skills_apart" =>
         /\ SkillApart!Whole /\ SkillApart!Kept
         /\ SkillApart!ConfirmedOnly /\ SkillApart!ActiveNowTruthful
         /\ SkillApart!Loadable
=============================================================================
