------------------------------ MODULE EvalBatch ------------------------------
(***************************************************************************)
(* One call of affenteval: it refuses, lists, judges an existing trace, or *)
(* runs scenarios one after the other. The workspaces of passing scenarios *)
(* are removed, at once or, when there are quality gates, after the gates  *)
(* held. What is printed, what is left on the disk and the exit code must  *)
(* tell the same story.                                                    *)
(*                                                                         *)
(* A run of affentctl is an outcome the environment picks; the names of    *)
(* the scenarios of a batch differ, and so do their workspaces.            *)
(***************************************************************************)
EXTENDS EvalGates

CONSTANTS
    Invocations,    \* the command lines
    Library,    \* the built-in scenarios
    Outcomes,   \* what running a scenario may come to
    Writes,     \* how many of the artifacts can be written
    Removes     \* whether a workspace can be removed

VARIABLES
    call,       \* the command line
    stage,      \* "start", "running" or "done"
    queue,      \* scenarios still to run
    results,    \* in the order of the runs
    rows,       \* the printed results
    summary, gateFailures, exit,
    disk        \* the files of each workspace, and what its manifest says

vars == <<call, stage, queue, results, rows, summary, gateFailures, exit, disk>>

\* The debug artifacts of a run, in the order they are written.
Artifacts == <<"final", "stdout", "stderr", "timeline", "manifest">>
Upto(k) == {Artifacts[i] : i \in 1..k}

EvalBatchAssumption ==
    /\ Writes \subseteq 0..Len(Artifacts) /\ Removes \subseteq BOOLEAN
    /\ \A s, u \in Library : s.Name = u.Name => s = u

-----------------------------------------------------------------------------
\* The command line.

Gates(c) == ApplyQualityGateProfile(c.flags, c.profile)
TraceGates(c) == QualityGateConfigForTraceFile(Gates(c), c.flags)

InSuite(s, suite) == suite = "" \/ suite \in s.Suites
AdHoc(c) == [Blank EXCEPT !.VerifyCommand = c.verify]

\* A prompt makes a scenario of its own and excludes a selection.
SelectedEvalScenarios(c) ==
    IF c.prompt # "" THEN {AdHoc(c)}
    ELSE {s \in Library : InSuite(s, c.suite) /\ (c.names = {} \/ s.Name \in c.names)}
Selectable(c) ==
    IF c.prompt # ""
    THEN c.prompt = "text" /\ c.suite = "" /\ c.names = {}
    ELSE /\ c.suite # "" => \E s \in Library : c.suite \in s.Suites
         /\ c.names \subseteq {s.Name : s \in SelectedEvalScenarios(c)}

\* The first root that has the session's events decides.
ResolveSessionTracePath(roots) ==
    LET there == {i \in DOMAIN roots : roots[i] # "missing"}
    IN  there # {} /\ roots[FirstOf(there)] = "file"

TraceMode(c) == c.traceFile \/ (c.session /\ c.prompt = "")
TracePath(c) == c.traceFile \/ ResolveSessionTracePath(c.roots)

ValidateEvalExecutor(c, n) ==
    \/ c.executor = "local"
    \/ c.executor = "sandbox" /\ n = 1
    \/ c.executor = "docker" /\ c.workRoot = "absolute"
ValidateRunConfig(c) ==
    /\ c.numbers /\ c.surface
    /\ ValidateEvalExecutor(c, Count(SelectedEvalScenarios(c)))

\* Where the call is refused, in the order of the checks; "" if it is not.
Refusal(c) ==
    LET chosen == SelectedEvalScenarios(c)
    IN  CASE c.mode = "profiles" -> ""
          [] ~KnownProfile(c.profile) -> "profile"
          [] ~ValidateQualityGateConfig(Gates(c)) -> "gates"
          [] c.mode = "suites" -> ""
          [] c.mode = "coverage" /\ c.prompt # "" -> "coverage"
          [] c.mode \in {"list", "coverage"} ->
                IF Selectable([c EXCEPT !.prompt = ""]) THEN "" ELSE "scenario"
          [] TraceMode(c) ->
                IF ~TracePath(c) THEN "session"
                ELSE IF ~c.readable THEN "trace"
                ELSE IF c.suite = "" /\ c.names = {} THEN ""
                ELSE IF Selectable(c) /\ Count(chosen) = 1 THEN "" ELSE "scenario"
          [] ~Selectable(c) -> "scenario"
          [] PreflightFailures(chosen, Gates(c)) # {} -> "preflight"
          [] ~ValidateRunConfig(c) -> "config"
          [] OTHER -> ""

-----------------------------------------------------------------------------
\* The recovery guide and the manifest.

Priority ==
    <<"outcome:failed", "turn_end:max_turns", "turn_end:error", "runtime_error",
      "conversation_repair", "tool_repair:failed", "verifier:failed",
      "verifier:not_run", "verifier:abnormal", "verifier:output_truncated",
      "durable_completion", "loop_protocol:fixture",
      "loop_protocol:calibration_backlog", "loop_protocol:setup_tool_overrun",
      "tool_failure:loop_protocol_activation_status",
      "tool_failure:loop_protocol_activation_invalid", "tool_failure:unclassified",
      "memory_update:missing", "memory_update:available_unused",
      "recall:session_search_available_unused", "memory_update:absent_longrun",
      "tool_budget:turn_overrun", "research_checkpoint:no_external_evidence",
      "loop_guard:forced_no_tools", "tool_failure:loop_guard_call_cap",
      "tool_failure:loop_guard_no_budget", "tool_failure:invalid_args",
      "tool_failure:command_failed", "tool_failure:tool_failed",
      "tool_failure:blocked", "plan_error", "delegation_error",
      "source_dynamic_without_network", "source_dynamic_without_decision",
      "browser_network:unread_refs", "browser_scroll:stuck_without_network",
      "source_network:missing_response_diagnostics", "source_network:partial_read",
      "context_compaction:scoped_pressure", "context_compaction:summary_missing",
      "context_compaction:summary_empty", "truncation:missing_artifact",
      "empty_recall:recent_sessions", "recall:no_context",
      "recall:no_matched_terms", "recall:weak_context",
      "recall:weak_matched_terms", "recall:memory_no_topic_anchors">>
MostTags == 6

\* The tags the guide names: those of the list first; which of the others
\* fill it up is left open.
PriorityTags(tags) ==
    LET named == SelectSeq(Priority, LAMBDA x : x \in tags)
    IN  {named[i] : i \in 1..(IF Len(named) < MostTags THEN Len(named) ELSE MostTags)}

\* The tags a piece of advice is for, in the order it is given.
Advice ==
    <<{"tool_repair:failed"}, {"verifier:failed"}, {"verifier:not_run"},
      {"verifier:abnormal"}, {"verifier:output_truncated"}, {"durable_completion"},
      {"loop_protocol:fixture"}, {"loop_protocol:calibration_backlog"},
      {"loop_protocol:setup_tool_overrun"},
      {"tool_failure:loop_protocol_activation_status",
       "tool_failure:loop_protocol_activation_invalid"},
      {"tool_failure:unclassified"}, {"memory_update:missing"},
      {"memory_update:available_unused"},
      {"recall:session_search_available_unused"}, {"memory_update:absent_longrun"},
      {"tool_budget:turn_overrun"}, {"research_checkpoint:no_external_evidence"},
      {"loop_guard:forced_no_tools"},
      {"tool_failure:loop_guard_call_cap", "plan_error"},
      {"tool_failure:invalid_args"}, {"tool_failure:command_failed"},
      {"tool_failure:tool_failed"}, {"tool_failure:loop_guard_no_budget"},
      {"tool_failure:blocked"}, {"delegation_error"}, {"browser_network:unread_refs"},
      {"context_compaction:summary_missing", "context_compaction:summary_empty"},
      {"context_compaction:scoped_pressure"}, {"empty_recall:recent_sessions"},
      {"recall:no_context", "recall:no_matched_terms", "recall:weak_context",
       "recall:weak_matched_terms"},
      {"recall:memory_no_topic_anchors"}>>
MostActions == 4
PriorityAction(tags) ==
    LET given == {i \in DOMAIN Advice : Advice[i] \cap tags # {}}
    IN  {Advice[i] : i \in {k \in given : Count(given \cap 1..k) <= MostActions}}

\* What the guide says first: "" when there is none.
RecoverySummary(r) ==
    CASE r.OK /\ r.exit = 0 /\ BuildDebugBrief(r) = {} -> ""
      [] r.OK -> "baseline"
      [] r.t.reason \notin {"", "completed"} -> "turn ended"
      [] OTHER -> "failed"

NoManifest == [OK |-> FALSE, tags |-> {}, guide |-> "", stamped |-> {}]
Manifest(r) == [OK |-> r.OK, tags |-> BriefTags(r), guide |-> RecoverySummary(r),
                stamped |-> {}]

\* Failed gates are written into the manifest, and its guide takes them up.
UpdateDebugManifestQualityGates(m, thresholds, failures) ==
    IF ~thresholds THEN m
    ELSE [m EXCEPT !.stamped = failures,
                   !.guide = IF failures = {} THEN @
                             ELSE IF m.OK THEN "gates failed" ELSE "checks and gates failed"]

-----------------------------------------------------------------------------
\* One scenario.

\* k artifacts were written. The paths of the last two are set together,
\* before either is written.
ArtifactPaths(k) == Upto(IF k >= 3 THEN 5 ELSE k)

CheckFailures(s, t) ==
    LET rest == CheckBatchTrace([s EXCEPT !.RequiredTurnEndReason = "",
                                          !.ForbidWorkspaceAbsolutePaths = FALSE],
                                [t EXCEPT !.reason = "completed"])
    IN  When(~TurnEndedWithReason(t, s.RequiredTurnEndReason), {<<"turn_end", "">>})
        \cup When(s.ForbidWorkspaceAbsolutePaths
                      /\ ~ShellCommandLacksWorkspaceAbsolutePath(t),
                  {<<"workspace path", "">>})
        \cup When(~rest, {<<"checks", "">>})

NewResult(s) ==
    [OK |-> FALSE, exit |-> 0, failures |-> {}, known |-> FALSE, scenario |-> s,
     t |-> NoTrace, answered |-> FALSE, verifier |-> NoVerifier,
     name |-> s.Name, ms |-> 0, ws |-> "none", paths |-> {}, trace |-> FALSE]
Fail(r, kind) == [r EXCEPT !.failures = {<<kind, "">>}]

\* The setup of a scenario ends at its first error; what was set up stays.
SetupFailure(s, o) ==
    CASE s.Prompts > 1 /\ s.SessionID = "" -> "multi-turn"
      [] o.setup \in {"work root", "scenario files"} -> o.setup
      [] ~VerifyScenarioLoopProtocolState(s) -> "loop fixture"
      [] o.setup = "setup command" -> o.setup
      [] o.setup = "source repo" /\ s.SourceRepoURL -> o.setup
      [] o.setup = "protected files" /\ s.ProtectedFiles # {} -> o.setup
      [] OTHER -> ""
SetupResult(s, why) ==
    CASE why = "multi-turn" -> Fail(NewResult(s), why)
      [] why = "work root" -> [Fail(NewResult(s), why) EXCEPT !.known = TRUE]
      [] OTHER -> [Fail(NewResult(s), why) EXCEPT !.known = TRUE, !.ws = "kept"]

\* After the run every check is made, whatever the others found.
RunFailures(s, o) ==
    When(o.exit # 0, {IF o.error = "" THEN <<"affentctl_run", "">>
                      ELSE <<"runtime", o.error>>})
    \cup When(o.touched /\ s.ProtectedFiles # {}, {<<"protected file", "">>})
    \cup When(o.unfinished /\ s.RequiredLoopProtocolFinalStatus # "",
              {<<"final status", "">>})
    \cup When(o.lacking /\ s.RequiredFileSubstrings, {<<"file substrings", "">>})
    \cup When(s.VerifyCommand /\ ~o.verified.OK, {<<"verify_command", "">>})
    \cup (IF o.parses THEN CheckFailures(s, o.t) ELSE {<<"parse_trace", "">>})
    \cup When(s.ExpectedSkill /\ ~o.skilled, {<<"skill", "">>})

RunResult(s, o) ==
    LET t == IF o.parses THEN o.t ELSE NoTrace
        failures == RunFailures(s, o)
    IN  [NewResult(s) EXCEPT
            !.OK = failures = {}, !.exit = o.exit, !.failures = failures,
            !.known = TRUE, !.t = t, !.ms = o.ms,
            !.answered = o.stdout \/ t.final # {},
            !.verifier = IF s.VerifyCommand
                         THEN [Command |-> TRUE, Ran |-> TRUE] @@ o.verified
                         ELSE NoVerifier,
            !.ws = "kept", !.trace = TRUE]

\* The artifacts: an error makes the result a failure, after the manifest.
WithArtifacts(r, k) ==
    [r EXCEPT !.paths = ArtifactPaths(k),
              !.OK = r.OK /\ k = Len(Artifacts),
              !.failures = @ \cup When(k < Len(Artifacts), {<<"artifacts", "">>})]

\* Plausible bug: a failing workspace is removed as well.
CleanupPassingWorkspaceMutant(r, removable) ==
    IF r.ws # "kept" THEN r ELSE [r EXCEPT !.ws = IF removable THEN "removed" ELSE "stuck"]

CleanupPassingWorkspace(r, removable) ==
    IF ~r.OK \/ r.ws # "kept" THEN r
    ELSE [r EXCEPT !.ws = IF removable THEN "removed" ELSE "stuck"]

\* What a result leaves on the disk.
Left(r, files, manifest) ==
    IF r.ws \in {"none", "removed"} THEN [files |-> {}, manifest |-> NoManifest]
    ELSE [files |-> files, manifest |-> manifest]

-----------------------------------------------------------------------------
\* Printing: the line of a result names its files unless they are removed.
Row(r) == [name |-> r.name, OK |-> r.OK, ws |-> r.ws, paths |-> Retained(r),
           tags |-> BriefTags(r), kinds |-> {FailureKindOf(f) : f \in r.failures}]

ExitCode(s, failures) ==
    IF CopiesIn("Failed", s.n) > 0 \/ failures # {} THEN 1 ELSE 0

Init ==
    /\ call \in Invocations
    /\ stage = "start" /\ queue = {} /\ results = <<>> /\ rows = <<>>
    /\ summary = NoSummaryYet /\ gateFailures = {} /\ exit = -1 /\ disk = <<>>

Refuse ==
    /\ stage = "start" /\ Refusal(call) # ""
    /\ stage' = "done" /\ exit' = 64
    /\ UNCHANGED <<call, queue, results, rows, summary, gateFailures, disk>>

List ==
    /\ stage = "start" /\ Refusal(call) = "" /\ call.mode # "run"
    /\ stage' = "done" /\ exit' = 0
    /\ UNCHANGED <<call, queue, results, rows, summary, gateFailures, disk>>

Start ==
    /\ stage = "start" /\ Refusal(call) = "" /\ call.mode = "run" /\ ~TraceMode(call)
    /\ stage' = "running" /\ queue' = SelectedEvalScenarios(call)
    /\ UNCHANGED <<call, results, rows, summary, gateFailures, exit, disk>>

\* With gates the workspaces are kept until the gates are known.
DeferPassingCleanup(c) == ~c.keep /\ HasQualityGateThresholds(Gates(c))
CleansAtOnce(c) == ~c.keep /\ ~DeferPassingCleanup(c)

Upcoming == CHOOSE s \in queue : TRUE

\* Without deferred cleanup a result is added and printed right away.
Record(r, files, manifest) ==
    /\ results' = Append(results, r)
    /\ disk' = disk @@ (r.name :> Left(r, files, manifest))
    /\ IF DeferPassingCleanup(call) THEN UNCHANGED <<rows, summary>>
       ELSE summary' = Add(summary, r) /\ rows' = Append(rows, Row(r))

\* The scenarios run in some fixed order.
Run(o) ==
    /\ stage = "running" /\ queue # {}
    /\ queue' = queue \ {Upcoming}
    /\ LET s == Upcoming
       IN  \/ /\ SetupFailure(s, o) # ""
              /\ \E r \in {SetupResult(s, SetupFailure(s, o))} :
                    Record(r, {}, NoManifest)
           \/ /\ SetupFailure(s, o) = ""
              /\ \E made \in {RunResult(s, o)}, k \in Writes, removable \in Removes :
                    \E r \in {WithArtifacts(made, k)} :
                    \E end \in {IF CleansAtOnce(call)
                                THEN CleanupPassingWorkspace(r, removable) ELSE r} :
                        Record(end, Upto(k) \cup {"trace"},
                               IF k = Len(Artifacts) THEN Manifest(made)
                               ELSE NoManifest)
    /\ UNCHANGED <<call, stage, gateFailures, exit>>

\* Everything ran: the gates, the deferred cleanup, and the summary again.
CleanupPassingBatchResults(rs, removable) ==
    [i \in DOMAIN rs |-> CleanupPassingWorkspace(rs[i], removable[i])]

FinishDeferred ==
    /\ stage = "running" /\ queue = {} /\ DeferPassingCleanup(call)
    /\ \E failures \in {QualityGateFailures(SummarizeBatchResults(results), Gates(call))} :
        /\ gateFailures' = failures
        /\ \E removable \in [DOMAIN results -> Removes] :
            results' = IF failures = {}
                       THEN CleanupPassingBatchResults(results, removable)
                       ELSE results
    /\ summary' = SummarizeBatchResults(results')
    /\ rows' = [i \in DOMAIN results' |-> Row(results'[i])]
    /\ disk' = [n \in DOMAIN disk |->
                    IF \E i \in DOMAIN results' : results'[i].name = n /\ results'[i].ws = "removed"
                    THEN [files |-> {}, manifest |-> NoManifest] ELSE disk[n]]
    /\ exit' = ExitCode(summary', gateFailures')
    /\ stage' = "done"
    /\ UNCHANGED <<call, queue>>

Finish ==
    /\ stage = "running" /\ queue = {} /\ ~DeferPassingCleanup(call)
    /\ gateFailures' = QualityGateFailures(summary, Gates(call))
    /\ exit' = ExitCode(summary, gateFailures')
    /\ stage' = "done"
    /\ UNCHANGED <<call, queue, results, rows, summary, disk>>

\* An existing trace: its debug directory may hold the files of an earlier
\* call, here none. An error of the artifacts ends in 64, after the manifest
\* was looked for (missing: at once) and the result printed.
TraceScenario(c) ==
    IF c.suite = "" /\ c.names = {} THEN Blank
    ELSE CHOOSE s \in SelectedEvalScenarios(c) : TRUE
TraceResult(c) ==
    LET s == TraceScenario(c)
        failures == CheckFailures(s, c.existing)
    IN  [NewResult(s) EXCEPT
            !.OK = failures = {}, !.failures = failures, !.known = TRUE,
            !.t = c.existing, !.answered = c.existing.final # {},
            !.ws = "kept", !.trace = TRUE]

JudgeTrace ==
    /\ stage = "start" /\ Refusal(call) = "" /\ call.mode = "run" /\ TraceMode(call)
    /\ \E made \in {TraceResult(call)}, gates \in {TraceGates(call)}, k \in Writes :
       \E r \in {WithArtifacts(made, k)} :
        LET thresholds == HasQualityGateThresholds(gates)
            unread == k \in 3..4 /\ thresholds
        IN  /\ results' = <<r>> /\ summary' = SummarizeBatchResults(<<r>>)
            /\ gateFailures' = QualityGateFailures(summary', gates)
            /\ rows' = IF unread THEN <<>> ELSE <<Row(r)>>
            /\ disk' = r.name :> Left(r, Upto(k),
                            IF k < Len(Artifacts) THEN NoManifest
                            ELSE UpdateDebugManifestQualityGates(
                                    Manifest(made), thresholds, gateFailures'))
            /\ exit' = IF k < Len(Artifacts) THEN 64
                       ELSE ExitCode(summary', gateFailures')
    /\ stage' = "done"
    /\ UNCHANGED <<call, queue>>

Over == stage = "done"

Next ==
    \/ Refuse \/ List \/ Start \/ Finish \/ FinishDeferred \/ JudgeTrace
    \/ \E o \in Outcomes : Run(o)

Spec == Init /\ [][Next]_vars

-----------------------------------------------------------------------------
TypeOK ==
    /\ call \in Invocations /\ stage \in {"start", "running", "done"}
    /\ queue \subseteq Library \cup {AdHoc(call)}
    /\ exit \in {-1, 0, 1, 64}
    /\ \A i \in DOMAIN results : results[i].name \in DOMAIN disk
    /\ Len(rows) <= Len(results)

Gone(n) == disk[n].files = {} /\ \E i \in DOMAIN results : results[i].name = n /\ results[i].paths # {}

\* Nothing that explains a failure is deleted: a workspace is only removed
\* when its scenario passed, and, where gates were asked for, when they held.
EvidenceKept ==
    \A n \in DOMAIN disk : Gone(n) =>
        /\ \E i \in DOMAIN results :
            results[i].name = n /\ results[i].OK /\ results[i].ws = "removed"
        /\ ~call.keep
        /\ HasQualityGateThresholds(Gates(call)) => Over /\ gateFailures = {}

\* The files a line or an example of the summary names can be opened, as far
\* as they were written.
Named(n, paths, written) ==
    paths \subseteq disk[n].files \/ ~written
Written(n) == \E i \in DOMAIN results :
                results[i].name = n /\ <<"artifacts", "">> \notin results[i].failures
PathsLive ==
    Over =>
        /\ \A i \in DOMAIN rows : Named(rows[i].name, rows[i].paths, Written(rows[i].name))
        /\ \A k \in DOMAIN summary.tagExamples :
            \A j \in DOMAIN summary.tagExamples[k] :
                LET e == summary.tagExamples[k][j]
                IN  Named(e.scenario, e.paths, Written(e.scenario))

\* Success is what the lines say: all of them passed, none carries a tag that
\* the gates forbid, and every capability the gates require was passed once.
ExitHonest ==
    /\ exit = 0 /\ call.mode = "run" =>
        /\ rows # <<>> /\ \A i \in DOMAIN rows : rows[i].OK
        /\ LET g == IF TraceMode(call) THEN TraceGates(call) ELSE Gates(call)
           IN  /\ \A i \in DOMAIN rows :
                    \A tag \in rows[i].tags \cap DOMAIN g.tags : g.tags[tag] # 0
               /\ \A c \in g.caps : \E i \in DOMAIN results :
                    /\ c \in ExpectationCapabilityNames(results[i].scenario)
                    /\ rows[i].OK
    /\ exit = 1 => gateFailures # {} \/ \E i \in DOMAIN rows : ~rows[i].OK

\* The totals of the summary are those of the printed lines.
SummaryAgrees ==
    Over /\ rows # <<>> =>
        /\ CopiesIn("Failed", summary.n) = Count({i \in DOMAIN rows : ~rows[i].OK})
        /\ CopiesIn("RemovedWorkspaces", summary.n)
            = Count({i \in DOMAIN rows : rows[i].ws = "removed"})
        /\ \A k \in UNION {rows[i].tags : i \in DOMAIN rows} :
            CopiesIn(k, summary.tags) = Count({i \in DOMAIN rows : k \in rows[i].tags})

\* A manifest that is left says of its scenario what the line said, and one
\* of a judged trace never calls it a baseline when the gates failed.
ManifestAgrees ==
    Over =>
        /\ \A i \in DOMAIN rows :
            LET m == disk[rows[i].name].manifest
            IN  "manifest" \in disk[rows[i].name].files =>
                    m.OK = rows[i].OK /\ m.tags = rows[i].tags
        /\ TraceMode(call) /\ gateFailures # {} =>
            \A n \in DOMAIN disk : disk[n].manifest.guide # "baseline"

\* The brief of a result: a failure is said, and what is reported of a passed
\* run is nothing its checks have ruled out.
Excluded ==
    {"outcome:failed", "loop_protocol:fixture", "source_repo:setup", "verifier:failed",
     "verifier:not_run", "memory_update:missing"}
BriefTruthful ==
    \A i \in DOMAIN results :
        LET r == results[i]
            tags == BriefTags(r)
        IN  IF r.OK THEN /\ tags \cap Excluded = {}
                         /\ ~\E x \in BuildDebugBrief(r) : x.kind = "turn_end"
            ELSE "outcome:failed" \in tags

\* However much goes wrong in a run, the guide still names a failed verifier
\* and says what to do about it.
VerifierNamed ==
    \A i \in DOMAIN results :
        LET tags == PriorityTags(BriefTags(results[i]))
        IN  "verifier:failed" \in BriefTags(results[i]) =>
                {"verifier:failed"} \in PriorityAction(tags)

\* The longrun profile lets nothing pass whose brief has an item of severity
\* "fail".
FailItemsGated ==
    exit = 0 /\ call.mode = "run" /\ call.profile = "longrun" /\ call.flags = NoGates =>
        \A i \in DOMAIN results :
            \A x \in BuildDebugBrief(results[i]) : x.severity # "fail"

\* Each profile can be asked of the suite that was made for it.
ProfileServed ==
    exit = 64 => ~(/\ <<call.suite, call.profile>> \in
                        {<<"long-run", "longrun">>, <<"live-web", "web-evidence">>}
                   /\ call.mode = "run" /\ ~TraceMode(call)
                   /\ Refusal(call) = "preflight")
=============================================================================
