------------------------------ MODULE EvalGates ------------------------------
(***************************************************************************)
(* What affenteval makes of the results of a batch: the brief of each      *)
(* result, the capabilities and domains a scenario stands for, the summary *)
(* that adds the results up, and the quality gates that compare its rates  *)
(* with thresholds.                                                        *)
(*                                                                         *)
(* The brief is what somebody who debugs the run should look at first. It  *)
(* is derived from the statistics of the trace, the verdict, the verifier  *)
(* and the scenario. A result is                                           *)
(*   [OK, exit, failures, known, scenario, t, answered, verifier]          *)
(* with [name, ms, ws, ...] of EvalBatch, where t is the parsed trace      *)
(* (NoTrace when there is none), known says whether the result carries the *)
(* scenario's expectations, and answered that there is a final text. An    *)
(* item of a brief is [kind, severity, tags]; messages and the places to   *)
(* inspect are left out, and so are the counts, which decide nothing but   *)
(* whether an item is there.                                               *)
(*                                                                         *)
(* A threshold is a number of hundredths and a rate a pair <<numerator,    *)
(* denominator>> that is unavailable when the denominator is 0. A set of   *)
(* gates is [min, max, tags, perDomain, caps, domains, sources, reasons].  *)
(* Totals that are only printed are left out.                              *)
(***************************************************************************)
EXTENDS TraceChecks, RuntimeTools, Bags

NoEvent == [type |-> "none", is |-> {}, n |-> <<>>]
NoTrace ==
    [events |-> <<>>, tools |-> <<>>, reason |-> "", final |-> {}, usage |-> 0,
     stats |-> <<>>, failures |-> <<>>, repairs |-> <<>>,
     state |-> [mode |-> "", source |-> "", kind |-> "", id |-> "",
                actions |-> <<>>, files |-> <<>>, evidence |-> <<>>]]
NoVerifier == [Command |-> FALSE, Ran |-> FALSE, OK |-> FALSE, ExitCode |-> 0,
               Truncated |-> FALSE]

Stat(t, f) == IF f \in DOMAIN t.stats THEN t.stats[f] ELSE 0
When(c, S) == IF c THEN S ELSE {}
Prefixed(p, S) == {p \o x : x \in S}
MaxOf(S) == CHOOSE m \in S \cup {0} : \A k \in S \cup {0} : m >= k
Latest(t, type) ==
    IF Of(t, type) = {} THEN NoEvent ELSE t.events[LastOf(Of(t, type))]
AllTexts(t, type, f) == UNION {Texts(t.events[i], f) : i \in Of(t, type)}
Item(kind, severity, tags) == {[kind |-> kind, severity |-> severity, tags |-> tags]}

-----------------------------------------------------------------------------
\* Statistics of the trace.

Checkpoints(t) == Of(t, "loop.turn_checkpoint")
Checkpoint(t) == Latest(t, "loop.turn_checkpoint")
MostAtCheckpoint(t, f) == MaxOf({Num(t.events[i], f) : i \in Checkpoints(t)})
Feeds(t) == Count(Of(t, "loop.protocol_feed"))
Calibrations(t) == Count(Of(t, "loop.protocol_calibration"))
Rejections(t) == Count(Of(t, "message.rejected"))
Decisions(t, kind) == Count(Fitting(t, "loop.decision", Says({<<"Kind", kind>>})))
DecidedOn(t, kind, decision, trigger) ==
    Fitting(t, "loop.decision", Says({<<"Kind", kind>>, <<"Decision", decision>>,
                                      <<"Trigger", trigger>>})) # {}

\* The kinds of tool failures, as the runtime counted them or as the calls
\* show them, and the failed calls that have none.
FailureKinds(t) ==
    {k \in DOMAIN t.failures \cup UNION {t.tools[i].kinds : i \in DOMAIN t.tools} :
        ToolFailureKindCount(t, k) > 0}
UnclassifiedToolErrorCount(t) ==
    Count({i \in DOMAIN t.tools : t.tools[i].exit # 0 /\ t.tools[i].kinds = {}})

\* Calls that started a fresh setup of the loop protocol, and the calls of
\* the same turn that ran after one.
FreshStartSetup(c) ==
    /\ c.tool = "loop_protocol" /\ c.exit = 0
    /\ <<"action", "start_setup">> \in c.args /\ "initialized draft" \in c.result
SetupSkipped(c) ==
    \/ <<"result", "skipped">> \in c.is
    \/ c.exit # 0 /\ "calibration question required" \in c.result
SetupOverrun(t) ==
    \E i, j \in DOMAIN t.tools :
        /\ i < j /\ FreshStartSetup(t.tools[i])
        /\ t.tools[j].turn = t.tools[i].turn /\ ~SetupSkipped(t.tools[j])

\* The repairs the runtime counted hide those of the calls, one part at a
\* time: the calls, and the kinds.
RepairedCalls(t) == {i \in DOMAIN t.tools : Repaired(t.tools[i])}
RepairCountsGiven(t) ==
    {"tool_repair_calls", "tool_repair_succeeded", "tool_repair_failed"}
        \cap {f \in DOMAIN t.stats : t.stats[f] > 0} # {}
RepairFailedCalls(t) ==
    IF RepairCountsGiven(t) THEN Stat(t, "tool_repair_failed")
    ELSE Count({i \in RepairedCalls(t) : t.tools[i].exit # 0})
RepairKinds(t) ==
    IF DOMAIN t.repairs # {} THEN DOMAIN t.repairs
    ELSE UNION {Texts(t.tools[i], "repaired") : i \in RepairedCalls(t)}
HasRepairs(t) ==
    RepairCountsGiven(t) \/ RepairedCalls(t) # {} \/ DOMAIN t.repairs # {}

\* What a compaction left: with an active scope only the scoped tokens count.
PostPolicyTokens(e) ==
    Num(e, IF ScopeActive(e) THEN "CompactScopedInputTokens"
           ELSE "AfterEstimatedInputTokens")
PostPolicyObserved(e) ==
    /\ Num(e, "TriggerInputTokens") > 0
    /\ ScopeActive(e) \/ Num(e, "AfterEstimatedInputTokens") > 0
PostPolicyOverTrigger(e) ==
    /\ PostPolicyObserved(e)
    /\ PostPolicyTokens(e) >= Num(e, "TriggerInputTokens")
ScopedPressure(e) ==
    PolicyPressurePercent(Num(e, "CompactScopedInputTokens"),
                          Num(e, "TriggerInputTokens"))
NoSummary(e) == Num(e, "SummaryBytes") = 0 /\ Texts(e, "SummaryPreview") = {}
SummaryMissing(e) == <<"SummaryPresent", "false">> \in e.is /\ NoSummary(e)
SummaryEmpty(e) == <<"SummaryPresent", "true">> \in e.is /\ NoSummary(e)

\* Truncated arguments, results and context, and the results without a file.
Artifact(c) == Texts(c, "artifact") # {}
ContextOmitted(c) == Num(c, "ContextOmittedBytes") > 0
ResultTruncated(c) == <<"result", "truncated">> \in c.is
ArgsTruncated(c) == <<"args", "truncated">> \in c.is
TruncationWorthIncluding(c) ==
    ArgsTruncated(c) \/ ResultTruncated(c) \/ Artifact(c) \/ ContextOmitted(c)
TruncationMissingArtifact(c) ==
    ~Artifact(c) /\ (ResultTruncated(c) \/ ContextOmitted(c))

PlanCalls(t) == Calls(t, "plan")
PlanErrors(t) == {i \in PlanCalls(t) :
                    t.tools[i].exit # 0 /\ "loop_guard_no_budget" \notin t.tools[i].kinds}
PlanAction(c) ==
    LET given == {a[2] : a \in {x \in c.args : x[1] = "action"}}
    IN  IF given = {} THEN {"unknown"} ELSE given
PlanTotals(t) ==
    {i \in PlanCalls(t) : t.tools[i].exit = 0 /\ "TotalSteps" \in DOMAIN t.tools[i].n}
PlanUnfinished(t) ==
    /\ PlanTotals(t) # {}
    /\ LET last == t.tools[LastOf(PlanTotals(t))]
       IN  Num(last, "CompletedSteps") < Num(last, "TotalSteps")

RuntimeErrorKinds(r) == AllTexts(r.t, "error", "FailureKind")
                        \cup {f[2] : f \in {x \in r.failures : x[1] = "runtime"}}

-----------------------------------------------------------------------------
\* The loop protocol.

\* The surface the run announced last.
LatestSurface(r) == Latest(r.t, "runtime.surface")
HasGuard(r, guard) == <<"CompletionGuard", guard>> \in LatestSurface(r).is
HasTool(r, tool) == <<"Tool", tool>> \in LatestSurface(r).is

Failed(r, kind) == {f \in r.failures : f[1] = kind} # {}

SetupActivationTransition(r) ==
    /\ Calibrations(r.t) > 0 /\ Of(r.t, "loop.activation") # {}
    /\ Feeds(r.t) = 0 /\ Rejections(r.t) = 0
RunningExpected(r) ==
    \/ r.known /\ r.scenario.RequiredLoopProtocolFinalStatus = "running"
    \/ SetupActivationTransition(r)

LatestRunning(r) ==
    <<"Status", "running">> \in Checkpoint(r.t).is /\ ~RunningExpected(r)
MustClose(r) == <<"RequiresCloseBeforeFinal", "true">> \in Checkpoint(r.t).is
LoopGuardMissing(r) ==
    When(MustClose(r) /\ ~HasGuard(r, "loop_protocol_running"),
         {"completion_guard:missing_loop_protocol"})

StillRunning(r) ==
    When(LatestRunning(r),
         Item("loop_protocol_state", "warn",
              {"loop_protocol", "loop_protocol:still_running"}
              \cup LoopGuardMissing(r)))

\* A final answer while the protocol must still be closed or a plan is open.
DurableCompletion(r) ==
    LET running == LatestRunning(r) /\ MustClose(r)
    IN  When(r.answered /\ (running \/ PlanUnfinished(r.t)),
             Item("durable_completion", "fail",
                  {"durable_completion",
                   "durable_completion:final_before_state_closed"}
                  \cup When(running, {"loop_protocol", "loop_protocol:still_running"}
                                     \cup LoopGuardMissing(r))
                  \cup When(PlanUnfinished(r.t),
                            {"plan", "plan:unfinished"}
                            \cup When(~HasGuard(r, "active_plan_unfinished"),
                                      {"completion_guard:missing_active_plan"}))))

\* One question may be open; the numbers of the last events count, and the
\* events themselves when those are zero.
CalibrationBacklog(r) ==
    LET request == "loop.protocol_calibration_request"
        answer == "loop.protocol_calibration"
        seen(f, type) ==
            LET last == MaxOf({Num(Latest(r.t, request), f),
                               Num(Latest(r.t, answer), f)})
            IN  IF last = 0 THEN Count(Of(r.t, type)) ELSE last
    IN  When(seen("CalibrationQuestions", request)
                 - seen("CalibrationAnswers", answer) > 1,
             Item("loop_protocol_calibration_backlog", "warn",
                  {"loop_protocol", "loop_protocol:calibration_backlog"}))

LoopProtocolItems(r) ==
    When(~r.OK, Item("outcome", "fail", {"outcome:failed"}))
    \cup When(Failed(r, "loop fixture"),
              Item("loop_protocol_fixture", "fail",
                   {"loop_protocol", "loop_protocol:fixture"}))
    \cup CalibrationBacklog(r)
    \cup When(SetupOverrun(r.t),
              Item("loop_protocol_setup_overrun", "fail",
                   {"loop_protocol", "loop_protocol:setup_tool_overrun"}))
    \cup When(Failed(r, "source repo"),
              Item("source_repo_setup", "fail", {"source_repo", "source_repo:setup"}))
    \cup When(Failed(r, "workspace path")
                  \/ ~ShellCommandLacksWorkspaceAbsolutePath(r.t),
              Item("workspace_path", "fail",
                   {"workspace_path", "workspace_path:absolute"}))
    \cup StillRunning(r) \cup DurableCompletion(r)

-----------------------------------------------------------------------------
\* The end of the run, the verifier and what went wrong.

ExpectedTurnEndReason(r) ==
    IF r.known /\ r.scenario.RequiredTurnEndReason # ""
    THEN r.scenario.RequiredTurnEndReason ELSE "completed"
TurnEnd(r) ==
    When(r.t.reason \notin {"", ExpectedTurnEndReason(r)},
         Item("turn_end", "fail", {"turn_end:" \o r.t.reason}))

\* A verifier that ran and passed, its output whole, is not worth an item.
VerifierItem(r) ==
    LET v == r.verifier
        notRun == v.Command /\ ~v.Ran
        failed == v.Ran /\ ~v.OK
        tags == When(notRun, {"verifier:not_run"})
                \cup When(failed, {"verifier:failed"})
                \cup When(v.Ran /\ v.ExitCode < 0, {"verifier:abnormal"})
                \cup When(v.Truncated, {"verifier:output_truncated"})
    IN  When((v.Command \/ v.Ran) /\ tags # {},
             Item("verifier", IF notRun \/ failed THEN "warn" ELSE "info",
                  {"verifier"} \cup tags))

ErrorItems(r) ==
    LET t == r.t
        repairs == Of(t, "conversation.repaired")
    IN  When(FailureKinds(t) # {},
             Item("tool_failure_by_kind", "warn",
                  {"tool_failure"} \cup Prefixed("tool_failure:", FailureKinds(t))))
        \cup When(UnclassifiedToolErrorCount(t) > 0,
                  Item("tool_failure_unclassified", "fail",
                       {"tool_failure", "tool_failure:unclassified"}))
        \cup When(HasRepairs(t),
                  Item("tool_repair",
                       IF RepairFailedCalls(t) > 0 THEN "warn" ELSE "info",
                       {"tool_repair"} \cup Prefixed("tool_repair:", RepairKinds(t))
                       \cup When(RepairFailedCalls(t) > 0, {"tool_repair:failed"})))
        \cup When(RuntimeErrorKinds(r) # {},
                  Item("runtime_error_by_kind", "warn",
                       {"runtime_error"}
                       \cup Prefixed("runtime_error:", RuntimeErrorKinds(r))))
        \cup When(repairs # {},
                  Item("conversation_repair", "warn",
                       {"conversation_repair"}
                       \cup Prefixed("conversation_repair:",
                                AllTexts(t, "conversation.repaired", "FailureKind"))))
        \cup When(Rejections(t) > 0,
                  Item("message_rejected", "info",
                       {"completion_guard", "message_rejected"}
                       \cup Prefixed("message_rejected:",
                                     AllTexts(t, "message.rejected", "Trigger"))))
        \cup When(Stat(t, "loop_guard_interventions") > 0
                      \/ Stat(t, "forced_no_tools") > 0,
                  Item("loop_guard", "warn",
                       {"loop_guard"} \cup When(Stat(t, "forced_no_tools") > 0,
                                                {"loop_guard:forced_no_tools"})))

-----------------------------------------------------------------------------
\* Budgets of a turn and of a request.

ToolCallBudget(r) ==
    LET calls == Num(LatestSurface(r), "MaxToolCalls")
    IN  IF calls > 0 THEN calls ELSE Num(LatestSurface(r), "MaxTurnSteps")

\* Admitted requests where they are known, of the run or of the largest turn.
RunCounts(t) == Stat(t, "tool_requests_admitted") > 0
                \/ Stat(t, "tool_requests_skipped") > 0
TurnCounts(t) == MostAtCheckpoint(t, "ToolRequestsAdmitted") > 0
                 \/ MostAtCheckpoint(t, "ToolRequestsSkipped") > 0
Admitted(t, otherwise) ==
    IF RunCounts(t) THEN Stat(t, "tool_requests_admitted")
    ELSE IF TurnCounts(t) THEN MostAtCheckpoint(t, "ToolRequestsAdmitted")
    ELSE otherwise

ToolBudgetRunaway(r) ==
    ToolCallBudget(r) > 0
    /\ Admitted(r.t, MostAtCheckpoint(r.t, "ToolRequests")) > ToolCallBudget(r)
InputBudgetRunaway(r) ==
    LET budget == Num(LatestSurface(r), "MaxTurnInputTokens")
    IN  budget > 0 /\ MostAtCheckpoint(r.t, "InputTokens") > budget
RequestPressure(r) ==
    LET compact == Num(LatestSurface(r), "RequestInputCompactPercent")
        hard == Num(LatestSurface(r), "RequestInputHardLimitPercent")
    IN  When(compact >= 90 \/ hard >= 90,
             Item("runtime_request_pressure", "warn",
                  {"context_pressure", "context_pressure:request_input"}
                  \cup When(compact >= 100, {"context_pressure:compact_trigger"})
                  \cup When(hard >= 90, {"context_pressure:hard_limit"})))
BudgetItems(r) ==
    When(ToolBudgetRunaway(r),
         Item("tool_budget", "warn", {"tool_budget", "tool_budget:turn_overrun"}))
    \cup When(InputBudgetRunaway(r),
              Item("input_budget", "warn",
                   {"input_budget", "input_budget:turn_overrun"}))
    \cup RequestPressure(r)

-----------------------------------------------------------------------------
\* Research, delegated work, plans and injections.

Delegations(t, kind) == {i \in DOMAIN t.tools : Texts(t.tools[i], kind) # {}}
DelegationErrors(t, kind) ==
    {i \in Delegations(t, kind) : DelegationFailed(t.tools[i])}
SourceFindings(t) ==
    LET of(kind, name) == {i \in DOMAIN t.tools : <<kind, name>> \in t.tools[i].is}
    IN  Total(t.tools, of("focused_task", "research")
                       \cup of("focused_task", "web_extract"), "SourceFindings")
        + Total(t.tools, of("subagent", "research"), "SourceEvidence")

ResearchHasEvidence(t) ==
    \/ Stat(t, "source_access_verified") > 0 \/ Stat(t, "source_access_network") > 0
    \/ SourceFindings(t) > 0
ResearchItem(r) ==
    When(Decisions(r.t, "research_checkpoint") > 0,
         Item("research_checkpoint",
              IF ResearchHasEvidence(r.t) THEN "info" ELSE "warn",
              {"research_checkpoint", "loop_decision:research_checkpoint"}
              \cup When(~ResearchHasEvidence(r.t),
                        {"research_checkpoint:no_external_evidence"})))

DelegationItem(r) ==
    LET kinds == {k \in {"focused_task", "subagent"} : Delegations(r.t, k) # {}}
        wrong == {k \in kinds : DelegationErrors(r.t, k) # {}}
    IN  When(kinds # {},
             Item("delegation", IF wrong = {} THEN "info" ELSE "warn",
                  {"delegation"} \cup Prefixed("delegation:", kinds)
                  \cup When(wrong # {}, {"delegation_error"})
                  \cup Prefixed("delegation_error:", wrong)))

PlanItem(r) ==
    LET t == r.t
        actions == UNION {PlanAction(t.tools[i]) : i \in PlanCalls(t)}
    IN  When(PlanCalls(t) # {},
             Item("plan", IF NoPlanErrors(t) /\ ~PlanUnfinished(t)
                          THEN "info" ELSE "warn",
                  {"plan"} \cup Prefixed("plan:", actions)
                  \cup When(~NoPlanErrors(t), {"plan_error"})
                  \cup When(PlanUnfinished(t), {"plan:unfinished"})))

InjectionItem(r) ==
    When(Of(r.t, "context.injected") # {},
         Item("context_injection", "info",
              {"context_injection"}
              \cup Prefixed("context_injection:",
                            AllTexts(r.t, "context.injected", "Source"))))

-----------------------------------------------------------------------------
\* Sources. A network read may be partial: a later read of the same response
\* settles it when it reaches the end, or reads one path of the body.

SourceReads(t) == {i \in DOMAIN t.tools : Texts(t.tools[i], "source") # {}}
NetworkRead(c) ==
    \/ <<"Status", "network">> \in c.is
    \/ <<"URLField", "browser_network_url">> \in c.is
    \/ <<"SourceMethod", "network_xhr_fetch">> \in c.is
NetworkReads(t) == {i \in SourceReads(t) : NetworkRead(t.tools[i])}

\* The first of ref, address and requested address both reads have decides.
SameResponse(a, b) ==
    LET both(f) == Texts(a, f) # {} /\ Texts(b, f) # {}
        same(f) == Texts(a, f) = Texts(b, f)
    IN  IF both("Ref") THEN same("Ref")
        ELSE IF both("URL") THEN same("URL")
        ELSE both("RequestedURL") /\ same("RequestedURL")
HasMore(c) == <<"HasMore", "yes">> \in c.is
Resolves(later, partial) ==
    /\ SameResponse(partial, later) /\ ~HasMore(later)
    /\ \/ Texts(later, "JSONPath") # {}
       \/ Num(partial, "NextOffset") = 0
       \/ Num(later, "BodyOffset") >= Num(partial, "NextOffset")
PartialReads(t) ==
    {i \in NetworkReads(t) :
        /\ HasMore(t.tools[i])
        /\ \A j \in NetworkReads(t) :
            j > i => ~Resolves(t.tools[j], t.tools[i])}
MissingDiagnostics(t) ==
    {i \in NetworkReads(t) : \/ Texts(t.tools[i], "HTTPStatus") = {}
                             \/ Texts(t.tools[i], "ContentType") = {}}

SourceItem(r) ==
    LET t == r.t
        results == Stat(t, "source_access_results")
        verified == Stat(t, "source_access_verified")
        discovery == Stat(t, "source_access_discovery_only")
        dynamic == Stat(t, "source_access_dynamic_partial") > 0
        network == Stat(t, "source_access_network") > 0
        wrong ==
            When(verified < results, {"source_unverified"})
            \cup When(verified = 0, {"source_unverified_all"})
            \cup When(discovery > 0, {"source_discovery_only"})
            \cup When(discovery = results, {"source_discovery_only_all"})
            \cup When(dynamic, {"source_dynamic_partial"})
            \cup When(dynamic /\ ~network, {"source_dynamic_without_network"})
            \cup When(dynamic /\ network
                          /\ ~DecidedOn(t, "evidence_quality", "defer",
                                        "source_access_dynamic_partial"),
                      {"source_dynamic_without_decision"})
            \cup When(MissingDiagnostics(t) # {},
                      {"source_network:missing_response_diagnostics"})
            \cup When(PartialReads(t) # {}, {"source_network:partial_read"})
    IN  When(results > 0,
             Item("source_access", IF wrong = {} THEN "info" ELSE "warn",
                  {"source_access"} \cup wrong \cup When(network, {"source_network"})))

\* The browser: scrolls that showed nothing new, searches whose refs nobody
\* read. Any read of a wanted ref will do; without refs any network read will.
Scrolls(t, status) ==
    {i \in Calls(t, "browser_scroll") : <<"scroll", status>> \in t.tools[i].is}
ScrollItem(r) ==
    LET t == r.t
        all == {i \in Calls(t, "browser_scroll") : Texts(t.tools[i], "scroll") # {}}
        wrong == {s \in {"boundary", "stuck"} : Scrolls(t, s) # {}}
    IN  When(all # {},
             Item("browser_scroll", IF wrong = {} THEN "info" ELSE "warn",
                  {"browser_scroll"} \cup Prefixed("browser_scroll:", wrong)
                  \cup When(wrong # {} /\ Stat(t, "source_access_network") = 0,
                            {"browser_scroll:stuck_without_network"})))

Searches(t, status) ==
    {i \in Calls(t, "browser_network") : <<"search", status>> \in t.tools[i].is}
RefsHaveSourceEvidence(t) ==
    LET wanted == UNION {Texts(t.tools[i], "Found") : i \in Searches(t, "matches")}
        read == UNION {Texts(t.tools[i], "Ref") : i \in NetworkReads(t)}
    IN  IF wanted # {} /\ read # {} THEN wanted \cap read # {}
        ELSE NetworkReads(t) # {} \/ Stat(t, "source_access_network") > 0
NetworkItem(r) ==
    LET t == r.t
        none == Searches(t, "no_matches") # {}
        refs == Searches(t, "matches") # {}
        unread == refs /\ ~RefsHaveSourceEvidence(t)
    IN  When({i \in Calls(t, "browser_network") : Texts(t.tools[i], "search") # {}} # {},
             Item("browser_network", IF none \/ unread THEN "warn" ELSE "info",
                  {"browser_network"}
                  \cup When(none, {"browser_network:no_matches"})
                  \cup When(unread, {"browser_network:unread_refs"})
                  \cup When(refs /\ ~unread, {"browser_network:refs"})))

-----------------------------------------------------------------------------
\* Recall and memory. A long run is one of a loop with much work.

LongRunRequests == 10
LongRunTokens == 100000
LongRun(r) ==
    LET t == r.t
        made == Stat(t, "tool_requests")
    IN  /\ Count(Checkpoints(t)) + Feeds(t) > 0
        /\ \/ Admitted(t, IF made > 0 THEN made ELSE Len(t.tools)) >= LongRunRequests
           \/ t.usage >= LongRunTokens

\* The first defect of the recall is the one that is named.
RecallItem(r) ==
    LET t == r.t
        calls == Stat(t, "session_search_calls")
        results == Stat(t, "session_search_results")
        hits == Stat(t, "session_search_context_hits")
        terms == Stat(t, "session_search_matched_terms")
        recent == Stat(t, "session_search_recent_sessions")
    IN  IF calls > 0 \/ results > 0 \/ recent > 0
        THEN CASE calls > 0 /\ results = 0 ->
                    IF recent > 0
                    THEN Item("empty_recall", "info",
                              {"empty_recall", "empty_recall:recent_sessions"})
                    ELSE Item("empty_recall", "warn",
                              {"empty_recall", "empty_recall:no_recent_sessions"})
               [] results > 0 /\ hits = 0 ->
                    Item("recall", "warn", {"recall", "recall:no_context"})
               [] results > 0 /\ hits > 0 /\ terms = 0 ->
                    Item("recall", "warn", {"recall", "recall:no_matched_terms"})
               [] results > hits /\ hits > 0 /\ terms > 0 ->
                    Item("recall", "warn",
                         {"recall", "recall:context", "recall:weak_context"})
               [] results \in 1..hits /\ terms \in 1..calls - 1 ->
                    Item("recall", "warn",
                         {"recall", "recall:context", "recall:weak_matched_terms"})
               [] OTHER -> Item("recall", "info", {"recall", "recall:context"})
        ELSE When(/\ LongRun(r)
                  /\ <<"Capability", "SessionSearch">> \in LatestSurface(r).is
                     \/ HasTool(r, "session_search"),
                  Item("session_recall_unused", "warn",
                       {"recall", "recall:session_search_available_unused"}))

MissingExpectedMemoryUpdate(r) ==
    /\ Stat(r.t, "memory_updates") = 0 /\ r.known
    /\ RequiredMemoryUpdateMetadataMin(r.scenario.RequiredToolStatsAtLeast) > 0
MemoryItem(r) ==
    LET t == r.t
        kinds == {k \in {"add", "replace", "remove"} :
                    Stat(t, "memory_update_" \o k) > 0}
        available == <<"Capability", "Memory">> \in LatestSurface(r).is
                     \/ HasTool(r, "memory")
    IN  IF Stat(t, "memory_updates") > 0 \/ kinds # {}
        THEN Item("memory_update", "info",
                  {"memory_update"} \cup Prefixed("memory_update:", kinds))
        ELSE IF MissingExpectedMemoryUpdate(r)
        THEN Item("memory_update_missing", "fail",
                  {"memory_update", "memory_update:missing"})
        ELSE When(LongRun(r),
                  Item("memory_update_absent", "warn",
                       {"memory_update", "memory_update:absent_longrun"}
                       \cup When(available /\ Stat(t, "memory_search_calls") = 0,
                                 {"memory_update:available_unused"})))

MemoryMissItem(r) ==
    LET t == r.t
        misses == {i \in Calls(t, "memory") : <<"memory", "miss">> \in t.tools[i].is}
        anchored == {i \in misses : Num(t.tools[i], "TopicCount") > 0}
    IN  When(Stat(t, "memory_search_misses") > 0 \/ misses # {},
             Item("memory_search_miss", IF misses = anchored THEN "info" ELSE "warn",
                  {"memory_search_miss"}
                  \cup When(anchored # {}, {"recall:memory_topic_anchors"})
                  \cup When(misses # anchored, {"recall:memory_no_topic_anchors"})))

-----------------------------------------------------------------------------
\* Compactions, candidates that were discarded, truncated output.

CompactionItem(r) ==
    LET t == r.t
        all == {t.events[i] : i \in Compactions(t)}
        missing == \E e \in all : SummaryMissing(e)
    IN  When(all # {},
             Item("context_compaction", "warn",
                  {"context_compaction"}
                  \cup When(\E e \in all : <<"Reactive", "true">> \in e.is,
                            {"context_compaction:reactive"})
                  \cup When(Total(t.events, Compactions(t), "ReducedBytes") > 0,
                            {"context_compaction:bytes_reduced"})
                  \cup When(\E e \in all : ~Observed(e),
                            {"context_compaction:policy_missing"})
                  \cup When(\E e \in all : PostPolicyOverTrigger(e),
                            {"context_compaction:post_pressure"})
                  \cup When(\E e \in all : ScopedPressure(e) > 0,
                            {"context_compaction:scoped_pressure"})
                  \cup Prefixed("context_compaction:",
                                UNION {Kind(e, "Reason") : e \in all})
                  \cup When(missing, {"context_compaction:summary_missing"})
                  \cup When(~missing /\ \E e \in all : SummaryEmpty(e),
                            {"context_compaction:summary_empty"})))

SkipItem(r) ==
    LET skips == {r.t.events[i] : i \in Of(r.t, "context.compaction_skipped")}
    IN  When(skips # {},
             Item("context_compaction_skipped", "info",
                  {"context_compaction:skipped"}
                  \cup Prefixed("context_compaction_skip:",
                                UNION {Kind(e, "Cause") : e \in skips})
                  \cup Prefixed("context_compaction:",
                                UNION {Kind(e, "Reason") : e \in skips})))

TruncationItem(r) ==
    LET t == r.t
        omitted == {i \in DOMAIN t.tools : ContextOmitted(t.tools[i])}
        context == Stat(t, "tool_context_truncated") > 0 \/ omitted # {}
    IN  When(\/ context
             \/ \E i \in DOMAIN t.tools : TruncationWorthIncluding(t.tools[i]),
             Item("truncation", "warn",
                  {"truncation"} \cup When(context, {"truncation:tool_context"})
                  \cup When(\E i \in DOMAIN t.tools :
                                TruncationMissingArtifact(t.tools[i]),
                            {"truncation:missing_artifact"})))

-----------------------------------------------------------------------------
BuildDebugBrief(r) ==
    LoopProtocolItems(r) \cup TurnEnd(r) \cup VerifierItem(r) \cup ErrorItems(r)
    \cup BudgetItems(r) \cup ResearchItem(r) \cup DelegationItem(r) \cup PlanItem(r)
    \cup InjectionItem(r) \cup SourceItem(r) \cup ScrollItem(r) \cup NetworkItem(r)
    \cup RecallItem(r) \cup MemoryItem(r) \cup MemoryMissItem(r)
    \cup CompactionItem(r) \cup SkipItem(r) \cup TruncationItem(r)

BriefTags(r) == UNION {i.tags : i \in BuildDebugBrief(r)}

-----------------------------------------------------------------------------
\* The capabilities a scenario is expected to exercise.

StatsAbout(word) ==
    CASE word = "memory" ->
            {"memory_updates", "memory_update_add", "memory_update_replace",
             "memory_update_remove", "memory_search_calls", "memory_search_misses"}
      [] word = "session_search" ->
            {"session_search_calls", "session_search_results",
             "session_search_context_hits", "session_search_matched_terms",
             "session_search_recent_sessions"}
      [] word = "source_access" ->
            {"source_access_results", "source_access_verified",
             "source_access_discovery_only", "source_access_network",
             "source_access_dynamic_partial"}
StatCapabilities(stats) ==
    {w \in {"memory", "session_search", "source_access"} :
        StatsAbout(w) \cap stats # {}}

ToolCapabilities(tools) ==
    (tools \cap {"memory", "session_search", "session_schedule", "plan", "skill",
                 "mcp"})
    \cup When(tools \cap {"subagent_run", "run_task"} # {}, {"delegation"})
    \cup When(tools \cap {"web_fetch", "web_search"} # {}, {"web", "source_access"})
    \cup When(tools \cap BrowserTools # {}, {"browser", "source_access"})
    \cup When(tools \cap {"shell", "read_file", "file_context", "write_file",
                          "edit_file", "list_files", "symbol_context",
                          "repo_search"} # {}, {"workspace"})

ToolOf(S) == {r.tool : r \in S}
AsksCommands(s) ==
    \/ s.RequiredCommands # {} \/ DOMAIN s.RequiredCommandCounts # {}
    \/ s.RequiredCommandOrder # {} \/ s.RequiredCommandBeforeTool # {}
    \/ s.RequiredCommandAfterTool # {}

ExpectationRequiredToolNames(s) ==
    s.RequiredTools \cup DOMAIN s.RequiredToolCounts
    \cup ToolOf(s.RequiredToolResultText)
    \cup UNION {Texts(r, "Tool") : r \in s.RequiredSourceAccess}
    \cup When(s.RequiredSessionSearch \cup s.RequiredRecentSessionSearch # {},
              {"session_search"})
    \cup ToolOf(s.RequiredToolArgContains) \cup ToolOf(s.ForbiddenToolArgContains)
    \cup ToolOf(s.MaxToolArgContains)
    \cup UNION {{o.earlier, o.later} : o \in s.RequiredToolOrder}
    \cup ToolOf(s.RequiredCommandBeforeTool) \cup ToolOf(s.RequiredCommandAfterTool)
    \cup When(AsksCommands(s), {"shell"})
    \cup When(DOMAIN s.RequiredFocusedTaskCounts
              \cup DOMAIN s.RequiredFocusedTaskSourceCounts # {}, {"run_task"})
    \cup When(DOMAIN s.RequiredSubagentModeCounts
              \cup DOMAIN s.RequiredSubagentSourceCounts # {}, {"subagent_run"})
    \cup s.RequiredTruncatedResults \cup s.RequiredResultArtifacts

RequiresSkillInstall(s) ==
    \E r \in s.RequiredToolArgContains :
        /\ r.tool = "skill" /\ r.arg = "action"
        /\ r.text \in {"install", "propose_url", "propose_install",
                       "confirm_install"}
RequiresSourceRepo(s) == s.SourceRepoURL \/ "git clone" \in s.RequiredCommands
RequiresLoopDecisionKind(s, kind) ==
    \/ kind \in DOMAIN s.RequiredLoopDecisionKinds
       /\ s.RequiredLoopDecisionKinds[kind] > 0
    \/ \E r \in s.RequiredLoopDecisionMatches : <<"Kind", kind>> \in r.is
RequiresDelegatedSourceEvidence(s) ==
    DOMAIN s.RequiredFocusedTaskSourceCounts
        \cup DOMAIN s.RequiredSubagentSourceCounts # {}
RequiresTaskState(s) ==
    \/ s.RequiredTaskStateRequestMode # "" \/ s.RequiredTaskStateRequestSource # ""
    \/ s.RequiredTaskStateScheduleID # "" \/ s.RequiredTaskStateScheduleKind # ""
    \/ s.RequiredTaskStateAttemptedActions # {}
    \/ s.RequiredTaskStateChangedFiles # {} \/ s.RequiredTaskStateEvidence # {}
RequiresCompaction(s) ==
    \/ s.RequiredContextCompactions > 0 \/ s.RequiredReactiveCompactions > 0
    \/ DOMAIN s.RequiredContextCompactionReasons # {}
    \/ s.RequiredCompactionRemovedMsgs > 0 \/ s.RequiredCompactionReducedBytes > 0
    \/ s.RequiredCompactScopeActive > 0
    \/ s.RequiredRuntimeCompactPrefillSource # ""
    \/ s.MaxCompactScopedPressurePercent # {}
    \/ s.RequiredContextSummaryText # {}
    \/ s.RequiredContextLoopProtocolAnchorText # {}
RequiresLoopProtocol(s) ==
    \/ s.RequiredLoopProtocolFeeds > 0
    \/ s.RequiredLoopProtocolCalibrationRequests > 0
    \/ s.RequiredLoopProtocolCalibrations > 0
    \/ s.RequiredLoopProtocolCalibrationRequestText # {}
    \/ DOMAIN s.RequiredLoopProtocolCalibrationRequestStatuses # {}
    \/ DOMAIN s.RequiredLoopProtocolCalibrationStatuses # {}
    \/ DOMAIN s.RequiredLoopProtocolFeedModes # {}
    \/ s.RequiredLoopProtocolFeedMatches # {}
    \/ s.RequireLoopProtocolFullAfterCompact
    \/ s.RequiredLoopProtocolFinalStatus # ""

\* What the name of a completion guard, or of what it answered, is about.
GuardCapabilities(names) ==
    When(names # {}, {"trace"})
    \cup When("loop_protocol_running" \in names, {"loop_protocol"})
    \cup When("active_plan_unfinished" \in names, {"plan"})

SessionCapabilities(s) ==
    When(s.SessionID # "", {"session"})
    \cup When(s.PromptOptions, {"session", "trace"})
    \cup When(DOMAIN s.RequiredUserMessageModes # {}, {"session", "trace"})
    \cup When(DOMAIN s.RequiredUserMessageModes \cap {"plan_only", "execute_plan"} # {},
              {"plan"})
    \cup When("loop_setup" \in DOMAIN s.RequiredUserMessageModes, {"loop_protocol"})
    \cup When(RequiresTaskState(s), {"session", "trace"})
    \cup When(DOMAIN s.RequiredConversationRepairStatsAtLeast
              \cup DOMAIN s.RequiredConversationRepairKinds # {},
              {"session", "trace"})
    \cup When(DOMAIN s.RequiredTraceEventCounts
              \cup s.ForbiddenUserMessageModes # {}, {"trace"})

ContextCapabilities(s) ==
    When(DOMAIN s.RequiredContextInjectionSources # {}
         \/ s.RequiredContextInjectionText # {}, {"context_injection"})
    \cup When(RequiresCompaction(s), {"context_compaction"})
    \cup When(RequiresLoopProtocol(s), {"loop_protocol"})
    \cup When(\E r \in s.RequiredLoopProtocolFeedMatches : <<"Plan", "yes">> \in r.is,
              {"plan"})
    \cup When(/\ s.RequiredLoopProtocolFeeds > 0
              /\ s.RequiredRecentSessionSearch # {}
              /\ [earlier |-> "session_search", later |-> "memory"]
                    \in s.RequiredToolOrder,
              {"longrun_recovery"})

ExpectationCapabilityNames(s) ==
    SessionCapabilities(s) \cup ContextCapabilities(s)
    \cup When(s.ExecutePlan \/ s.RequireNoPlanErrors \/ s.RequireFinalPlanCompleted,
              {"plan"})
    \cup When(s.EnableMemory, {"memory"})
    \cup When(s.ExposeLoopProtocolTool, {"loop_protocol"})
    \cup When(s.RuntimeMaxTurnInputTokens > 0, {"input_budget", "trace"})
    \cup When(s.MaxTotalTokens > 0, {"trace"})
    \cup When(s.ExpectedSkill, {"skill"})
    \cup When(RequiresSkillInstall(s), {"skill", "skill_install"})
    \cup When(RequiresSourceRepo(s), {"source_repo", "workspace"})
    \cup When(s.VerifyCommand, {"verifier"})
    \cup When(s.RequiredSourceAccess # {}, {"source_access"})
    \cup When(s.RequiredSessionSearch \cup s.RequiredRecentSessionSearch # {},
              {"session_search"})
    \cup GuardCapabilities(DOMAIN s.RequiredMessageRejected)
    \cup GuardCapabilities(s.RequiredCompletionGuards)
    \cup When(RequiresLoopDecisionKind(s, "research_checkpoint"),
              {"research_checkpoint"})
    \cup When(RequiresLoopDecisionKind(s, "input_budget"), {"input_budget", "trace"})
    \cup When(RequiresDelegatedSourceEvidence(s), {"delegated_source_evidence"})
    \cup When(DOMAIN s.RequiredFocusedTaskCounts
              \cup DOMAIN s.RequiredSubagentModeCounts # {}
              \/ RequiresDelegatedSourceEvidence(s) \/ s.RequireNoDelegationErrors,
              {"delegation"})
    \cup ToolCapabilities(ExpectationRequiredToolNames(s))
    \cup StatCapabilities(DOMAIN s.RequiredToolStatsAtLeast)
    \cup When(AsksCommands(s) \/ s.ForbidWorkspaceAbsolutePaths
              \/ s.RequiredFileSubstrings \/ s.ProtectedFiles # {}, {"workspace"})

-----------------------------------------------------------------------------
\* The summary: what one result adds to the totals.

Bit(cond) == IF cond THEN 1 ELSE 0
Higher(a, b) == IF a > b THEN a ELSE b

ToolCounters(r) ==
    LET t == r.t
        given == RepairCountsGiven(t)
        calls == Count(RepairedCalls(t))
    IN  [Total |-> 1, Passed |-> Bit(r.OK), Failed |-> Bit(~r.OK),
         ToolCalls |-> Len(t.tools), ToolErrors |-> Stat(t, "tool_errors"),
         ToolRepairCalls |-> IF given THEN Stat(t, "tool_repair_calls") ELSE calls,
         ToolRepairSucceeded |->
            IF given THEN Stat(t, "tool_repair_succeeded")
            ELSE calls - RepairFailedCalls(t),
         LoopGuardInterventions |-> Stat(t, "loop_guard_interventions"),
         ForcedNoTools |-> Stat(t, "forced_no_tools")]

\* A failure of the run is an error of the runtime unless the trace has one
\* of its kind.
RuntimeErrorCount(r) ==
    LET seen == AllTexts(r.t, "error", "FailureKind")
    IN  Count({i \in Of(r.t, "error") : Texts(r.t.events[i], "FailureKind") # {}})
        + Count({f \in r.failures : f[1] = "runtime" /\ f[2] \notin seen})

LoopCounters(r) ==
    LET t == r.t
    IN  [RuntimeErrors |-> RuntimeErrorCount(r),
         RuntimeSurfaceScenarios |-> Bit(Of(t, "runtime.surface") # {}),
         LoopTurnCheckpointScenarios |-> Bit(Checkpoints(t) # {}),
         LoopProtocolFeedScenarios |-> Bit(Feeds(t) > 0),
         LoopProtocolCalibrationRequestScenarios |->
            Bit(Of(t, "loop.protocol_calibration_request") # {}),
         LoopProtocolCalibrationScenarios |-> Bit(Calibrations(t) > 0)]

ContextCounters(r) ==
    LET t == r.t
        all == Compactions(t)
        injected == Of(t, "context.injected")
    IN  [ContextCompactions |-> Count(all),
         ContextCompactionsReactive |->
            Count({i \in all : <<"Reactive", "true">> \in t.events[i].is}),
         ContextCompactionRemoved |-> Total(t.events, all, "RemovedMessages"),
         ContextCompactionSummary |-> Total(t.events, all, "SummaryBytes"),
         ContextCompactionSummaryMissing |->
            Count({i \in all : SummaryMissing(t.events[i])}),
         ContextCompactionSummaryEmpty |->
            Count({i \in all : SummaryEmpty(t.events[i])}),
         ContextCompactionPolicyObserved |->
            Count({i \in all : Observed(t.events[i])}),
         ContextCompactionPostPolicyObserved |->
            Count({i \in all : PostPolicyObserved(t.events[i])}),
         ContextCompactionPostPolicyStillOver |->
            Count({i \in all : PostPolicyOverTrigger(t.events[i])}),
         ContextCompactionCompactScopeActive |->
            Count({i \in all : ScopeActive(t.events[i])}),
         ContextInjections |-> Count(injected),
         ContextInjectionBytes |-> Total(t.events, injected, "Bytes"),
         ContextInjectionEstimatedTokens |->
            Total(t.events, injected, "EstimatedTokens")]

StatCounters(r) ==
    LET t == r.t
        omitted == Count({i \in DOMAIN t.tools : ContextOmitted(t.tools[i])})
    IN  [SourceAccessResults |-> Stat(t, "source_access_results"),
         SourceAccessVerified |-> Stat(t, "source_access_verified"),
         SourceAccessDiscoveryOnly |-> Stat(t, "source_access_discovery_only"),
         SourceAccessNetwork |-> Stat(t, "source_access_network"),
         SourceAccessDynamicPartial |-> Stat(t, "source_access_dynamic_partial"),
         MemoryUpdates |-> Stat(t, "memory_updates"),
         MemorySearchCalls |-> Stat(t, "memory_search_calls"),
         MemorySearchMisses |-> Stat(t, "memory_search_misses"),
         SessionSearchCalls |-> Stat(t, "session_search_calls"),
         SessionSearchResults |-> Stat(t, "session_search_results"),
         SessionSearchContextHits |-> Stat(t, "session_search_context_hits"),
         SessionSearchMatchedTerms |-> Stat(t, "session_search_matched_terms"),
         ToolContextTruncated |-> Higher(Stat(t, "tool_context_truncated"), omitted),
         ToolResultsTruncated |->
            Count({i \in DOMAIN t.tools : ResultTruncated(t.tools[i])})]

EndCounters(r) ==
    [VerifierRuns |-> Bit(r.verifier.Ran),
     VerifierPassed |-> Bit(r.verifier.Ran /\ r.verifier.OK),
     TraceEventScenarios |-> Bit(r.t # NoTrace), Tokens |-> r.t.usage,
     Milliseconds |-> r.ms,
     EndCompleted |-> Bit(r.t.reason = "completed"),
     RemovedWorkspaces |-> Bit(r.ws = "removed"),
     CleanupErrors |-> Bit(r.ws = "stuck")]

WorkCounters(r) ==
    LET t == r.t
    IN  [FocusedTaskCalls |-> Count(Delegations(t, "focused_task")),
         FocusedTaskErrors |-> Count(DelegationErrors(t, "focused_task")),
         SubagentCalls |-> Count(Delegations(t, "subagent")),
         SubagentErrors |-> Count(DelegationErrors(t, "subagent")),
         PlanCalls |-> Count(PlanCalls(t)),
         PlanErrors |-> Count(PlanErrors(t))]

Counters(r) ==
    ToolCounters(r) @@ LoopCounters(r) @@ ContextCounters(r) @@ StatCounters(r)
    @@ EndCounters(r) @@ WorkCounters(r)

\* The largest of a kind, over the compactions of a trace or the results.
Peaks(r) ==
    LET es == {r.t.events[i] : i \in Compactions(r.t)}
        pressure(e, n) == PolicyPressurePercent(n, Num(e, "TriggerInputTokens"))
    IN  [PolicyPressure |->
            MaxOf({pressure(e, Num(e, "EstimatedInputTokens")) :
                     e \in {x \in es : Observed(x)}}),
         PostPolicyPressure |->
            MaxOf({pressure(e, PostPolicyTokens(e)) :
                     e \in {x \in es : PostPolicyObserved(x)}}),
         ScopedPressure |->
            MaxOf({ScopedPressure(e) : e \in {x \in es : ScopeActive(x)}}),
         ScenarioTokens |-> r.t.usage]

\* What the failures of a result are filed under.
FailureKindOf(f) ==
    CASE f[1] = "runtime" -> f[2]
      [] f[1] = "loop fixture" -> "loop_protocol_fixture"
      [] f[1] = "source repo" -> "source_repo_setup"
      [] f[1] \in {"affentctl_run", "verify_command", "parse_trace", "turn_end"} -> f[1]
      [] OTHER -> "other"

\* One or two results are shown of each kind, with the files that are left.
ExamplesPerKind == 2
Retained(r) == IF r.ws = "removed" THEN {} ELSE r.paths
Example(r) == [scenario |-> r.name, trace |-> r.trace, paths |-> Retained(r)]
WithExamples(old, kinds, r) ==
    [k \in DOMAIN old \cup kinds |->
        LET had == IF k \in DOMAIN old THEN old[k] ELSE <<>>
        IN  IF k \in kinds /\ Len(had) < ExamplesPerKind
            THEN Append(had, Example(r)) ELSE had]

\* The bag of what was counted at all.
Counted(f) == [k \in {x \in DOMAIN f : f[x] > 0} |-> f[k]]

\* A result counts for each domain of its scenario.
DomainFields ==
    {"Total", "Passed", "ToolCalls", "ToolErrors", "LoopGuardInterventions",
     "SourceAccessResults", "SourceAccessVerified", "RuntimeErrors", "Tokens"}
DomainRuntime(r) ==
    LET n == Counters(r)
    IN  Counted([x \in (IF r.known THEN r.scenario.Domains ELSE {}) \X DomainFields |->
                    n[x[2]]])

ReasonBag(t) ==
    LET reasons == AllTexts(t, "runtime.surface", "RefreshReason")
    IN  [k \in reasons |->
            Count(Fitting(t, "runtime.surface", Says({<<"RefreshReason", k>>})))]
EvidenceBag(t) ==
    LET of(k) == {i \in DOMAIN t.state.evidence :
                    <<"Source", k>> \in t.state.evidence[i].is}
        sources == UNION {Texts(t.state.evidence[i], "Source") :
                            i \in DOMAIN t.state.evidence}
    IN  [k \in sources |-> Count(of(k))]

NoSummaryYet ==
    [n |-> EmptyBag, peak |-> EmptyBag, tags |-> EmptyBag, caps |-> EmptyBag,
     capsPassed |-> EmptyBag, domains |-> EmptyBag, domainsPassed |-> EmptyBag,
     perDomain |-> EmptyBag, sources |-> EmptyBag, reasons |-> EmptyBag,
     failures |-> EmptyBag, tagExamples |-> <<>>, failureExamples |-> <<>>]

AddExpectations(s, r) ==
    IF ~r.known THEN s
    ELSE LET caps == SetToBag(ExpectationCapabilityNames(r.scenario))
             domains == SetToBag(r.scenario.Domains)
         IN  [s EXCEPT !.caps = @ (+) caps, !.domains = @ (+) domains,
                       !.perDomain = @ (+) DomainRuntime(r),
                       !.capsPassed = IF r.OK THEN @ (+) caps ELSE @,
                       !.domainsPassed = IF r.OK THEN @ (+) domains ELSE @]

Add(s, r) ==
    LET kinds == {FailureKindOf(f) : f \in r.failures}
        tags == BriefTags(r)
    IN  AddExpectations(
            [s EXCEPT
                !.n = @ (+) Counted(Counters(r)),
                !.peak = Counted([k \in DOMAIN Peaks(r) |->
                                    Higher(Peaks(r)[k], CopiesIn(k, s.peak))]),
                !.tags = @ (+) SetToBag(tags),
                !.reasons = @ (+) ReasonBag(r.t),
                !.sources = @ (+) EvidenceBag(r.t),
                !.failures = @ (+) SetToBag(kinds),
                !.tagExamples = WithExamples(@, tags, r),
                !.failureExamples = WithExamples(@, kinds, r)], r)

SummarizeBatchResults(results) ==
    LET upTo[k \in 0..Len(results)] ==
            IF k = 0 THEN NoSummaryYet ELSE Add(upTo[k - 1], results[k])
    IN  upTo[Len(results)]

-----------------------------------------------------------------------------
\* The rates the gates look at.

Rate(s, a, b) == <<CopiesIn(a, s.n), CopiesIn(b, s.n)>>
Average(s, a) == Rate(s, a, "Total")
Peak(s, name, seen) == <<CopiesIn(name, s.peak), Bit(CopiesIn(seen, s.n) > 0)>>

MinRates(s) ==
    [pass_rate |-> Average(s, "Passed"),
     completion_rate |-> Average(s, "EndCompleted"),
     memory_update_rate |-> Average(s, "MemoryUpdates"),
     loop_turn_checkpoint_rate |-> Average(s, "LoopTurnCheckpointScenarios"),
     loop_protocol_feed_rate |-> Average(s, "LoopProtocolFeedScenarios"),
     loop_protocol_calibration_request_rate |->
        Average(s, "LoopProtocolCalibrationRequestScenarios"),
     loop_protocol_calibration_rate |->
        Average(s, "LoopProtocolCalibrationScenarios"),
     runtime_surface_rate |-> Average(s, "RuntimeSurfaceScenarios"),
     trace_event_rate |-> Average(s, "TraceEventScenarios"),
     source_network_rate |-> Rate(s, "SourceAccessNetwork", "SourceAccessResults"),
     source_access_verified_rate |->
        Rate(s, "SourceAccessVerified", "SourceAccessResults"),
     expectation_capability_pass_rate |->
        <<BagCardinality(s.capsPassed), BagCardinality(s.caps)>>,
     expectation_domain_pass_rate |->
        <<BagCardinality(s.domainsPassed), BagCardinality(s.domains)>>,
     session_search_context_hit_rate |->
        Rate(s, "SessionSearchContextHits", "SessionSearchResults"),
     session_search_matched_terms_per_call |->
        Rate(s, "SessionSearchMatchedTerms", "SessionSearchCalls"),
     tool_repair_success_rate |-> Rate(s, "ToolRepairSucceeded", "ToolRepairCalls"),
     verifier_pass_rate |-> Rate(s, "VerifierPassed", "VerifierRuns"),
     context_compaction_policy_observed_rate |->
        Rate(s, "ContextCompactionPolicyObserved", "ContextCompactions")]

MaxRates(s) ==
    [focused_task_error_rate |-> Rate(s, "FocusedTaskErrors", "FocusedTaskCalls"),
     forced_no_tools_rate |-> Rate(s, "ForcedNoTools", "ToolCalls"),
     loop_guard_intervention_rate |->
        Rate(s, "LoopGuardInterventions", "ToolCalls"),
     plan_error_rate |-> Rate(s, "PlanErrors", "PlanCalls"),
     memory_search_miss_rate |-> Rate(s, "MemorySearchMisses", "MemorySearchCalls"),
     source_discovery_only_rate |->
        Rate(s, "SourceAccessDiscoveryOnly", "SourceAccessResults"),
     source_dynamic_partial_rate |->
        Rate(s, "SourceAccessDynamicPartial", "SourceAccessResults"),
     subagent_error_rate |-> Rate(s, "SubagentErrors", "SubagentCalls"),
     tool_error_rate |-> Rate(s, "ToolErrors", "ToolCalls"),
     tool_context_truncation_rate |-> Rate(s, "ToolContextTruncated", "ToolCalls"),
     tool_result_truncation_rate |-> Rate(s, "ToolResultsTruncated", "ToolCalls"),
     avg_runtime_errors |-> Average(s, "RuntimeErrors"),
     avg_context_compactions |-> Average(s, "ContextCompactions"),
     avg_reactive_context_compactions |-> Average(s, "ContextCompactionsReactive"),
     avg_context_removed_messages |-> Average(s, "ContextCompactionRemoved"),
     avg_context_summary_bytes |-> Average(s, "ContextCompactionSummary"),
     avg_context_summary_missing |-> Average(s, "ContextCompactionSummaryMissing"),
     avg_context_summary_empty |-> Average(s, "ContextCompactionSummaryEmpty"),
     context_compaction_policy_pressure_percent |->
        Peak(s, "PolicyPressure", "ContextCompactionPolicyObserved"),
     context_compaction_post_policy_pressure_percent |->
        Peak(s, "PostPolicyPressure", "ContextCompactionPostPolicyObserved"),
     context_compaction_post_policy_over_rate |->
        Rate(s, "ContextCompactionPostPolicyStillOver",
             "ContextCompactionPostPolicyObserved"),
     context_compaction_scoped_pressure_percent |->
        Peak(s, "ScopedPressure", "ContextCompactionCompactScopeActive"),
     avg_context_injections |-> Average(s, "ContextInjections"),
     avg_context_injection_bytes |-> Average(s, "ContextInjectionBytes"),
     avg_context_injection_estimated_tokens |->
        Average(s, "ContextInjectionEstimatedTokens"),
     avg_tool_calls |-> Average(s, "ToolCalls"),
     avg_duration_ms |-> Average(s, "Milliseconds"),
     avg_total_tokens |-> Average(s, "Tokens"),
     scenario_total_tokens |-> Peak(s, "ScenarioTokens", "Total")]

-----------------------------------------------------------------------------
\* Gates. A minimum nobody measured fails, a maximum nobody measured holds.

Off == -100
Enabled(f) == {k \in DOMAIN f : f[k] >= 0}
Below(rate, threshold) == rate[1] * 100 < threshold * rate[2]
Above(rate, threshold) == rate[1] * 100 > threshold * rate[2]
Unavailable(rate) == rate[2] = 0

CheckMin(rate, threshold) == Unavailable(rate) \/ Below(rate, threshold)
CheckMax(rate, threshold) == ~Unavailable(rate) /\ Above(rate, threshold)

PassRates(total, passed) == [k \in DOMAIN total |-> <<CopiesIn(k, passed), total[k]>>]

\* Each family must reach the threshold, and there must be one.
FamilyFailures(gate, total, passed, threshold) ==
    IF threshold < 0 THEN {}
    ELSE IF DOMAIN total = {} THEN {<<gate, "">>}
    ELSE {<<gate, k>> : k \in {x \in DOMAIN total :
                                 Below(PassRates(total, passed)[x], threshold)}}

DomainRate(s, d, metric) ==
    LET n(f) == CopiesIn(<<d, f>>, s.perDomain)
    IN  CASE metric = "source_access_verified_rate" ->
                <<n("SourceAccessVerified"), n("SourceAccessResults")>>
          [] metric = "avg_total_tokens" -> <<n("Tokens"), n("Total")>>
          [] metric = "avg_tool_calls" -> <<n("ToolCalls"), n("Total")>>
          [] metric = "avg_runtime_errors" -> <<n("RuntimeErrors"), n("Total")>>
          [] metric = "tool_error_rate" -> <<n("ToolErrors"), n("ToolCalls")>>
          [] metric = "loop_guard_intervention_rate" ->
                <<n("LoopGuardInterventions"), n("ToolCalls")>>

\* A domain no result has fails; its one minimum is the verified rate.
DomainMetricFailures(s, g) ==
    {x \in Enabled(g.perDomain) :
        LET rate == DomainRate(s, x[1], x[2])
        IN  \/ CopiesIn(<<x[1], "Total">>, s.perDomain) = 0
            \/ IF x[2] = "source_access_verified_rate"
               THEN CheckMin(rate, g.perDomain[x])
               ELSE CheckMax(rate, g.perDomain[x])}

Absent(gate, wanted, bag) == {<<gate, k>> : k \in {x \in wanted : CopiesIn(x, bag) = 0}}
Each(g, name) == IF name \in DOMAIN g.min THEN g.min[name] ELSE Off
FamilyGates == {"each_expectation_capability_pass_rate",
                "each_expectation_domain_pass_rate"}

QualityGateFailures(s, g) ==
    {<<k, "">> : k \in {x \in Enabled(g.min) \ FamilyGates :
                          CheckMin(MinRates(s)[x], g.min[x])}}
    \cup {<<k, "">> : k \in {x \in Enabled(g.max) :
                               CheckMax(MaxRates(s)[x], g.max[x])}}
    \cup FamilyFailures("expectation_capability_family", s.caps, s.capsPassed,
                        Each(g, "each_expectation_capability_pass_rate"))
    \cup FamilyFailures("expectation_domain_family", s.domains, s.domainsPassed,
                        Each(g, "each_expectation_domain_pass_rate"))
    \cup Absent("expectation_capability", g.caps, s.caps)
    \cup Absent("expectation_domain", g.domains, s.domains)
    \cup Absent("task_state_evidence_source", g.sources, s.sources)
    \cup Absent("runtime_surface_refresh_reason", g.reasons, s.reasons)
    \cup DomainMetricFailures(s, g)
    \cup {<<"debug_brief_tag_rate", k>> : k \in {x \in Enabled(g.tags) :
              CheckMax(<<CopiesIn(x, s.tags), CopiesIn("Total", s.n)>>, g.tags[x])}}

HasQualityGateThresholds(g) ==
    \/ Enabled(g.min) # {} \/ Enabled(g.max) # {} \/ Enabled(g.tags) # {}
    \/ Enabled(g.perDomain) # {}
    \/ g.caps # {} \/ g.domains # {} \/ g.sources # {} \/ g.reasons # {}

\* A threshold is Off or not negative, and a rate is at most 1.
NoRate ==
    {"session_search_matched_terms_per_call", "avg_total_tokens", "avg_tool_calls",
     "avg_runtime_errors", "avg_duration_ms"}
    \cup {"avg_context_compactions", "avg_reactive_context_compactions",
          "avg_context_removed_messages", "avg_context_summary_bytes",
          "avg_context_summary_missing", "avg_context_summary_empty",
          "context_compaction_policy_pressure_percent",
          "context_compaction_post_policy_pressure_percent",
          "context_compaction_scoped_pressure_percent", "avg_context_injections",
          "avg_context_injection_bytes", "avg_context_injection_estimated_tokens",
          "scenario_total_tokens"}
ValidThreshold(name, v) ==
    (v >= 0 \/ v = Off) /\ (v > 100 => name \in NoRate)
ValidateQualityGateConfig(g) ==
    /\ \A k \in DOMAIN g.min : ValidThreshold(k, g.min[k])
    /\ \A k \in DOMAIN g.max : ValidThreshold(k, g.max[k])
    /\ \A k \in DOMAIN g.tags : ValidThreshold("tag", g.tags[k])
    /\ \A x \in DOMAIN g.perDomain : ValidThreshold(x[2], g.perDomain[x])

-----------------------------------------------------------------------------
\* The profiles, and what the flags make of one. A flag wins over the number
\* of the profile, and adds to what the profile requires.

NoGates == [min |-> <<>>, max |-> <<>>, tags |-> <<>>, perDomain |-> <<>>,
            caps |-> {}, domains |-> {}, sources |-> {}, reasons |-> {}]

Longrun ==
    [min |-> [pass_rate |-> 80, completion_rate |-> 90, memory_update_rate |-> 10,
              loop_turn_checkpoint_rate |-> 5, loop_protocol_feed_rate |-> 5,
              loop_protocol_calibration_request_rate |-> 5,
              loop_protocol_calibration_rate |-> 5,
              expectation_capability_pass_rate |-> 80,
              each_expectation_capability_pass_rate |-> 50,
              expectation_domain_pass_rate |-> 80,
              each_expectation_domain_pass_rate |-> 50,
              session_search_context_hit_rate |-> 75,
              session_search_matched_terms_per_call |-> 100,
              runtime_surface_rate |-> 90, trace_event_rate |-> 90],
     max |-> [focused_task_error_rate |-> 10, forced_no_tools_rate |-> 10,
              loop_guard_intervention_rate |-> 20, plan_error_rate |-> 5,
              subagent_error_rate |-> 10, tool_error_rate |-> 8,
              tool_context_truncation_rate |-> 30,
              tool_result_truncation_rate |-> 20, avg_runtime_errors |-> 20,
              avg_reactive_context_compactions |-> 50,
              avg_context_removed_messages |-> 12000,
              avg_context_summary_bytes |-> 2400000,
              avg_context_summary_missing |-> 0, avg_context_summary_empty |-> 0,
              context_compaction_scoped_pressure_percent |-> 0,
              avg_context_injections |-> 800,
              avg_context_injection_bytes |-> 2400000,
              avg_context_injection_estimated_tokens |-> 600000,
              avg_tool_calls |-> 1400, avg_duration_ms |-> 18000000,
              avg_total_tokens |-> 12000000,
              scenario_total_tokens |-> 24000000],
     tags |-> [x \in {"context_compaction:policy_missing",
                      "context_compaction:summary_empty",
                      "context_compaction:summary_missing", "durable_completion",
                      "empty_recall:no_recent_sessions",
                      "loop_protocol:calibration_backlog", "loop_protocol:fixture",
                      "loop_protocol:setup_tool_overrun",
                      "loop_guard:forced_no_tools",
                      "recall:memory_no_topic_anchors", "recall:no_context",
                      "recall:no_matched_terms", "recall:weak_context",
                      "recall:weak_matched_terms", "source_repo:setup",
                      "tool_budget:turn_overrun", "tool_failure:unclassified",
                      "tool_repair:failed", "truncation:missing_artifact",
                      "verifier:abnormal", "verifier:failed", "verifier:not_run",
                      "workspace_path:absolute"} |-> 0],
     perDomain |-> <<>>,
     caps |-> {"context_compaction", "delegation", "input_budget",
               "longrun_recovery", "loop_protocol", "memory", "plan",
               "research_checkpoint", "session", "session_schedule",
               "session_search", "skill", "skill_install", "source_repo", "trace",
               "verifier", "workspace"},
     domains |-> {"bittensor", "code_pr", "context_compaction", "longrun_recovery",
                  "market", "memory", "schedule_automation", "session_recovery"},
     sources |-> {"git_commit", "git_push"},
     reasons |-> {"compact_window_observed", "loop_protocol_changed",
                  "post_compaction", "schedules_changed", "workspace_changed"}]

WebEvidence ==
    [min |-> [pass_rate |-> 80, completion_rate |-> 90,
              expectation_capability_pass_rate |-> 80,
              each_expectation_capability_pass_rate |-> 50,
              expectation_domain_pass_rate |-> 80,
              each_expectation_domain_pass_rate |-> 50,
              runtime_surface_rate |-> 90, trace_event_rate |-> 90,
              source_network_rate |-> 50, source_access_verified_rate |-> 90],
     max |-> [forced_no_tools_rate |-> 10, focused_task_error_rate |-> 10,
              loop_guard_intervention_rate |-> 25,
              source_discovery_only_rate |-> 15,
              source_dynamic_partial_rate |-> 20, subagent_error_rate |-> 10,
              tool_error_rate |-> 10, tool_result_truncation_rate |-> 25,
              avg_runtime_errors |-> 20, avg_context_removed_messages |-> 8000,
              avg_context_summary_bytes |-> 2000000,
              avg_context_summary_missing |-> 0, avg_context_summary_empty |-> 0,
              avg_context_injections |-> 600,
              avg_context_injection_bytes |-> 1800000,
              avg_context_injection_estimated_tokens |-> 450000,
              avg_tool_calls |-> 1800, avg_duration_ms |-> 24000000,
              avg_total_tokens |-> 12000000,
              scenario_total_tokens |-> 24000000],
     tags |-> [x \in {"browser_network:unread_refs",
                      "browser_scroll:stuck_without_network",
                      "context_compaction:policy_missing",
                      "context_compaction:summary_empty",
                      "context_compaction:summary_missing",
                      "source_discovery_only_all",
                      "source_dynamic_without_decision",
                      "source_dynamic_without_network",
                      "source_network:missing_response_diagnostics",
                      "source_network:partial_read", "source_unverified_all",
                      "research_checkpoint:no_external_evidence",
                      "truncation:missing_artifact"} |-> 0],
     perDomain |-> <<"web_evidence", "source_access_verified_rate">> :> 90
                   @@ <<"web_evidence", "avg_total_tokens">> :> 12000000
                   @@ <<"web_evidence", "avg_tool_calls">> :> 1800
                   @@ <<"web_evidence", "avg_runtime_errors">> :> 20
                   @@ <<"web_evidence", "tool_error_rate">> :> 10
                   @@ <<"web_evidence", "loop_guard_intervention_rate">> :> 25,
     caps |-> {"browser", "delegated_source_evidence", "source_access", "web"},
     domains |-> {"web_evidence"}, sources |-> {}, reasons |-> {}]

ProfileConfig(profile) ==
    CASE profile = "longrun" -> Longrun
      [] profile = "web-evidence" -> WebEvidence
      [] OTHER -> NoGates
KnownProfile(profile) == profile \in {"", "longrun", "web-evidence"}

ApplyQualityGateProfile(flags, profile) ==
    LET p == ProfileConfig(profile)
    IN  [min |-> flags.min @@ p.min, max |-> flags.max @@ p.max,
         tags |-> flags.tags @@ p.tags, perDomain |-> flags.perDomain @@ p.perDomain,
         caps |-> p.caps \cup flags.caps, domains |-> p.domains \cup flags.domains,
         sources |-> p.sources \cup flags.sources,
         reasons |-> p.reasons \cup flags.reasons]

\* A trace says little about coverage: of those gates only the ones a flag
\* asked for are kept, and then with what the profile adds to them.
QualityGateConfigForTraceFile(g, flags) ==
    LET coverage == {"expectation_capability_pass_rate",
                     "expectation_domain_pass_rate"} \cup FamilyGates
        kept(S, T) == IF T = {} THEN {} ELSE S
        metrics == {x[2] : x \in DOMAIN flags.perDomain}
    IN  [g EXCEPT
            !.caps = kept(@, flags.caps), !.domains = kept(@, flags.domains),
            !.sources = kept(@, flags.sources), !.reasons = kept(@, flags.reasons),
            !.min = [k \in DOMAIN @ \ (coverage \ DOMAIN flags.min) |-> @[k]],
            !.perDomain = [x \in {y \in DOMAIN @ : y[2] \in metrics} |-> @[x]]]

\* Before a batch starts: some scenario must stand for what is required.
PreflightFailures(scenarios, g) ==
    LET caps == UNION {ExpectationCapabilityNames(s) : s \in scenarios}
        domains == UNION {s.Domains : s \in scenarios}
    IN  {<<"expectation_capability", k>> : k \in g.caps \ caps}
        \cup {<<"expectation_domain", k>> : k \in g.domains \ domains}

\* A call of affenteval without arguments: what the flags default to.
CommandLine ==
    [mode |-> "run", suite |-> "", names |-> {}, prompt |-> "", session |-> FALSE,
     traceFile |-> FALSE, roots |-> <<>>, readable |-> TRUE, existing |-> NoTrace,
     profile |-> "", flags |-> NoGates, keep |-> FALSE, executor |-> "local",
     workRoot |-> "", numbers |-> TRUE, surface |-> TRUE, verify |-> FALSE]
=============================================================================
