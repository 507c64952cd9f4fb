---------------------------- MODULE TraceChecks ----------------------------
(***************************************************************************)
(* The checks an eval applies to a parsed trace. A text is known by what   *)
(* it holds: `is' of an event, `args' and `result' of a call and `final'   *)
(* are sets of facts, <<field, text>> for "the field is (or contains,      *)
(* where the code searches) this text". A number is a value of `n'.        *)
(*                                                                         *)
(* A trace: events [type, is, n] in the order of the file; tools, the      *)
(* calls [tool, turn, args, result, done, exit, kinds, is, n]; reason and  *)
(* final of the last turn and message; usage; stats, failures and repairs  *)
(* (counters of the turn.end events); state (the derived task state).      *)
(***************************************************************************)
EXTENDS Integers, Sequences, FiniteSets, TLC

Num(e, f) == IF f \in DOMAIN e.n THEN e.n[f] ELSE 0
Count(S) == Cardinality(S)
Least(n) == IF n <= 0 THEN 1 ELSE n
Texts(e, f) == {x[2] : x \in {y \in e.is : y[1] = f}}
Of(t, type) == {i \in DOMAIN t.events : t.events[i].type = type}

\* The sum of a number over some members of a sequence.
Total(q, S, f) ==
    LET sum[k \in 0..Len(q)] ==
            IF k = 0 THEN 0
            ELSE sum[k - 1] + (IF k \in S THEN Num(q[k], f) ELSE 0)
    IN  sum[Len(q)]

\* A requirement: texts that must match and least values. What it leaves
\* blank matches everything.
Fits(e, req) ==
    /\ req.is \subseteq e.is
    /\ \A f \in DOMAIN req.n : Num(e, f) >= req.n[f]

Fitting(t, type, req) == {i \in Of(t, type) : Fits(t.events[i], req)}
Says(facts) == [is |-> facts, n |-> <<>>]

\* What an event says in a field, or "unknown".
Kind(e, f) == IF Texts(e, f) = {} THEN {"unknown"} ELSE Texts(e, f)

Calls(t, tool) == {i \in DOMAIN t.tools : t.tools[i].tool = tool}
CallsWith(t, tool, facts) ==
    {i \in Calls(t, tool) : facts \subseteq t.tools[i].args}

\* S is met before T is: the first of each, when both are there.
FirstOf(S) == CHOOSE i \in S : \A j \in S : i <= j
LastOf(S) == CHOOSE i \in S : \A j \in S : i >= j
Precedes(S, T) == S # {} /\ T # {} /\ FirstOf(S) < FirstOf(T)

-----------------------------------------------------------------------------
\* Calls. `args' stands for the matcher of the arguments, {} for none.

ToolCalled(t, tool, args) == CallsWith(t, tool, args) # {}

ToolCalledAtLeast(t, tool, min) == Count(Calls(t, tool)) >= min

TraceEventCountAtLeast(t, type, min) == Count(Of(t, type)) >= min

ToolArgContainsAtLeast(t, tool, arg, text, min) ==
    Count(CallsWith(t, tool, {<<arg, text>>})) >= min

ToolArgContainsAtMost(t, tool, arg, text, max) ==
    Count(CallsWith(t, tool, {<<arg, text>>})) <= max

ToolArgLacksSubstring(t, tool, arg, text) ==
    CallsWith(t, tool, {<<arg, text>>}) = {}

ToolCalledAtMostMatching(t, tool, max, args) ==
    Count(CallsWith(t, tool, args)) <= max

ToolNotCalled(t, tool, args) == CallsWith(t, tool, args) = {}

ToolResultContains(t, tool, text) ==
    \E i \in Calls(t, tool) : text \in t.tools[i].result

ToolResultTruncated(t, tool) ==
    \E i \in Calls(t, tool) : <<"result", "truncated">> \in t.tools[i].is

\* Only the first call with an artifact is looked at: its file must be in
\* the workspace, with the bytes of the result.
ToolResultArtifact(t, tool) ==
    LET with == {i \in Calls(t, tool) : Texts(t.tools[i], "artifact") # {}}
    IN  with # {} /\ <<"artifact", "whole">> \in t.tools[FirstOf(with)].is

Repaired(c) == Texts(c, "repaired") # {}
ToolRequestRepaired(t, tool) == \E i \in Calls(t, tool) : Repaired(t.tools[i])

\* A field the table does not know fails, whatever is asked of it.
ToolStatsAtLeast(t, field, min) ==
    field \in DOMAIN t.stats /\ t.stats[field] >= min

MemoryUpdateMetadataAtLeast(t, min) ==
    Count({i \in DOMAIN t.tools : <<"memory", "update">> \in t.tools[i].is})
        >= min

\* Counted by the runtime or derived from the calls, whichever is more.
ToolFailureKindCount(t, kind) ==
    LET derived == Count({i \in DOMAIN t.tools : kind \in t.tools[i].kinds})
        counted == IF kind \in DOMAIN t.failures THEN t.failures[kind] ELSE 0
    IN  IF derived > counted THEN derived ELSE counted

ToolFailureKindAtLeast(t, kind, min) == ToolFailureKindCount(t, kind) >= min
ToolFailureKindAtMost(t, kind, max) == ToolFailureKindCount(t, kind) <= max

\* The counters of the runtime, when it reported any, hide the calls.
ToolRepairKindAtLeast(t, kind, min) ==
    (IF DOMAIN t.repairs # {}
     THEN IF kind \in DOMAIN t.repairs THEN t.repairs[kind] ELSE 0
     ELSE Count({i \in DOMAIN t.tools :
                    <<"repaired", kind>> \in t.tools[i].is})) >= min

ToolCalledBeforeMatching(t, earlier, args1, later, args2) ==
    Precedes(CallsWith(t, earlier, args1), CallsWith(t, later, args2))

FileNotEdited(t, paths) ==
    \A i \in Calls(t, "write_file") \cup Calls(t, "edit_file") :
        \A p \in paths : <<"path", p>> \notin t.tools[i].args

\* A call that has no result yet has exit code 0.
Successful(t) == {i \in DOMAIN t.tools : t.tools[i].exit = 0}
MaxSuccessfulToolCalls(t, n) == n < 0 \/ Count(Successful(t)) <= n
MaxSuccessfulToolCallsForTool(t, tool, n) ==
    n < 0 \/ Count(Successful(t) \cap Calls(t, tool)) <= n
MaxToolCalls(t, n) == n < 0 \/ Len(t.tools) <= n

-----------------------------------------------------------------------------
\* Shell commands: any call with an argument `command'.

Commands(t, pattern) ==
    {i \in DOMAIN t.tools : <<"command", pattern>> \in t.tools[i].args}

ShellCommandMatching(t, pattern) == Commands(t, pattern) # {}

ShellCommandMatchingAtLeast(t, pattern, min) ==
    min <= 0 \/ Count(Commands(t, pattern)) >= min

ShellCommandMatchingBeforeTool(t, pattern, tool) ==
    Precedes(Commands(t, pattern), Calls(t, tool))

ShellCommandMatchingAfterTool(t, pattern, tool) ==
    /\ Calls(t, tool) # {} /\ Commands(t, pattern) # {}
    /\ LastOf(Commands(t, pattern)) > LastOf(Calls(t, tool))

ShellCommandMatchingBeforeCommand(t, earlier, later) ==
    Precedes(Commands(t, earlier), Commands(t, later))

ShellCommandLacks(t, text) == Commands(t, text) = {}

\* A command the runtime's guards rejected does not count, and neither does
\* one of the pipe shapes when it masks no verification.
GuardRejected(c) == c.exit # 0 /\ "guard rejection" \in c.result
ShellCommandLacksUnguarded(t, text) ==
    \A i \in Commands(t, text) :
        \/ GuardRejected(t.tools[i])
        \/ <<"command", "masks nothing">> \in t.tools[i].args

\* The workspace's own path, in an argument or a result of a tool whose
\* arguments are paths of the workspace, or in a call of a child transcript.
ShellCommandLacksWorkspaceAbsolutePath(t) ==
    /\ \A i \in DOMAIN t.tools :
        <<"path args", "absolute">> \notin t.tools[i].args
        /\ "absolute path" \notin t.tools[i].result
    /\ \A i \in Of(t, "child transcript") :
        <<"path args", "absolute">> \notin t.events[i].is

-----------------------------------------------------------------------------
\* The end of the run.

TurnEndedWithReason(t, reason) ==
    t.reason = (IF reason = "" THEN "completed" ELSE reason)

FinalTextContains(t, text) == text \in t.final
FinalTextLacks(t, text) == text \notin t.final

\* No usage events: the total cannot be judged and the check fails.
MaxTraceTotalTokens(t, n) == t.usage > 0 /\ t.usage <= n

\* Without a checkpoint event there is nothing to judge: the check fails.
CheckpointsWithin(t, n, tokens) ==
    /\ Of(t, "loop.turn_checkpoint") # {}
    /\ \A i \in Of(t, "loop.turn_checkpoint") :
        Num(t.events[i], tokens) <= n

MaxLoopTurnInputTokens(t, n) == CheckpointsWithin(t, n, "InputTokens")
MaxLoopTurnTotalTokens(t, n) == CheckpointsWithin(t, n, "TotalTokens")

-----------------------------------------------------------------------------
\* User messages and the task state. A message that names no mode is normal;
\* `t.state' is [mode, source, kind, id, actions, files, evidence], the last
\* three sequences of items like events.

Modes(t, mode) ==
    {i \in Of(t, "user.message") :
        mode = (IF Texts(t.events[i], "Mode") = {} THEN "normal"
                ELSE CHOOSE m \in Texts(t.events[i], "Mode") : TRUE)}

UserMessageModeAtLeast(t, mode, min) == Count(Modes(t, mode)) >= Least(min)
UserMessageModeAtMost(t, mode, max) ==
    Count(Modes(t, mode)) <= (IF max < 0 THEN 0 ELSE max)

TaskStateRequestModeIs(t, mode) == t.state.mode = mode
TaskStateRequestSourceIs(t, source) == t.state.source = source

\* The kind of a schedule counts only for a scheduled request.
TaskStateScheduleKindIs(t, kind) ==
    (IF t.state.source = "schedule" THEN t.state.kind ELSE "") = kind
TaskStateScheduleIDIs(t, id) == t.state.id = id

ItemsFitting(q, req) == {i \in DOMAIN q : Fits(q[i], req)}
TaskStateAttemptedActionAtLeast(t, req, min) ==
    Count(ItemsFitting(t.state.actions, req)) >= Least(min)
TaskStateChangedFileAtLeast(t, req, min) ==
    Count(ItemsFitting(t.state.files, req)) >= Least(min)
TaskStateEvidenceAtLeast(t, req, min) ==
    Count(ItemsFitting(t.state.evidence, req)) >= Least(min)

-----------------------------------------------------------------------------
\* Injections, repairs of the conversation, decisions of the loop.

ContextInjectionSourceAtLeast(t, source, min) ==
    Count(Fitting(t, "context.injected", Says({<<"Source", source>>})))
        >= Least(min)
ContextInjectionTextAtLeast(t, source, text, min) ==
    LET facts == {<<"Text", text>>}
                 \cup (IF source = "" THEN {} ELSE {<<"Source", source>>})
    IN  Count(Fitting(t, "context.injected", Says(facts))) >= Least(min)

ConversationRepairStatsField(t, field) ==
    IF field = "events" THEN Count(Of(t, "conversation.repaired"))
    ELSE Total(t.events, Of(t, "conversation.repaired"), field)
RepairFields == {"events", "missing_tool_results", "duplicate_tool_results",
                 "unexpected_tool_results"}

\* An unknown field fails the check.
ConversationRepairStatsAtLeast(t, field, min) ==
    field \in RepairFields /\ ConversationRepairStatsField(t, field) >= min
ConversationRepairKindAtLeast(t, kind, min) ==
    Count({i \in Of(t, "conversation.repaired") :
              kind \in Kind(t.events[i], "FailureKind")}) >= min

LoopDecisionKindAtLeast(t, kind, min) ==
    Count(Fitting(t, "loop.decision", Says({<<"Kind", kind>>}))) >= min
LoopDecisionResultAtLeast(t, decision, min) ==
    Count(Fitting(t, "loop.decision", Says({<<"Decision", decision>>}))) >= min
LoopDecisionRequirementAtLeast(t, req, min) ==
    Count(Fitting(t, "loop.decision", req)) >= Least(min)

MessageRejectedAtLeast(t, trigger, min) ==
    LET facts == IF trigger = "" THEN {} ELSE {<<"Trigger", trigger>>}
    IN  Count(Fitting(t, "message.rejected", Says(facts))) >= Least(min)

-----------------------------------------------------------------------------
\* The surface the runtime announced. An expectation that is not set passes,
\* one that is must be met by some announcement.

Surfaces(t) == {t.events[i] : i \in Of(t, "runtime.surface")}
SomeSurfaceSays(t, field, text) ==
    text # "" => \E e \in Surfaces(t) : <<field, text>> \in e.is
SomeSurfaceHas(t, field, n) ==
    n > 0 => \E e \in Surfaces(t) : Num(e, field) = n

RuntimeSurfaceCompletionGuard(t, name) ==
    SomeSurfaceSays(t, "CompletionGuard", name)
RuntimeSurfaceLoopProtocolControl(t, required) ==
    SomeSurfaceSays(t, "LoopProtocolControl", required)
RuntimeSurfaceMaxTurnInputTokens(t, n) ==
    SomeSurfaceHas(t, "MaxTurnInputTokens", n)
RuntimeSurfaceModelContextWindowTokens(t, n) ==
    SomeSurfaceHas(t, "ModelContextWindowTokens", n)
RuntimeSurfaceModelContextWindowEffectivePercent(t, n) ==
    SomeSurfaceHas(t, "ModelContextWindowEffectivePercent", n)
RuntimeSurfaceModelContextWindowSource(t, source) ==
    SomeSurfaceSays(t, "ModelContextWindowSource", source)
RuntimeSurfaceCompactTriggerInputTokens(t, n) ==
    SomeSurfaceHas(t, "CompactTriggerInputTokens", n)
RuntimeSurfaceReservedOutputTokens(t, n) ==
    SomeSurfaceHas(t, "ReservedOutputTokens", n)

ScopeActive(e) == <<"CompactScope", "active">> \in e.is
RuntimeSurfaceCompactScopeActive(t) == \E e \in Surfaces(t) : ScopeActive(e)
RuntimeSurfaceCompactPrefillSource(t, required) ==
    required # "" =>
        \E e \in Surfaces(t) :
            ScopeActive(e) /\ <<"CompactWindowPrefillSource", required>> \in e.is
RuntimeSurfaceRefreshReasonAtLeast(t, required, min) ==
    required # "" =>
        Count(Fitting(t, "runtime.surface", Says({<<"RefreshReason", required>>})))
            >= Least(min)

-----------------------------------------------------------------------------
\* The policy of the context window, as the runtime itself computes it.

DefaultCompactTriggerInputPercent == 80
DefaultSummaryTriggerInputTokens == 49152
DefaultSummaryPromptMaxBytes == 196608

\* A percentage is 80 when it is not set and never more than 100.
Percent(p) == IF p <= 0 THEN DefaultCompactTriggerInputPercent
              ELSE IF p > 100 THEN 100 ELSE p
AtLeastOne(n) == IF n < 1 THEN 1 ELSE n

CompactTriggerInputTokensForPolicy(explicit, window, percent, fallback) ==
    IF explicit # 0 THEN IF explicit < 0 THEN 0 ELSE explicit
    ELSE IF window > 0 THEN AtLeastOne((window * Percent(percent)) \div 100)
    ELSE IF fallback < 0 THEN 0 ELSE fallback

ModelInputCapacityTokens(window, reserved) ==
    IF window <= 0 THEN 0 ELSE AtLeastOne(window - reserved)

\* The reserve only counts when the trigger is derived from the window.
CompactTriggerInputTokensForModelPolicy(explicit, window, percent, reserved, fallback) ==
    IF explicit # 0 \/ window <= 0 \/ reserved <= 0
    THEN CompactTriggerInputTokensForPolicy(explicit, window, percent, fallback)
    ELSE AtLeastOne((ModelInputCapacityTokens(window, reserved)
                     * Percent(percent)) \div 100)

CompactTriggerBytesForModelPolicy(explicit, window, percent, reserved, fallback) ==
    LET tokens == CompactTriggerInputTokensForModelPolicy(
                      0, window, percent, reserved, 0)
    IN  IF explicit # 0 \/ tokens <= 0 THEN fallback ELSE tokens * 4

\* It never raises the caller's limit.
SummaryPromptMaxBytesForModelPolicy(window, percent, reserved, fallback) ==
    LET limit == CompactTriggerBytesForModelPolicy(
                     0, window, percent, reserved, fallback)
    IN  IF limit <= 0 \/ (fallback > 0 /\ limit > fallback)
        THEN fallback ELSE limit

\* Rounded half up; nothing is left beyond the limit.
RequestInputPressureForLimit(estimated, limit) ==
    IF limit <= 0 THEN [percent |-> 0, left |-> 0]
    ELSE [percent |-> IF estimated <= 0 THEN 0
                      ELSE (estimated * 100 + limit \div 2) \div limit,
          left    |-> IF limit < estimated THEN 0 ELSE limit - estimated]

-----------------------------------------------------------------------------
\* Surfaces and compactions against that policy.

Matches(t, field, expected) ==
    \E e \in Surfaces(t) :
        /\ Num(e, "ModelContextWindowTokens") > 0
        /\ expected[e] > 0 /\ Num(e, field) = expected[e]

RuntimeSurfaceCompactTriggerMatchesModelPolicy(t) ==
    Matches(t, "CompactTriggerInputTokens",
            [e \in Surfaces(t) |-> CompactTriggerInputTokensForModelPolicy(
                0, Num(e, "ModelContextWindowTokens"),
                Num(e, "CompactTriggerInputPercent"),
                Num(e, "ReservedOutputTokens"),
                DefaultSummaryTriggerInputTokens)])

RuntimeSurfaceCompactSummaryPromptMatchesModelPolicy(t) ==
    Matches(t, "CompactSummaryPromptMaxBytes",
            [e \in Surfaces(t) |-> SummaryPromptMaxBytesForModelPolicy(
                Num(e, "ModelContextWindowTokens"),
                Num(e, "CompactTriggerInputPercent"),
                Num(e, "ReservedOutputTokens"), DefaultSummaryPromptMaxBytes)])

RuntimeSurfaceHardInputLimitMatchesModelPolicy(t) ==
    Matches(t, "CompactHardInputLimitTokens",
            [e \in Surfaces(t) |-> ModelInputCapacityTokens(
                Num(e, "ModelContextWindowTokens"),
                Num(e, "ReservedOutputTokens"))])

\* The pressure a surface reports against one of its limits.
PressureRight(e, limit, percent, left) ==
    Num(e, "EstimatedRequestInputTokens") > 0 /\ Num(e, limit) > 0 =>
        RequestInputPressureForLimit(
            Num(e, "EstimatedRequestInputTokens"), Num(e, limit))
        = [percent |-> Num(e, percent), left |-> Num(e, left)]

\* Surfaces without an estimate are not judged: none at all passes.
RuntimeSurfaceRequestInputPressureMatchesLimits(t) ==
    \A e \in Surfaces(t) :
        /\ PressureRight(e, "CompactTriggerInputTokens",
                         "RequestInputCompactPercent",
                         "RequestInputTokensUntilCompact")
        /\ PressureRight(e, "CompactHardInputLimitTokens",
                         "RequestInputHardLimitPercent",
                         "RequestInputTokensUntilHardLimit")

RuntimeSurfaceToolSchemaWithinBudget(t) ==
    \A e \in Surfaces(t) :
        Num(e, "ToolSchemaBudgetTokens") > 0 =>
            Num(e, "EstimatedToolSchemaTokens")
                <= Num(e, "ToolSchemaBudgetTokens")

Compactions(t) == Of(t, "context.compacted")
Maintenance(t) == Compactions(t) \cup Of(t, "context.compaction_skipped")
Observed(e) == Num(e, "EstimatedInputTokens") > 0
               /\ Num(e, "TriggerInputTokens") > 0

ContextMaintenanceCompactScopeActiveAtLeast(t, min) ==
    Count({i \in Maintenance(t) : ScopeActive(t.events[i])}) >= Least(min)

\* The pressure in percent, rounded up, 0 without a trigger.
PolicyPressurePercent(tokens, trigger) ==
    IF tokens <= 0 \/ trigger <= 0 THEN 0
    ELSE (tokens * 100 + trigger - 1) \div trigger

ContextCompactionScopedPressureAtMost(t, max) ==
    LET active == {i \in Compactions(t) : ScopeActive(t.events[i])}
    IN  /\ active # {}
        /\ \A i \in active :
            PolicyPressurePercent(Num(t.events[i], "CompactScopedInputTokens"),
                                  Num(t.events[i], "TriggerInputTokens"))
                <= (IF max < 0 THEN 0 ELSE max)

-----------------------------------------------------------------------------
\* The loop protocol.

LoopProtocolFeedsAtLeast(t, min) == Count(Of(t, "loop.protocol_feed")) >= min
LoopProtocolCalibrationsAtLeast(t, min) ==
    Count(Of(t, "loop.protocol_calibration")) >= min
LoopProtocolCalibrationRequestsAtLeast(t, min) ==
    Count(Of(t, "loop.protocol_calibration_request")) >= min
LoopProtocolCalibrationRequestTextContains(t, text) ==
    Fitting(t, "loop.protocol_calibration_request",
            Says({<<"LastCalibrationQuestion", text>>})) # {}
LoopProtocolCalibrationRequestStatusAtLeast(t, status, min) ==
    Count(Fitting(t, "loop.protocol_calibration_request",
                  Says({<<"Status", status>>}))) >= Least(min)
LoopProtocolCalibrationStatusAtLeast(t, status, min) ==
    Count(Fitting(t, "loop.protocol_calibration", Says({<<"Status", status>>})))
        >= Least(min)
LoopProtocolFeedModeAtLeast(t, mode, min) ==
    Count(Fitting(t, "loop.protocol_feed", Says({<<"Mode", mode>>}))) >= min

\* Mode, plan, situation, last turn and last decision of a feed, all alike.
LoopProtocolFeedRequirementAtLeast(t, req, min) ==
    Count(Fitting(t, "loop.protocol_feed", req)) >= Least(min)

LoopProtocolFullFeedAfterCompaction(t) ==
    \E i \in Compactions(t), j \in Of(t, "loop.protocol_feed") :
        i < j /\ <<"Mode", "full">> \in t.events[j].is

-----------------------------------------------------------------------------
\* Compactions of the context.

ContextCompactionsAtLeast(t, min) == Count(Compactions(t)) >= min
ContextMaintenanceAtLeast(t, min) == Count(Maintenance(t)) >= Least(min)
ContextMaintenancePolicyObservedAtLeast(t, min) ==
    Count({i \in Maintenance(t) : Observed(t.events[i])}) >= Least(min)
ContextMaintenanceReasonAtLeast(t, reason, min) ==
    Count({i \in Maintenance(t) : reason \in Kind(t.events[i], "Reason")})
        >= Least(min)
ContextCompactionPolicyObservedAtLeast(t, min) ==
    Count({i \in Compactions(t) : Observed(t.events[i])}) >= Least(min)
ReactiveContextCompactionsAtLeast(t, min) ==
    Count({i \in Compactions(t) : <<"Reactive", "true">> \in t.events[i].is})
        >= min
ContextCompactionReasonAtLeast(t, reason, min) ==
    Count({i \in Compactions(t) : reason \in Kind(t.events[i], "Reason")})
        >= Least(min)
ContextCompactionRemovedMessagesAtLeast(t, min) ==
    Total(t.events, Compactions(t), "RemovedMessages") >= min
ContextCompactionReducedBytesAtLeast(t, min) ==
    Total(t.events, Compactions(t), "ReducedBytes") >= min
ContextCompactionSummaryContains(t, text) ==
    Fitting(t, "context.compacted", Says({<<"SummaryPreview", text>>})) # {}
ContextCompactionLoopProtocolAnchorContains(t, text) ==
    Fitting(t, "context.compacted", Says({<<"LoopProtocolAnchor", text>>})) # {}

-----------------------------------------------------------------------------
\* What calls found: sources, earlier sessions, children, plans.

CallsFitting(t, tag, req) ==
    {i \in DOMAIN t.tools : Texts(t.tools[i], tag) # {} /\ Fits(t.tools[i], req)}

SourceAccessMatchAtLeast(t, req, min) ==
    Count(CallsFitting(t, "source", req)) >= Least(min)
SessionSearchMatchAtLeast(t, req, min) ==
    Count(CallsFitting(t, "session search", req)) >= Least(min)

\* Only a search that reported a recent session has an anchor.
RecentSessionSearchAnchorAtLeast(t, req, min) ==
    Count(CallsFitting(t, "recent session", req)) >= Least(min)

FocusedTaskCalledAtLeast(t, type, min) ==
    Count({i \in DOMAIN t.tools : <<"focused_task", type>> \in t.tools[i].is})
        >= min
FocusedTaskSourceFindingsAtLeast(t, type, min) ==
    Total(t.tools,
          {i \in DOMAIN t.tools : <<"focused_task", type>> \in t.tools[i].is},
          "SourceFindings") >= min
SubagentCalledAtLeast(t, mode, min) ==
    Count({i \in DOMAIN t.tools : <<"subagent", mode>> \in t.tools[i].is}) >= min
SubagentSourceEvidenceAtLeast(t, mode, min) ==
    Total(t.tools,
          {i \in DOMAIN t.tools : <<"subagent", mode>> \in t.tools[i].is},
          "SourceEvidence") >= min

\* A child that reports it did not finish is an error though its call is not.
\* (A focused task of type verify may report a negative result.)
DelegationFailed(c) ==
    \/ c.exit # 0
    \/ <<"report", "not ok">> \in c.is /\ <<"focused_task", "verify">> \notin c.is
Delegated(c) == Texts(c, "focused_task") # {} \/ Texts(c, "subagent") # {}
NoDelegationErrors(t) ==
    \A i \in DOMAIN t.tools :
        Delegated(t.tools[i]) => ~DelegationFailed(t.tools[i])

NoPlanErrors(t) ==
    \A i \in Calls(t, "plan") :
        t.tools[i].exit = 0 \/ "loop_guard_no_budget" \in t.tools[i].kinds

\* The totals are those of the last call that returned a plan.
FinalPlanCompleted(t) ==
    LET plans == {i \in Calls(t, "plan") :
                    t.tools[i].exit = 0 /\ "TotalSteps" \in DOMAIN t.tools[i].n}
    IN  /\ plans # {}
        /\ LET last == t.tools[LastOf(plans)]
           IN  /\ Num(last, "TotalSteps") > 0
               /\ Num(last, "CompletedSteps") = Num(last, "TotalSteps")

-----------------------------------------------------------------------------
\* A scenario of the batch: what its trace must and must not show. A map of
\* the code is a function, a list of requirements a set of records, a zero,
\* an empty text and an empty set ask for nothing. LoopStatus is the status
\* of the LOOP.md its files give the session, "" for none.

Blank ==
    [RequiredTurnEndReason |-> "", RequiredTools |-> {}, ForbiddenTools |-> {},
     RequiredFinalText |-> {}, ForbiddenFinalText |-> {},
     RequiredToolResultText |-> {}, RequiredToolArgContains |-> {},
     ForbiddenToolArgContains |-> {}, MaxToolArgContains |-> {},
     RequiredTruncatedResults |-> {}, RequiredResultArtifacts |-> {},
     RequiredToolOrder |-> {}, RequiredToolCounts |-> <<>>,
     RequiredToolFailureKindCounts |-> <<>>, MaxToolFailureKindCounts |-> <<>>,
     RequiredToolStatsAtLeast |-> <<>>, RequiredTraceEventCounts |-> <<>>,
     RequiredUserMessageModes |-> <<>>, ForbiddenUserMessageModes |-> {},
     RequiredTaskStateRequestMode |-> "", RequiredTaskStateRequestSource |-> "",
     RequiredTaskStateScheduleID |-> "", RequiredTaskStateScheduleKind |-> "",
     RequiredTaskStateAttemptedActions |-> {},
     RequiredTaskStateChangedFiles |-> {}, RequiredTaskStateEvidence |-> {},
     RequiredConversationRepairStatsAtLeast |-> <<>>,
     RequiredConversationRepairKinds |-> <<>>,
     RequiredLoopDecisionKinds |-> <<>>, RequiredLoopDecisionResults |-> <<>>,
     RequiredLoopDecisionMatches |-> {}, RequiredLoopProtocolFeeds |-> 0,
     RequiredLoopProtocolCalibrationRequests |-> 0,
     RequiredLoopProtocolCalibrations |-> 0,
     RequiredLoopProtocolCalibrationRequestText |-> {},
     RequiredLoopProtocolCalibrationRequestStatuses |-> <<>>,
     RequiredLoopProtocolCalibrationStatuses |-> <<>>,
     RequiredLoopProtocolFeedModes |-> <<>>,
     RequiredLoopProtocolFeedMatches |-> {},
     RequireLoopProtocolFullAfterCompact |-> FALSE,
     RequiredLoopProtocolFinalStatus |-> "",
     RequiredSourceAccess |-> {}, RequiredSessionSearch |-> {},
     RequiredRecentSessionSearch |-> {},
     RequiredContextInjectionSources |-> <<>>,
     RequiredContextInjectionText |-> {}, RequiredContextMaintenance |-> 0,
     RequiredContextMaintenanceReasons |-> <<>>,
     RequiredContextCompactions |-> 0, RequiredReactiveCompactions |-> 0,
     RequiredContextCompactionReasons |-> <<>>,
     RequiredCompactionRemovedMsgs |-> 0, RequiredCompactionReducedBytes |-> 0,
     RequiredCompactScopeActive |-> 0,
     RequiredRuntimeCompactPrefillSource |-> "",
     RequiredRuntimeSurfaceRefreshReason |-> "",
     RequiredRuntimeSurfaceRefreshReasons |-> <<>>,
     RequiredRuntimeLoopProtocolControl |-> "",
     MaxCompactScopedPressurePercent |-> {}, RequiredContextSummaryText |-> {},
     RequiredContextLoopProtocolAnchorText |-> {},
     RequiredFocusedTaskCounts |-> <<>>, RequiredFocusedTaskSourceCounts |-> <<>>,
     RequiredSubagentModeCounts |-> <<>>, RequiredSubagentSourceCounts |-> <<>>,
     RequiredMessageRejected |-> <<>>, RequiredCompletionGuards |-> {},
     RuntimeMaxTurnInputTokens |-> 0, MaxTotalTokens |-> 0,
     ModelContextWindowTokens |-> 0, CompactTriggerInputTokens |-> 0,
     RequireNoDelegationErrors |-> FALSE, RequireNoPlanErrors |-> FALSE,
     RequireFinalPlanCompleted |-> FALSE, MaxParentToolCalls |-> 0,
     MaxSuccessfulToolCallsByTool |-> <<>>, MaxLoopTurnInputTokens |-> 0,
     MaxLoopTurnTotalTokens |-> 0, RequiredCommands |-> {},
     RequiredCommandCounts |-> <<>>, RequiredCommandBeforeTool |-> {},
     RequiredCommandAfterTool |-> {}, RequiredCommandOrder |-> {},
     ForbiddenCommands |-> {}, ForbidWorkspaceAbsolutePaths |-> FALSE,
     ProtectedFiles |-> {}, EnableLoopProtocol |-> FALSE,
     ExposeLoopProtocolTool |-> FALSE, SessionID |-> "", Prompts |-> 1,
     Name |-> "adhoc", Suites |-> {}, Domains |-> {}, MaxTurns |-> 1,
     EnableMemory |-> FALSE, ExecutePlan |-> FALSE, LoopStatus |-> "",
     VerifyCommand |-> FALSE, ExpectedSkill |-> FALSE, SourceRepoURL |-> FALSE,
     RequiredFileSubstrings |-> FALSE, PromptOptions |-> FALSE]

RequiredMemoryUpdateMetadataMin(stats) ==
    LET asked == {0} \cup {stats[f] : f \in DOMAIN stats \cap
            {"memory_updates", "memory_update_add", "memory_update_replace",
             "memory_update_remove"}}
    IN  CHOOSE m \in asked : \A k \in asked : m >= k

ScenarioRequiresLoopTurnCheckpoints(s) ==
    \/ s.EnableLoopProtocol \/ s.RequireLoopProtocolFullAfterCompact
    \/ s.RequiredLoopProtocolFeeds > 0
    \/ s.RequiredLoopProtocolCalibrationRequests > 0
    \/ s.RequiredLoopProtocolCalibrations > 0
    \/ DOMAIN s.RequiredLoopProtocolCalibrationRequestStatuses # {}
    \/ DOMAIN s.RequiredLoopProtocolCalibrationStatuses # {}
    \/ DOMAIN s.RequiredLoopProtocolFeedModes # {}
    \/ s.RequiredLoopProtocolFeedMatches # {}
    \/ s.RequiredLoopProtocolFinalStatus # ""

\* A scenario about a running protocol brings its LOOP.md along.
ScenarioRequiresActiveLoopProtocol(s) ==
    \/ s.RequiredLoopProtocolFeeds > 0
    \/ DOMAIN s.RequiredLoopProtocolFeedModes # {}
    \/ s.RequiredLoopProtocolFeedMatches # {}
    \/ s.RequireLoopProtocolFullAfterCompact

\* A LOOP.md without a status counts as running.
Active(st) == st \in {"running", "none given"}

VerifyScenarioLoopProtocolState(s) ==
    ScenarioRequiresActiveLoopProtocol(s) =>
        s.SessionID # "" /\ Active(s.LoopStatus)

\* The calls, and the task state that follows from them.
CallChecks(s, t) ==
    /\ TurnEndedWithReason(t, s.RequiredTurnEndReason)
    /\ \A tool \in s.RequiredTools : ToolCalled(t, tool, {})
    /\ \A tool \in s.ForbiddenTools : ToolNotCalled(t, tool, {})
    /\ \A x \in s.RequiredFinalText : FinalTextContains(t, x)
    /\ \A x \in s.ForbiddenFinalText : FinalTextLacks(t, x)
    /\ \A r \in s.RequiredToolResultText : ToolResultContains(t, r.tool, r.text)
    /\ \A r \in s.RequiredToolArgContains :
        ToolArgContainsAtLeast(t, r.tool, r.arg, r.text, Least(r.min))
    /\ \A r \in s.ForbiddenToolArgContains :
        ToolArgLacksSubstring(t, r.tool, r.arg, r.text)
    /\ \A r \in s.MaxToolArgContains :
        ToolArgContainsAtMost(t, r.tool, r.arg, r.text, Least(r.max))
    /\ \A tool \in s.RequiredTruncatedResults : ToolResultTruncated(t, tool)
    /\ \A tool \in s.RequiredResultArtifacts : ToolResultArtifact(t, tool)
    /\ \A o \in s.RequiredToolOrder :
        ToolCalledBeforeMatching(t, o.earlier, {}, o.later, {})
    /\ \A tool \in DOMAIN s.RequiredToolCounts :
        ToolCalledAtLeast(t, tool, s.RequiredToolCounts[tool])
    /\ \A k \in DOMAIN s.RequiredToolFailureKindCounts :
        ToolFailureKindAtLeast(t, k, s.RequiredToolFailureKindCounts[k])
    /\ \A k \in DOMAIN s.MaxToolFailureKindCounts :
        ToolFailureKindAtMost(t, k, s.MaxToolFailureKindCounts[k])
    /\ \A f \in DOMAIN s.RequiredToolStatsAtLeast :
        ToolStatsAtLeast(t, f, s.RequiredToolStatsAtLeast[f])
    /\ MemoryUpdateMetadataAtLeast(
           t, RequiredMemoryUpdateMetadataMin(s.RequiredToolStatsAtLeast))
    /\ \A e \in DOMAIN s.RequiredTraceEventCounts :
        TraceEventCountAtLeast(t, e, s.RequiredTraceEventCounts[e])
    /\ \A m \in DOMAIN s.RequiredUserMessageModes :
        UserMessageModeAtLeast(t, m, s.RequiredUserMessageModes[m])
    /\ \A m \in s.ForbiddenUserMessageModes : UserMessageModeAtMost(t, m, 0)
    /\ LET mode == s.RequiredTaskStateRequestMode
       IN  mode # "" => TaskStateRequestModeIs(t, mode)
    /\ LET source == s.RequiredTaskStateRequestSource
       IN  source # "" => TaskStateRequestSourceIs(t, source)
    /\ LET id == s.RequiredTaskStateScheduleID
       IN  id # "" => TaskStateScheduleIDIs(t, id)
    /\ LET kind == s.RequiredTaskStateScheduleKind
       IN  kind # "" => TaskStateScheduleKindIs(t, kind)
    /\ \A r \in s.RequiredTaskStateAttemptedActions :
        TaskStateAttemptedActionAtLeast(t, r, r.min)
    /\ \A r \in s.RequiredTaskStateChangedFiles :
        TaskStateChangedFileAtLeast(t, r, r.min)
    /\ \A r \in s.RequiredTaskStateEvidence :
        TaskStateEvidenceAtLeast(t, r, r.min)

\* The loop protocol, and what the calls found.
ProtocolChecks(s, t) ==
    /\ \A f \in DOMAIN s.RequiredConversationRepairStatsAtLeast :
        ConversationRepairStatsAtLeast(
            t, f, s.RequiredConversationRepairStatsAtLeast[f])
    /\ \A k \in DOMAIN s.RequiredConversationRepairKinds :
        ConversationRepairKindAtLeast(t, k, s.RequiredConversationRepairKinds[k])
    /\ \A k \in DOMAIN s.RequiredLoopDecisionKinds :
        LoopDecisionKindAtLeast(t, k, s.RequiredLoopDecisionKinds[k])
    /\ \A d \in DOMAIN s.RequiredLoopDecisionResults :
        LoopDecisionResultAtLeast(t, d, s.RequiredLoopDecisionResults[d])
    /\ \A r \in s.RequiredLoopDecisionMatches :
        LoopDecisionRequirementAtLeast(t, r, r.min)
    /\ LoopProtocolFeedsAtLeast(t, s.RequiredLoopProtocolFeeds)
    /\ LoopProtocolCalibrationRequestsAtLeast(
           t, s.RequiredLoopProtocolCalibrationRequests)
    /\ LoopProtocolCalibrationsAtLeast(t, s.RequiredLoopProtocolCalibrations)
    /\ \A x \in s.RequiredLoopProtocolCalibrationRequestText :
        LoopProtocolCalibrationRequestTextContains(t, x)
    /\ LET asked == s.RequiredLoopProtocolCalibrationRequestStatuses
       IN  \A x \in DOMAIN asked :
               LoopProtocolCalibrationRequestStatusAtLeast(t, x, asked[x])
    /\ LET asked == s.RequiredLoopProtocolCalibrationStatuses
       IN  \A x \in DOMAIN asked :
               LoopProtocolCalibrationStatusAtLeast(t, x, asked[x])
    /\ \A m \in DOMAIN s.RequiredLoopProtocolFeedModes :
        LoopProtocolFeedModeAtLeast(t, m, s.RequiredLoopProtocolFeedModes[m])
    /\ \A r \in s.RequiredLoopProtocolFeedMatches :
        LoopProtocolFeedRequirementAtLeast(t, r, r.min)
    /\ s.RequireLoopProtocolFullAfterCompact =>
        LoopProtocolFullFeedAfterCompaction(t)
    /\ \A r \in s.RequiredSourceAccess : SourceAccessMatchAtLeast(t, r, r.min)
    /\ \A r \in s.RequiredSessionSearch : SessionSearchMatchAtLeast(t, r, r.min)
    /\ \A r \in s.RequiredRecentSessionSearch :
        RecentSessionSearchAnchorAtLeast(t, r, r.min)
    /\ \A x \in DOMAIN s.RequiredContextInjectionSources :
        ContextInjectionSourceAtLeast(t, x, s.RequiredContextInjectionSources[x])
    /\ \A r \in s.RequiredContextInjectionText :
        ContextInjectionTextAtLeast(t, r.source, r.text, 1)

\* Compactions and their policy.
ContextChecks(s, t) ==
    /\ LET n == s.RequiredContextMaintenance
       IN  n > 0 => /\ ContextMaintenanceAtLeast(t, n)
                    /\ ContextMaintenancePolicyObservedAtLeast(t, n)
    /\ \A x \in DOMAIN s.RequiredContextMaintenanceReasons :
        ContextMaintenanceReasonAtLeast(
            t, x, s.RequiredContextMaintenanceReasons[x])
    /\ LET n == s.RequiredContextCompactions
       IN  n > 0 => /\ ContextCompactionsAtLeast(t, n)
                    /\ ContextCompactionPolicyObservedAtLeast(t, n)
    /\ ReactiveContextCompactionsAtLeast(t, s.RequiredReactiveCompactions)
    /\ \A x \in DOMAIN s.RequiredContextCompactionReasons :
        ContextCompactionReasonAtLeast(t, x, s.RequiredContextCompactionReasons[x])
    /\ ContextCompactionRemovedMessagesAtLeast(t, s.RequiredCompactionRemovedMsgs)
    /\ ContextCompactionReducedBytesAtLeast(t, s.RequiredCompactionReducedBytes)
    /\ LET n == s.RequiredCompactScopeActive
       IN  n > 0 => ContextMaintenanceCompactScopeActiveAtLeast(t, n)
    /\ RuntimeSurfaceCompactPrefillSource(t, s.RequiredRuntimeCompactPrefillSource)
    /\ RuntimeSurfaceRefreshReasonAtLeast(
           t, s.RequiredRuntimeSurfaceRefreshReason, 1)
    /\ \A x \in DOMAIN s.RequiredRuntimeSurfaceRefreshReasons :
        RuntimeSurfaceRefreshReasonAtLeast(
            t, x, s.RequiredRuntimeSurfaceRefreshReasons[x])
    /\ RuntimeSurfaceLoopProtocolControl(t, s.RequiredRuntimeLoopProtocolControl)
    /\ \A max \in s.MaxCompactScopedPressurePercent :
        ContextCompactionScopedPressureAtMost(t, max)
    /\ \A x \in s.RequiredContextSummaryText :
        ContextCompactionSummaryContains(t, x)
    /\ \A x \in s.RequiredContextLoopProtocolAnchorText :
        ContextCompactionLoopProtocolAnchorContains(t, x)

\* The policy of the model's window is checked when the scenario sets one.
PolicyChecks(s, t) ==
    LET window == s.ModelContextWindowTokens
        trigger == s.CompactTriggerInputTokens
    IN  /\ RuntimeSurfaceMaxTurnInputTokens(t, s.RuntimeMaxTurnInputTokens)
        /\ s.MaxTotalTokens > 0 => MaxTraceTotalTokens(t, s.MaxTotalTokens)
        /\ RuntimeSurfaceModelContextWindowTokens(t, window)
        /\ RuntimeSurfaceCompactTriggerInputTokens(t, trigger)
        /\ window > 0 /\ trigger <= 0 =>
            RuntimeSurfaceCompactTriggerMatchesModelPolicy(t)
        /\ window > 0 =>
            /\ RuntimeSurfaceCompactSummaryPromptMatchesModelPolicy(t)
            /\ RuntimeSurfaceHardInputLimitMatchesModelPolicy(t)
        /\ window > 0 \/ trigger > 0 =>
            /\ RuntimeSurfaceRequestInputPressureMatchesLimits(t)
            /\ RuntimeSurfaceToolSchemaWithinBudget(t)

\* Delegation, guards, budgets and commands.
BudgetChecks(s, t) ==
    /\ \A x \in DOMAIN s.RequiredFocusedTaskCounts :
        FocusedTaskCalledAtLeast(t, x, s.RequiredFocusedTaskCounts[x])
    /\ \A x \in DOMAIN s.RequiredFocusedTaskSourceCounts :
        FocusedTaskSourceFindingsAtLeast(
            t, x, s.RequiredFocusedTaskSourceCounts[x])
    /\ \A m \in DOMAIN s.RequiredSubagentModeCounts :
        SubagentCalledAtLeast(t, m, s.RequiredSubagentModeCounts[m])
    /\ \A m \in DOMAIN s.RequiredSubagentSourceCounts :
        SubagentSourceEvidenceAtLeast(t, m, s.RequiredSubagentSourceCounts[m])
    /\ \A x \in DOMAIN s.RequiredMessageRejected :
        MessageRejectedAtLeast(t, x, s.RequiredMessageRejected[x])
    /\ \A g \in s.RequiredCompletionGuards : RuntimeSurfaceCompletionGuard(t, g)
    /\ s.RequireNoDelegationErrors => NoDelegationErrors(t)
    /\ s.RequireNoPlanErrors => NoPlanErrors(t)
    /\ s.RequireFinalPlanCompleted => FinalPlanCompleted(t)
    /\ s.MaxParentToolCalls > 0 =>
        MaxSuccessfulToolCalls(t, s.MaxParentToolCalls)
    /\ \A tool \in DOMAIN s.MaxSuccessfulToolCallsByTool :
        MaxSuccessfulToolCallsForTool(
            t, tool, s.MaxSuccessfulToolCallsByTool[tool])
    /\ ScenarioRequiresLoopTurnCheckpoints(s) =>
        /\ s.MaxLoopTurnInputTokens > 0 =>
            MaxLoopTurnInputTokens(t, s.MaxLoopTurnInputTokens)
        /\ s.MaxLoopTurnTotalTokens > 0 =>
            MaxLoopTurnTotalTokens(t, s.MaxLoopTurnTotalTokens)
    /\ \A c \in s.RequiredCommands : ShellCommandMatching(t, c)
    /\ \A c \in DOMAIN s.RequiredCommandCounts :
        ShellCommandMatchingAtLeast(t, c, s.RequiredCommandCounts[c])
    /\ \A o \in s.RequiredCommandBeforeTool :
        ShellCommandMatchingBeforeTool(t, o.command, o.tool)
    /\ \A o \in s.RequiredCommandAfterTool :
        ShellCommandMatchingAfterTool(t, o.command, o.tool)
    /\ \A o \in s.RequiredCommandOrder :
        ShellCommandMatchingBeforeCommand(t, o.earlier, o.later)
    /\ \A c \in s.ForbiddenCommands : ShellCommandLacksUnguarded(t, c)
    /\ s.ForbidWorkspaceAbsolutePaths =>
        ShellCommandLacksWorkspaceAbsolutePath(t)
    /\ FileNotEdited(t, s.ProtectedFiles)

CheckBatchTrace(s, t) ==
    /\ CallChecks(s, t) /\ ProtocolChecks(s, t) /\ ContextChecks(s, t)
    /\ BudgetChecks(s, t) /\ PolicyChecks(s, t)

=============================================================================
