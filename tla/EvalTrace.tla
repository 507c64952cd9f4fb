------------------------------ MODULE EvalTrace ------------------------------
(***************************************************************************)
(* How an eval judges a scenario: one affentctl process per prompt runs a  *)
(* turn and appends the turn's events to trace.jsonl, the batch runner     *)
(* waits for the processes, parses the file and applies the checks of the  *)
(* scenario. The in-process Runner reads the same events from the channel. *)
(*                                                                         *)
(* The model of the agent reuses its call ids from turn to turn. Each call *)
(* has a number of its own here, so that the pairing of requests and       *)
(* results by id can be compared with what really happened.                *)
(***************************************************************************)
EXTENDS TraceChecks

CONSTANTS
    Scenarios,   \* records like Blank
    Actions,     \* what a turn may call: [tool, args, result, exit, kinds, is, n]
    Reasons,     \* how a turn may end otherwise than completed
    Finals,      \* what a turn may say last: sets of texts
    Notes,       \* plain events it may emit: [type, is, n]
    Ids,         \* call ids of the model
    MaxCalls,    \* bound on calls, over all turns
    MaxNotes,    \* bound on plain events
    Reuse,       \* an id may be reused while its first call is open
    Crashes,     \* a process may die
    Timeouts,    \* the scenario may run out of time
    MaxItems     \* taskStateMaxItems

EvalTraceAssumption ==
    /\ \A s \in Scenarios : DOMAIN s = DOMAIN Blank /\ s.Prompts \in Nat \ {0}
    /\ Reasons \subseteq {"cancelled", "max_turns", "error"}
    /\ MaxCalls \in Nat /\ MaxNotes \in Nat /\ MaxItems \in Nat \ {0}

VARIABLES
    scenario,
    prompt,    \* prompts started
    phase,     \* of the current process: "start", "run", "end", "exited"
    resumed,   \* the conversation of the session exists
    emitted,   \* events of the loop, all turns
    unread,    \* those of this process that are not in the file yet
    file,      \* lines of trace.jsonl
    exits,     \* exit code of each process
    expired,   \* runCtx is done
    verdict    \* failures of the scenario; "open" before

vars == <<scenario, prompt, phase, resumed, emitted, unread, file, exits,
          expired, verdict>>

StatFields == {"tool_requests", "tool_errors"}
NoStats == [f \in StatFields |-> 0]

Nothing == [type |-> "none", turn |-> 0, id |-> "", call |-> 0, tool |-> "",
            args |-> {}, result |-> {}, exit |-> 0, kinds |-> {},
            reason |-> "", stats |-> NoStats, is |-> {}, n |-> <<>>]
Torn == [Nothing EXCEPT !.type = "torn"]

-----------------------------------------------------------------------------
\* Reading a trace. `wanted' is the turn whose events count, 0 for all.

EmptyTrace ==
    [events |-> <<>>, tools |-> <<>>, reason |-> "", final |-> {}, usage |-> 0,
     stats |-> NoStats, failures |-> <<>>, repairs |-> <<>>,
     pending |-> <<>>, bad |-> FALSE]

NewCall(e) ==
    [tool |-> e.tool, turn |-> e.turn, args |-> e.args, result |-> {},
     done |-> FALSE, exit |-> 0, kinds |-> {}, is |-> {}, n |-> <<>>]

Answered(c, e) ==
    [c EXCEPT !.result = e.result, !.done = TRUE, !.exit = e.exit,
              !.kinds = e.kinds, !.is = e.is, !.n = e.n]

\* Plausible bug: the request that came first keeps the id.
ApplyRequestMutant(t, e) ==
    [t EXCEPT !.pending = @ @@ (e.id :> (Len(t.tools) + 1)),
              !.tools = Append(@, NewCall(e))]

\* A later request with the same id takes the place of the earlier one.
ApplyRequest(t, e) ==
    [t EXCEPT !.pending = (e.id :> (Len(t.tools) + 1)) @@ @,
              !.tools = Append(@, NewCall(e))]

\* A result nobody waits for becomes a call without a tool.
ApplyResult(t, e) ==
    IF e.id \in DOMAIN t.pending
    THEN [t EXCEPT !.tools[t.pending[e.id]] = Answered(@, e)]
    ELSE [t EXCEPT !.tools =
             Append(@, Answered(NewCall([e EXCEPT !.tool = ""]), e))]

MergeStats(a, b) == [f \in StatFields |-> a[f] + b[f]]

\* Failure kinds of the calls are counted by the runtime.
MergeCounts(a, b) ==
    [k \in DOMAIN a \cup DOMAIN b |->
        (IF k \in DOMAIN a THEN a[k] ELSE 0) + (IF k \in DOMAIN b THEN b[k] ELSE 0)]

\* The first turn.end replaces the counters, and so does every one that a
\* reader of a single turn sees.
ApplyTurnEnd(t, e, wanted) ==
    LET merge == t.reason # "" /\ wanted = 0
    IN  [t EXCEPT !.reason = e.reason,
                  !.stats = IF merge THEN MergeStats(@, e.stats) ELSE e.stats,
                  !.failures = IF merge THEN MergeCounts(@, e.n) ELSE e.n]

\* Events that are kept as they come.
MessageEvents == {"user.message", "conversation.repaired", "runtime.surface",
                  "context.injected", "message.rejected"}
LoopEvents == {"loop.decision", "loop.protocol_feed",
               "loop.protocol_calibration_request", "loop.protocol_calibration",
               "loop.turn_checkpoint"}
ContextEvents == {"context.compacted", "context.compaction_skipped", "error"}

\* These belong to no turn.
MatchesTurn(e, wanted) ==
    \/ wanted = 0 \/ e.turn = 0 \/ e.turn = wanted
    \/ e.type \in {"conversation.repaired", "loop.protocol_calibration_request",
                  "loop.protocol_calibration", "error"}

ApplyTraceEvent(t, e, wanted) ==
    LET seen == [t EXCEPT !.events = Append(@, [type |-> e.type, is |-> e.is,
                                                n |-> e.n])]
    IN  IF e.type = "torn" THEN [t EXCEPT !.bad = TRUE]
        ELSE IF t.bad \/ ~MatchesTurn(e, wanted) THEN t
        ELSE CASE e.type = "tool.request" -> ApplyRequest(seen, e)
               [] e.type = "tool.result" -> ApplyResult(seen, e)
               [] e.type = "message.done" -> [seen EXCEPT !.final = e.result]
               [] e.type = "turn.end" -> ApplyTurnEnd(seen, e, wanted)
               [] e.type \in MessageEvents \cup LoopEvents \cup ContextEvents -> seen
               [] OTHER -> t

-----------------------------------------------------------------------------
\* The task state derived from what was read.

Without(q, i) == SubSeq(q, 1, i - 1) \o SubSeq(q, i + 1, Len(q))

ActionSummary(c) ==
    LET key == CASE c.tool = "shell" -> "command"
                 [] c.tool \in {"plan", "memory", "skill", "loop_protocol",
                                "session_schedule"} -> "action"
                 [] c.tool = "run_task" -> "task_type"
                 [] c.tool = "subagent_run" -> "mode"
                 [] OTHER -> "path"
    IN  Texts([is |-> c.args], key)
Item(f, x, g, texts) ==
    [is |-> {<<f, x>>} \cup {<<g, y>> : y \in texts}, n |-> <<>>]

\* Commands that hand work over, and the evidence they are.
HandoffSources(texts) ==
    (IF "git commit" \in texts THEN <<"git_commit">> ELSE <<>>)
    \o (IF "git push" \in texts THEN <<"git_push">> ELSE <<>>)
LooksLikeVerification(c) ==
    c.tool = "shell" /\ "test" \in Texts([is |-> c.args], "command")

ActionRetentionRank(item) ==
    LET tool == CHOOSE x \in Texts(item, "Tool") : TRUE
        texts == Texts(item, "Summary")
    IN  CASE tool = "shell" /\ HandoffSources(texts) # <<>> -> 100
          [] tool = "loop_protocol" -> 95
          [] tool = "shell" /\ "test" \in texts -> 90
          [] tool \in {"session_schedule", "session_workspace"} -> 85
          [] tool \in {"plan", "memory"} -> 80
          [] tool \in {"edit_file", "write_file"} -> 70
          [] tool \in {"file_context", "repo_search", "symbol_context",
                       "read_file"} -> 40
          [] tool = "list_files" -> 20
          [] OTHER -> IF texts = {} /\ tool # "shell" THEN 10 ELSE 50

\* The same action moves nothing; one too many drops the first of the least.
AppendAction(q, item) ==
    IF \E i \in DOMAIN q : q[i] = item THEN q
    ELSE IF Len(q) < MaxItems THEN Append(q, item)
    ELSE LET all == Append(q, item)
             least == {i \in DOMAIN all : \A j \in DOMAIN all :
                          ActionRetentionRank(all[i])
                              <= ActionRetentionRank(all[j])}
         IN  Without(all, FirstOf(least))

\* Per path: a write stays a write.
AppendTaskFile(q, item) ==
    LET same == {i \in DOMAIN q : Texts(q[i], "Path") = Texts(item, "Path")}
        kept == IF <<"Action", "write">> \in q[FirstOf(same)].is
                THEN q[FirstOf(same)] ELSE item
    IN  IF same # {} THEN [q EXCEPT ![FirstOf(same)] = kept]
        ELSE Append(IF Len(q) >= MaxItems THEN Tail(q) ELSE q, item)

AppendTaskFailure(q, item) ==
    Append(IF Len(q) >= MaxItems THEN Tail(q) ELSE q, item)

\* The oldest of a source that occurs twice goes first.
AppendTaskEvidence(q, item) ==
    LET twice == {i \in DOMAIN q : \E j \in DOMAIN q \ {i} :
                     Texts(q[i], "Source") = Texts(q[j], "Source")}
    IN  Append(IF Len(q) < MaxItems THEN q
               ELSE Without(q, IF twice = {} THEN 1 ELSE FirstOf(twice)), item)

\* Evidence from several sources in turn, with one summary.
AppendSources(q, sources, texts) ==
    LET f[k \in 0..Len(sources)] ==
            IF k = 0 THEN q
            ELSE AppendTaskEvidence(f[k - 1], Item("Source", sources[k],
                                                   "Summary", texts))
    IN  f[Len(sources)]

\* What a call is evidence of. A failed one is none.
CallSources(c) ==
    (IF <<"memory", "update">> \in c.is THEN <<"memory_update">> ELSE <<>>)
    \o (IF c.tool \in {"shell", "plan", "memory", "loop_protocol",
                       "session_schedule"} THEN <<c.tool>> ELSE <<>>)
    \o (IF c.tool = "shell" THEN HandoffSources(ActionSummary(c)) ELSE <<>>)
CallFailed(c) == c.exit # 0 \/ c.kinds # {}

AfterCall(st, c) ==
    LET action == Item("Tool", c.tool, "Summary", ActionSummary(c))
        file_ == Item("Action", IF c.tool = "write_file" THEN "write" ELSE "edit",
                      "Path", Texts([is |-> c.args], "path"))
        edits == /\ c.tool \in {"write_file", "edit_file"}
                 /\ Texts(file_, "Path") # {}
    IN  [st EXCEPT
            !.actions = IF c.tool = "" THEN @ ELSE AppendAction(@, action),
            !.files = IF edits THEN AppendTaskFile(@, file_) ELSE @,
            !.failures = IF CallFailed(c) THEN AppendTaskFailure(@, action)
                         ELSE @,
            !.evidence = IF CallFailed(c) THEN @
                         ELSE AppendSources(@, CallSources(c), ActionSummary(c)),
            !.verification =
                IF ~LooksLikeVerification(c) THEN @
                ELSE IF c.exit = 0 THEN "last_shell_passed"
                ELSE "failed"]

DefaultText(texts, default) ==
    IF texts = {} THEN default ELSE CHOOSE x \in texts : TRUE

\* Injections, the last surface, compactions and skips, in this order, are
\* evidence before the calls are.
EventSources(e) ==
    CASE e.type = "context.injected" ->
            IF Texts(e, "Source")
               \cap {"runtime_workspace", "active_plan", "skill"} = {} THEN <<>>
            ELSE <<CHOOSE x \in Texts(e, "Source") : TRUE>>
      [] e.type = "context.compacted" -> <<"context_compaction">>
      [] OTHER -> <<"context_compaction_skipped">>
EventEvidence(t, type, q) ==
    LET f[k \in 0..Len(t.events)] ==
            IF k = 0 THEN q
            ELSE IF t.events[k].type # type THEN f[k - 1]
            ELSE AppendSources(f[k - 1], EventSources(t.events[k]),
                               Texts(t.events[k], "Text"))
    IN  f[Len(t.events)]
SurfaceEvidence(t, q) ==
    LET surfaces == Of(t, "runtime.surface")
        last == t.events[LastOf(surfaces)]
        of == <<<<"tools", "runtime_surface">>, <<"workspace", "runtime_workspace">>,
                <<"policy", "runtime_surface">>, <<"scope", "runtime_surface">>,
                <<"pressure", "runtime_surface">>>>
        f[k \in 0..Len(of)] ==
            IF k = 0 THEN q
            ELSE IF Texts(last, of[k][1]) = {} THEN f[k - 1]
            ELSE AppendSources(f[k - 1], <<of[k][2]>>, Texts(last, of[k][1]))
    IN  IF surfaces = {} THEN q ELSE f[Len(of)]

\* Only a turn.end tells how the task stands.
TaskStatus(reason) ==
    CASE reason \in {"completed", "cancelled"} -> reason
      [] reason = "max_turns" -> "blocked" [] reason = "error" -> "failed"
      [] OTHER -> "unknown"

\* The latest request that says anything.
TaskRequest(t) ==
    LET users == Of(t, "user.message")
        last == IF users = {} THEN Nothing ELSE t.events[LastOf(users)]
        source == IF users = {} THEN ""
                  ELSE DefaultText(Texts(last, "Source"), "user")
    IN  [mode |-> IF users = {} THEN ""
                  ELSE DefaultText(Texts(last, "Mode"), "normal"),
         source |-> source,
         kind |-> DefaultText(Texts(last, "ScheduleKind"),
                      IF source = "schedule" THEN "custom" ELSE ""),
         id |-> DefaultText(Texts(last, "ScheduleID"), "")]

\* What is left to do is what a guard or a decision asked for last.
NextStep(t, st) ==
    LET asked(type) == {i \in Of(t, type) : Texts(t.events[i], "RequiredAction") # {}}
        of(type) == Texts(t.events[LastOf(asked(type))], "RequiredAction")
    IN  IF asked("message.rejected") # {} THEN of("message.rejected")
        ELSE IF asked("loop.decision") # {} THEN of("loop.decision")
        ELSE IF /\ st.failures # <<>> /\ st.verification # "last_shell_passed"
                /\ st.status # "completed"
             THEN {"latest failed action is unresolved"}
        ELSE {}

DeriveTaskState(t) ==
    LET early == EventEvidence(t, "context.compaction_skipped",
                    EventEvidence(t, "context.compacted",
                        SurfaceEvidence(t, EventEvidence(t, "context.injected",
                                                         <<>>))))
        after[k \in 0..Len(t.tools)] ==
            IF k = 0
            THEN TaskRequest(t) @@
                 [status |-> TaskStatus(t.reason), verification |-> "unknown",
                  actions |-> <<>>, files |-> <<>>, failures |-> <<>>,
                  evidence |-> early]
            ELSE AfterCall(after[k - 1], t.tools[k])
        last == after[Len(t.tools)]
    IN  last @@ [next |-> NextStep(t, last)]

WithState(t) == t @@ [state |-> DeriveTaskState(t)]

\* The batch reads the whole file at once; a line it cannot parse ends it.
ParseTraceFile(lines) ==
    LET read[k \in 0..Len(lines)] ==
            IF k = 0 THEN EmptyTrace ELSE ApplyTraceEvent(read[k - 1], lines[k], 0)
    IN  read[Len(lines)]

\* The in-process runner drains one turn at a time, its pending calls anew.
DrainTraces(events) ==
    LET read[k \in 0..Len(events)] ==
            IF k = 0 THEN EmptyTrace
            ELSE LET t == ApplyTraceEvent(read[k - 1], events[k], events[k].turn)
                 IN  IF events[k].type = "turn.end"
                     THEN [t EXCEPT !.pending = <<>>] ELSE t
    IN  read[Len(events)]

-----------------------------------------------------------------------------
\* One process per prompt.

Init ==
    /\ scenario \in Scenarios
    /\ prompt = 0 /\ phase = "exited" /\ resumed = FALSE
    /\ emitted = <<>> /\ unread = <<>> /\ file = <<>> /\ exits = <<>>
    /\ expired = FALSE /\ verdict = "open"

Judged == verdict # "open"
AllStarted == prompt = scenario.Prompts

\* A prompt is started when the one before has exited, whatever its code.
\* A session that exists is resumed and its trace appended to; otherwise
\* the file is truncated and begins with its meta line.
StartPrompt ==
    /\ phase = "exited" /\ ~expired /\ ~Judged /\ ~AllStarted
    /\ prompt' = prompt + 1 /\ phase' = "run" /\ resumed' = TRUE
    /\ LET user == [Nothing EXCEPT !.type = "user.message", !.turn = prompt + 1]
       IN  emitted' = Append(emitted, user) /\ unread' = <<user>>
    /\ file' = IF resumed THEN file
               ELSE <<[Nothing EXCEPT !.type = "trace.meta"]>>
    /\ UNCHANGED <<scenario, exits, expired, verdict>>

Emit(e) ==
    /\ emitted' = Append(emitted, [e EXCEPT !.turn = prompt])
    /\ unread' = Append(unread, [e EXCEPT !.turn = prompt])

Members(type) == {i \in DOMAIN emitted : emitted[i].type = type}
Numbered(type) == {emitted[i].call : i \in Members(type)}
RequestOf(k) ==
    emitted[CHOOSE i \in Members("tool.request") : emitted[i].call = k]
OpenCalls == {k \in Numbered("tool.request") \ Numbered("tool.result") :
                 RequestOf(k).turn = prompt}

Request(a, id) ==
    /\ phase = "run" /\ Cardinality(Numbered("tool.request")) < MaxCalls
    /\ Reuse \/ \A k \in OpenCalls : RequestOf(k).id # id
    /\ Emit([Nothing EXCEPT !.type = "tool.request", !.id = id, !.tool = a.tool,
                !.args = a.args,
                !.call = Cardinality(Numbered("tool.request")) + 1])
    /\ UNCHANGED <<scenario, prompt, phase, resumed, file, exits, expired,
                   verdict>>

Result(k, a) ==
    /\ phase = "run" /\ k \in OpenCalls
    /\ RequestOf(k).tool = a.tool /\ RequestOf(k).args = a.args
    /\ Emit([Nothing EXCEPT !.type = "tool.result", !.id = RequestOf(k).id,
                !.call = k, !.result = a.result, !.exit = a.exit,
                !.kinds = a.kinds, !.is = a.is, !.n = a.n])
    /\ UNCHANGED <<scenario, prompt, phase, resumed, file, exits, expired,
                   verdict>>

Note(e) ==
    /\ phase = "run"
    /\ Cardinality({i \in DOMAIN emitted : \E x \in Notes :
                       x.type = emitted[i].type}) < MaxNotes
    /\ Emit([Nothing EXCEPT !.type = e.type, !.is = e.is, !.n = e.n])
    /\ UNCHANGED <<scenario, prompt, phase, resumed, file, exits, expired,
                   verdict>>

\* The counters of the turn that ends.
TurnResults == {i \in Members("tool.result") : emitted[i].turn = prompt}
TurnStats ==
    [tool_requests |-> Cardinality({i \in Members("tool.request") :
                                       emitted[i].turn = prompt}),
     tool_errors   |-> Cardinality({i \in TurnResults : emitted[i].exit # 0})]
TurnFailures ==
    [k \in UNION {emitted[i].kinds : i \in TurnResults} |->
        Cardinality({i \in TurnResults : k \in emitted[i].kinds})]

\* A turn ends with its calls answered; a turn that completes says something.
EndTurn(reason, final) ==
    /\ phase = "run" /\ OpenCalls = {}
    /\ LET said == [Nothing EXCEPT !.type = "message.done", !.result = final,
                        !.turn = prompt]
           end == [Nothing EXCEPT !.type = "turn.end", !.reason = reason,
                       !.stats = TurnStats, !.n = TurnFailures, !.turn = prompt]
           more == IF reason = "completed" THEN <<said, end>> ELSE <<end>>
       IN  emitted' = emitted \o more /\ unread' = unread \o more
    /\ phase' = "end"
    /\ UNCHANGED <<scenario, prompt, resumed, file, exits, expired, verdict>>

ExitCode(reason) ==
    CASE reason = "completed" -> 0 [] reason = "cancelled" -> 130
      [] reason = "max_turns" -> 2 [] OTHER -> 3

\* drainBatch writes every event up to turn.end, which ends the process.
WriteAll ==
    /\ phase = "end"
    /\ file' = file \o unread /\ unread' = <<>> /\ phase' = "exited"
    /\ exits' = Append(exits, ExitCode(unread[Len(unread)].reason))
    /\ UNCHANGED <<scenario, prompt, resumed, emitted, expired, verdict>>

\* The process dies, of its own or killed when the scenario's time is up.
\* Its first n events are in the file, and perhaps a part of the next.
Die(n, torn) ==
    /\ phase \in {"run", "end"} /\ n <= Len(unread)
    /\ (torn => n < Len(unread))
    /\ file' = file \o SubSeq(unread, 1, n) \o (IF torn THEN <<Torn>> ELSE <<>>)
    /\ unread' = <<>> /\ phase' = "exited" /\ exits' = Append(exits, 1)
    /\ UNCHANGED <<scenario, prompt, resumed, emitted, verdict>>

Crash(n, torn) == Crashes /\ Die(n, torn) /\ UNCHANGED expired
Expire(n, torn) == Timeouts /\ Die(n, torn) /\ expired' = TRUE

\* The failure of a prompt that is not the last is not reported.
RunFailures ==
    IF expired \/ (exits # <<>> /\ exits[Len(exits)] # 0)
    THEN {"affentctl run failed"} ELSE {}
TraceFailures ==
    LET t == ParseTraceFile(file)
    IN  IF t.bad THEN {"parse trace"}
        ELSE IF CheckBatchTrace(scenario, WithState(t)) THEN {} ELSE {"checks"}

\* BatchRunner.Run after runAffentctl has returned.
Judge ==
    /\ phase = "exited" /\ ~Judged /\ (AllStarted \/ expired) /\ prompt > 0
    /\ verdict' = IF RunFailures \cup TraceFailures = {} THEN "ok" ELSE "failed"
    /\ UNCHANGED <<scenario, prompt, phase, resumed, emitted, unread, file, exits,
                   expired>>

Next ==
    \/ StartPrompt \/ WriteAll \/ Judge
    \/ \E a \in Actions, id \in Ids : Request(a, id)
    \/ \E a \in Actions, k \in OpenCalls : Result(k, a)
    \/ \E e \in Notes : Note(e)
    \/ \E final \in Finals : EndTurn("completed", final)
    \/ \E reason \in Reasons : EndTurn(reason, {})
    \/ \E n \in 0..Len(unread), torn \in BOOLEAN :
        Crash(n, torn) \/ Expire(n, torn)

Spec == Init /\ [][Next]_vars

\* The run of a scenario is over when it is judged.
Over == Judged

-----------------------------------------------------------------------------
\* What really happened, from the events the loop emitted.

TrueCall(k) ==
    LET answers == {i \in Members("tool.result") : emitted[i].call = k}
    IN  IF answers = {} THEN NewCall(RequestOf(k))
        ELSE Answered(NewCall(RequestOf(k)), emitted[FirstOf(answers)])
TrueTools == [k \in Numbered("tool.request") |-> TrueCall(k)]
Died == \E i \in DOMAIN exits : exits[i] = 1

\* A trace that lost nothing, read by a perfect reader.
TrueTrace ==
    LET ends == Members("turn.end")
        read == ParseTraceFile(emitted)
        stats[k \in 0..Len(emitted)] ==
            IF k = 0 THEN NoStats
            ELSE IF k \in ends THEN MergeStats(stats[k - 1], emitted[k].stats)
            ELSE stats[k - 1]
    IN  [events |-> read.events,
         tools |-> [k \in 1..Cardinality(Numbered("tool.request")) |-> TrueCall(k)],
         reason |-> IF ends = {} THEN "" ELSE emitted[LastOf(ends)].reason,
         final |-> IF Members("message.done") = {} THEN {}
                   ELSE emitted[LastOf(Members("message.done"))].result,
         usage |-> 0, stats |-> stats[Len(emitted)],
         failures |-> <<>>, repairs |-> <<>>]

TypeOK ==
    /\ scenario \in Scenarios /\ prompt \in 0..scenario.Prompts
    /\ phase \in {"run", "end", "exited"}
    /\ resumed \in BOOLEAN /\ expired \in BOOLEAN
    /\ verdict \in {"open", "ok", "failed"}
    /\ Len(exits) \in {prompt, prompt - 1}

\* An upper limit or an order cannot be judged on a trace that lost its end,
\* and a call whose result is lost passes for one that succeeded and is
\* evidence. The rest of what must have happened can.
OnlyMinimums(s) ==
    [s EXCEPT !.ForbiddenTools = {}, !.ForbiddenFinalText = {},
              !.ForbiddenToolArgContains = {}, !.MaxToolArgContains = {},
              !.MaxToolFailureKindCounts = <<>>, !.RequiredToolOrder = {},
              !.MaxParentToolCalls = 0, !.MaxSuccessfulToolCallsByTool = <<>>,
              !.ForbiddenCommands = {}, !.ProtectedFiles = {},
              !.RequiredCommandAfterTool = {},
              !.RequiredTaskStateEvidence = {}]

\* A scenario passes only when its last process completed the turn and what
\* the scenario asks for did happen, though processes crash, a file loses
\* the end of a turn, and call ids come again.
VerdictEarned ==
    verdict = "ok" =>
        /\ ~expired /\ exits[Len(exits)] = 0
        /\ CheckBatchTrace(OnlyMinimums(scenario), WithState(TrueTrace))

\* With no process lost, the verdict is the one of a perfect reader.
VerdictFair ==
    Judged /\ ~Died =>
        (verdict = "ok" <=> /\ exits[Len(exits)] = 0
                            /\ CheckBatchTrace(scenario, WithState(TrueTrace)))

\* Every result in the file is with the request it answers.
ParsePairs ==
    Judged /\ ~Died => ParseTraceFile(file).tools = TrueTrace.tools

\* The task state says that the last verification passed exactly when it did,
\* and that the task is done exactly when the last turn completed; work that
\* failed is left to do unless one of the two holds.
StateTruthful ==
    Judged /\ ~Died =>
        LET st == DeriveTaskState(ParseTraceFile(file))
            tried == {k \in DOMAIN TrueTools : LooksLikeVerification(TrueTools[k])}
            passed == tried # {} /\ TrueTools[LastOf(tried)].exit = 0
            done == exits[Len(exits)] = 0
        IN  /\ (st.verification = "last_shell_passed") = passed
            /\ (st.status = "completed") = done
            /\ (\E k \in DOMAIN TrueTools : CallFailed(TrueTools[k])) =>
                passed \/ done \/ st.next # {}

\* The batch and the in-process runner read the same calls, final text and
\* end of the turn.
RunnersAgree ==
    Judged /\ ~Died =>
        LET batch == ParseTraceFile(file)
            runner == DrainTraces(emitted)
        IN  /\ batch.tools = runner.tools /\ batch.final = runner.final
            /\ batch.reason = runner.reason

=============================================================================
