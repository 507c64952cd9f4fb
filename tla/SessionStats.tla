---------------------------- MODULE SessionStats ----------------------------
(***************************************************************************)
(* The counters of a session (observeForStats and seedStatsFromEventsFile  *)
(* of cmd/affentserve/sessions.go, the scans of sessions_api.go) and the   *)
(* compaction window the loop restores from them.                          *)
(*                                                                         *)
(* Every event is written to events.jsonl and counted as it passes.  A     *)
(* session that leaves the pool loses its counters; the next one seeds     *)
(* them by scanning the tail of the file.  Two pieces of code therefore    *)
(* compute the same numbers, one event at a time and from the file, and    *)
(* an operator is shown whichever holds more evidence.                     *)
(***************************************************************************)
EXTENDS Integers, Sequences, FiniteSets, FiniteSetsExt, TLC

CONSTANTS
    Calls,      \* the ids of tool calls
    Reuse,      \* whether a model uses the id of an earlier turn's call again
    Types,      \* the events that happen in this instance
    TailLines,  \* lines the summary scans read (maxSessionSummaryTailBytes)
    MaxEvents,  \* bound: events of a behaviour
    MaxLost     \* bound: events whose trace line could not be written

StatsAssumption ==
    /\ TailLines \in Nat \ {0} /\ MaxEvents \in Nat /\ MaxLost \in Nat
    /\ Types \subseteq {"usage", "tools", "command", "error", "window"}

VARIABLES
    file,    \* the lines of events.jsonl
    live,    \* the counters of the session in the pool, and its last window
    pend,    \* toolGovernanceCallsByID: the class of every call not answered
    window,  \* autoCompactWindow of the loop: its ordinal and whether observed
    turn,    \* "none", "loop" or "command"; "down" when no session is in the pool
    open,    \* the calls of the running turn without a result, and their classes
    fails,   \* tool failures of the running turn, for its turn.end
    lost     \* events counted and not written

vars == <<file, live, pend, window, turn, open, fails, lost>>

\* What is counted.  "failed" is ToolFailureByKind for one kind of failure.
UsageCounters == {"tokens", "turns"}
ToolCounters == {"plan calls", "plan errors", "task calls", "task errors", "tool errors", "failed"}
RuntimeCounters == {"completed", "ended in error", "runtime errors", "compactions"}
Counters == UsageCounters \cup ToolCounters \cup RuntimeCounters

NoWindow == [n |-> 0, observed |-> FALSE]
Zero == [c \in Counters |-> 0]
NoStats == [count |-> Zero, window |-> NoWindow]

Plus(a, b) == [c \in Counters |-> a[c] + b[c]]
One(cs) == [c \in Counters |-> IF c \in cs THEN 1 ELSE 0]

-----------------------------------------------------------------------------
(* What one event adds.                                                    *)

\* The class of a call: plan, focused task, or nothing that is governed.
Classes == {"plan", "task", "none"}
CallCounter(class) == IF class = "plan" THEN "plan calls" ELSE "task calls"
ErrorCounter(class) == IF class = "plan" THEN "plan errors" ELSE "task errors"

\* classifySessionToolGovernanceResult: only a delegation names its class; any
\* other result has the class of its request, when that is known.
ClassOfResult(ev, pending) ==
    IF ev.class # "none" THEN ev.class
    ELSE IF ev.id \in DOMAIN pending THEN pending[ev.id] ELSE "none"

AddGovernanceRequest(ev) == IF ev.class = "none" THEN Zero ELSE One({CallCounter(ev.class)})

AddGovernanceResult(ev, pending) ==
    LET class == ClassOfResult(ev, pending)
    IN  IF class = "none" \/ ~ev.bad THEN Zero ELSE One({ErrorCounter(class)})

\* turn.end: one more turn, its reason, and the tool statistics it carries.
AddToolStats(ev) == [Zero EXCEPT !["tool errors"] = ev.errors, !["failed"] = ev.failed]

AddTurnEnd(ev) ==
    Plus(One({"turns", IF ev.reason = "completed" THEN "completed" ELSE "ended in error"}),
         AddToolStats(ev))

AddUsage(ev) == [Zero EXCEPT !["tokens"] = ev.tokens]
AddError(ev) == One({"runtime errors"})
AddCompaction(ev) == One({"compactions"})

\* A compaction always replaces the window shown last, a runtime.surface only
\* when it carries one.
HasWindow(ev) == ev.window.n > 0

Observe(s, pending, ev) ==
    CASE ev.type = "usage"        -> [s EXCEPT !.count = Plus(@, AddUsage(ev))]
      [] ev.type = "tool.request" -> [s EXCEPT !.count = Plus(@, AddGovernanceRequest(ev))]
      [] ev.type = "tool.result"  -> [s EXCEPT !.count = Plus(@, AddGovernanceResult(ev, pending))]
      [] ev.type = "turn.end"     -> [s EXCEPT !.count = Plus(@, AddTurnEnd(ev))]
      [] ev.type = "error"        -> [s EXCEPT !.count = Plus(@, AddError(ev))]
      [] ev.type = "compacted"    -> [count |-> Plus(s.count, AddCompaction(ev)), window |-> ev.window]
      [] ev.type = "surface"      -> [s EXCEPT !.window = IF HasWindow(ev) THEN ev.window ELSE @]

\* The calls waiting for their result: a request of a governed class enters its
\* id, a result takes it out.
Pending(pending, ev) ==
    CASE ev.type = "tool.request" /\ ev.class # "none" ->
            [i \in DOMAIN pending \cup {ev.id} |-> IF i = ev.id THEN ev.class ELSE pending[i]]
      [] ev.type = "tool.result" -> [i \in DOMAIN pending \ {ev.id} |-> pending[i]]
      [] OTHER -> pending

-----------------------------------------------------------------------------
(* The same numbers from the file.                                         *)

\* seekSessionSummaryTail: the last lines only.
TailOf(lines) == IF Len(lines) <= TailLines THEN lines ELSE SubSeq(lines, Len(lines) - TailLines + 1, Len(lines))

Lines(t, type) == {i \in DOMAIN t : t[i].type = type}

\* The sum of f over ls.
Total(ls, f) == Cardinality(UNION {{i} \X (1 .. f[i]) : i \in ls})

\* scanUsageFromEvents
ScanUsage(t) ==
    "tokens" :> Total(Lines(t, "usage"), [i \in Lines(t, "usage") |-> t[i].tokens])
    @@ "turns" :> Cardinality(Lines(t, "turn.end"))

\* The class a result is counted under: its delegation's, else that of the last
\* governed request with its id, unless a result took that one out before.
ClassAt(t, i) ==
    LET same == {j \in 1 .. (i - 1) :
                   \/ t[j].type = "tool.result" /\ t[j].id = t[i].id
                   \/ t[j].type = "tool.request" /\ t[j].id = t[i].id /\ t[j].class # "none"}
    IN  IF t[i].class # "none" THEN t[i].class
        ELSE IF same = {} \/ t[Max(same)].type = "tool.result" THEN "none"
        ELSE t[Max(same)].class

\* Mutant: the failures of the results are added to those of the turns.
ScanToolsMutant(t) ==
    LET calls(c) == Cardinality({i \in Lines(t, "tool.request") : t[i].class = c})
        bad      == {i \in Lines(t, "tool.result") : t[i].bad}
        errs(c)  == Cardinality({i \in bad : ClassAt(t, i) = c})
        ends     == Lines(t, "turn.end")
    IN  "plan calls" :> calls("plan") @@ "plan errors" :> errs("plan")
        @@ "task calls" :> calls("task") @@ "task errors" :> errs("task")
        @@ "tool errors" :> Total(ends, [i \in ends |-> t[i].errors])
        @@ "failed" :> Cardinality(bad) + Total(ends, [i \in ends |-> t[i].failed])

\* scanToolStatsFromEvents: requests and results are paired by their ids, the
\* statistics of every turn.end are summed, and the failures of the results are
\* taken instead when there are more of them (mergeMaxToolFailureKinds).
ScanTools(t) ==
    LET calls(c) == Cardinality({i \in Lines(t, "tool.request") : t[i].class = c})
        bad      == {i \in Lines(t, "tool.result") : t[i].bad}
        errs(c)  == Cardinality({i \in bad : ClassAt(t, i) = c})
        ends     == Lines(t, "turn.end")
        summed   == Total(ends, [i \in ends |-> t[i].failed])
    IN  "plan calls" :> calls("plan") @@ "plan errors" :> errs("plan")
        @@ "task calls" :> calls("task") @@ "task errors" :> errs("task")
        @@ "tool errors" :> Total(ends, [i \in ends |-> t[i].errors])
        @@ "failed" :> Max({Cardinality(bad), summed})

\* scanRuntimeStatsFromEvents
ScanRuntime(t) ==
    LET ended(good) == {i \in Lines(t, "turn.end") : (t[i].reason = "completed") = good}
    IN  "completed" :> Cardinality(ended(TRUE)) @@ "ended in error" :> Cardinality(ended(FALSE))
        @@ "runtime errors" :> Cardinality(Lines(t, "error"))
        @@ "compactions" :> Cardinality(Lines(t, "compacted"))

\* The window shown last.
ScanWindow(t) ==
    LET ws == Lines(t, "compacted") \cup {i \in Lines(t, "surface") : t[i].window.n > 0}
    IN  IF ws = {} THEN NoWindow ELSE t[Max(ws)].window

\* What summarizeDurableSession reads of the file.
Scan(lines) ==
    LET t == TailOf(lines)
    IN  [count  |-> ScanUsage(t) @@ ScanTools(t) @@ ScanRuntime(t),
         window |-> ScanWindow(t)]

\* A new session adds each of the three scans to its own counters, which are
\* still zero, and takes over the window when there was one.
AddUsageSnapshot(s, scan) ==
    [s EXCEPT !.count = [c \in Counters |-> @[c] + (IF c \in UsageCounters THEN scan.count[c] ELSE 0)]]

AddToolStatsSnapshot(s, scan) ==
    [s EXCEPT !.count = [c \in Counters |-> @[c] + (IF c \in ToolCounters THEN scan.count[c] ELSE 0)]]

AddRuntimeStatsSnapshot(s, scan) ==
    [count |-> [c \in Counters |-> s.count[c] + (IF c \in RuntimeCounters THEN scan.count[c] ELSE 0)],
     window |-> IF scan.count["compactions"] > 0 \/ scan.window.n > 0 THEN scan.window ELSE s.window]

SeedStats(s, lines) ==
    LET scan == Scan(lines)
    IN  AddRuntimeStatsSnapshot(AddToolStatsSnapshot(AddUsageSnapshot(s, scan), scan), scan)

\* autoCompactWindowStateFromStats
RestoredWindow(s) == IF s.window.n > 0 THEN s.window ELSE NoWindow

-----------------------------------------------------------------------------
(* The session.                                                            *)

\* dispatchSessionEvent: written, or not, and counted in either case.
Dispatch(ev) ==
    /\ Len(file) + lost < MaxEvents
    /\ \/ file' = Append(file, ev) /\ lost' = lost
       \/ lost < MaxLost /\ lost' = lost + 1 /\ file' = file
    /\ live' = Observe(live, pend, ev)
    /\ pend' = Pending(pend, ev)

\* A turn starts with a runtime.surface that carries the window.
Surface == [type |-> "surface", window |-> window]

StartTurn ==
    /\ turn = "none"
    /\ turn' = "loop" /\ fails' = 0
    /\ Dispatch(Surface)
    /\ UNCHANGED <<window, open>>

Usage ==
    /\ turn = "loop" /\ "usage" \in Types
    /\ Dispatch([type |-> "usage", tokens |-> 1])
    /\ UNCHANGED <<window, turn, open, fails>>

Used == {file[k].id : k \in Lines(file, "tool.request") \cup Lines(file, "tool.result")}

Request(i, class) ==
    /\ turn = "loop" /\ "tools" \in Types
    /\ i \notin DOMAIN open /\ (Reuse \/ i \notin Used)
    /\ Dispatch([type |-> "tool.request", id |-> i, class |-> class])
    /\ open' = [j \in DOMAIN open \cup {i} |-> IF j = i THEN class ELSE open[j]]
    /\ UNCHANGED <<window, turn, fails>>

\* The result of a focused task names its class again, that of a plan call does
\* not.
Result(i, bad) ==
    /\ turn = "loop" /\ i \in DOMAIN open
    /\ Dispatch([type |-> "tool.result", id |-> i, bad |-> bad,
                 class |-> IF open[i] = "task" THEN "task" ELSE "none"])
    /\ open' = [j \in DOMAIN open \ {i} |-> open[j]]
    /\ fails' = fails + (IF bad THEN 1 ELSE 0)
    /\ UNCHANGED <<window, turn>>

Error ==
    /\ turn = "loop" /\ "error" \in Types
    /\ Dispatch([type |-> "error"])
    /\ UNCHANGED <<window, turn, open, fails>>

\* startNextAutoCompactWindow, then context.compacted.
Compact ==
    /\ turn = "loop" /\ "window" \in Types
    /\ window' = [n |-> window.n + 1, observed |-> FALSE]
    /\ Dispatch([type |-> "compacted", window |-> window'])
    /\ UNCHANGED <<turn, open, fails>>

\* The provider's count replaces the estimate, once per window.
ObserveWindow ==
    /\ turn = "loop" /\ "window" \in Types
    /\ window.n > 0 /\ ~window.observed
    /\ window' = [window EXCEPT !.observed = TRUE]
    /\ Dispatch([type |-> "surface", window |-> window'])
    /\ UNCHANGED <<turn, open, fails>>

EndTurn(reason) ==
    /\ turn = "loop" /\ open = << >>
    /\ Dispatch([type |-> "turn.end", reason |-> reason, errors |-> fails, failed |-> fails])
    /\ turn' = "none" /\ fails' = 0
    /\ UNCHANGED <<window, open>>

\* A workbench command: its result carries the kinds of its failure, its
\* turn.end only the error.
Command(i, bad) ==
    /\ turn = "none" /\ "command" \in Types /\ i \notin Used
    /\ turn' = "command" /\ fails' = IF bad THEN 1 ELSE 0
    /\ Dispatch([type |-> "tool.result", id |-> i, class |-> "none", bad |-> bad])
    /\ UNCHANGED <<window, open>>

CommandEnd(reason) ==
    /\ turn = "command"
    /\ reason = "error" => fails = 1
    /\ Dispatch([type |-> "turn.end", reason |-> reason, errors |-> fails, failed |-> 0])
    /\ turn' = "none" /\ fails' = 0
    /\ UNCHANGED <<window, open>>

\* The session is evicted, or the process dies.
Leave ==
    /\ turn # "down"
    /\ turn' = "down"
    /\ live' = NoStats /\ pend' = << >> /\ window' = NoWindow /\ open' = << >> /\ fails' = 0
    /\ UNCHANGED <<file, lost>>

\* buildSession: the counters and the window come from the file.
Rebuild ==
    /\ turn = "down"
    /\ turn' = "none"
    /\ live' = SeedStats(live, file)
    /\ window' = RestoredWindow(live')
    /\ UNCHANGED <<file, pend, open, fails, lost>>

Init ==
    /\ file = << >> /\ live = NoStats /\ pend = << >> /\ window = NoWindow
    /\ turn = "none" /\ open = << >> /\ fails = 0 /\ lost = 0

Next ==
    \/ StartTurn \/ Usage \/ Error \/ Compact \/ ObserveWindow
    \/ \E i \in Calls :
         \/ \E c \in Classes : Request(i, c)
         \/ \E b \in BOOLEAN : Result(i, b) \/ Command(i, b)
    \/ \E r \in {"completed", "error"} : EndTurn(r) \/ CommandEnd(r)
    \/ Leave \/ Rebuild

Spec == Init /\ [][Next]_vars

-----------------------------------------------------------------------------
(* What an operator is shown.                                              *)

Evidence(count, group) == Total(group, count)

ShouldReplace(existing, incoming, group) == Evidence(incoming, group) > Evidence(existing, group)

\* summarizeSession: the numbers of the active session, each group replaced by
\* the file's where that holds more evidence (mergeSessionSummaries).
ShownOf(lines, counters, where) ==
    LET durable == Scan(lines).count
        pick(group) == IF where = "down" \/ ShouldReplace(counters, durable, group)
                       THEN [c \in group |-> durable[c]] ELSE [c \in group |-> counters[c]]
    IN  pick(UsageCounters) @@ pick(ToolCounters) @@ pick(RuntimeCounters)

\* With every line written and read, the counters of a session are those of its
\* file, across restarts; only the failures by kind may be
\* behind, until the turn has ended.
CountersAgree ==
    turn # "down" /\ lost = 0 /\ Len(file) <= TailLines =>
        LET scan == Scan(file)
        IN  /\ \A c \in Counters \ {"failed"} : live.count[c] = scan.count[c]
            /\ live.count["failed"] <= scan.count["failed"]
            /\ turn = "none" /\ "command" \notin Types =>
                   live.count["failed"] = scan.count["failed"]
            /\ live.window = scan.window

\* "so a resumed loop keeps measuring pressure relative to the last compacted
\* request baseline": the loop's window is the last one of the file.
WindowKept ==
    turn # "down" /\ lost = 0 /\ Len(file) <= TailLines => window = Scan(file).window

\* What is shown never falls, restarts and lost lines included, unless a line
\* that was counted is not in the file's tail.
ShownNeverFalls ==
    lost' = 0 /\ Len(file') <= TailLines =>
        \A before \in {ShownOf(file, live.count, turn)}, after \in {ShownOf(file', live'.count, turn')} :
            \A c \in Counters : after[c] >= before[c]

\* The failures agree too once nothing runs.
FailuresAgree ==
    turn = "none" /\ lost = 0 /\ Len(file) <= TailLines =>
        live.count["failed"] = Scan(file).count["failed"]
=============================================================================
