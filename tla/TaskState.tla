------------------------------ MODULE TaskState ------------------------------
(***************************************************************************)
(* The task state of a session: a snapshot that is never stored but folded *)
(* from events.jsonl each time it is asked for, over at most the last      *)
(* maxSessionSummaryTailBytes of the file, with every list of the snapshot *)
(* capped.  It tells an operator, and through TaskStateProvider the next   *)
(* turn of the model, what was tried and what is still open.               *)
(*                                                                         *)
(* The state of the specification is the log.  An event keeps the fields   *)
(* that decide something; a tool call is named by what it does.  Loop      *)
(* publishes the request of a call, then its result, before the next call. *)
(***************************************************************************)
EXTENDS Naturals, Sequences, FiniteSets, SequencesExt

CONSTANTS
    Calls,          \* the calls the model may make, a subset of AllCalls
    Sources,        \* who may start a turn: "user", "schedule"
    Rejections,     \* may a completion guard reject an answer
    Surfaces,       \* may a turn publish its runtime surface
    MaxItems,       \* sessionTaskStateMaxItems
    TailEvents,     \* events that fit in the tail that is read
    MaxEvents       \* bound on the length of the log

TaskBounds == MaxItems \in Nat \ {0} /\ TailEvents \in Nat /\ MaxEvents \in Nat

VARIABLES
    log,        \* events.jsonl
    open        \* what the turn in flight waits for: nothing, or a call

vars == <<log, open>>

None == "none"
Idle == "idle"

\* A call: the tool, its retention rank, whether it is a verification
\* command, and the sources of the evidence a success leaves.
AllCalls ==
    [ test   |-> [tool |-> "shell",     verifies |-> TRUE,  evidence |-> <<"shell">>],
      commit |-> [tool |-> "shell",     verifies |-> FALSE, evidence |-> <<"shell", "git_commit">>],
      memory |-> [tool |-> "memory",    verifies |-> FALSE, evidence |-> <<"memory_update", "memory">>],
      plan   |-> [tool |-> "plan",      verifies |-> FALSE, evidence |-> <<"plan">>],
      edit   |-> [tool |-> "edit_file", verifies |-> FALSE, evidence |-> <<>>],
      read   |-> [tool |-> "read_file", verifies |-> FALSE, evidence |-> <<>>] ]

ActionRetentionRank ==
    [commit |-> 100, test |-> 90, plan |-> 80, memory |-> 80, edit |-> 70, read |-> 40]

Fail == "fail"
Ok == "ok"

-----------------------------------------------------------------------------
(* The fold.                                                               *)

Empty == [objective |-> None, latest |-> None, actions |-> <<>>, failures |-> <<>>,
          evidence |-> <<>>, verification |-> "unknown", questions |-> {}, status |-> None]

\* removeLowestValueAction: the first of the actions of the lowest rank.
removeLowestValueAction(as) ==
    LET low == {i \in DOMAIN as : \A j \in DOMAIN as :
                    ActionRetentionRank[as[i]] <= ActionRetentionRank[as[j]]}
    IN  RemoveAt(as, CHOOSE i \in low : \A j \in low : i <= j)

AppendAction(as, a) ==
    LET more == as \o <<a>>
    IN  IF \E i \in DOMAIN as : as[i] = a THEN as
        ELSE IF Len(more) <= MaxItems THEN more ELSE removeLowestValueAction(more)

\* removeOldestRepeatedEvidenceSource: the first item whose source occurs
\* twice, or else the first item.
removeOldestRepeatedEvidenceSource(es) ==
    LET twice == {i \in DOMAIN es : \E j \in DOMAIN es : j # i /\ es[j] = es[i]}
    IN  RemoveAt(es, IF twice = {} THEN 1 ELSE CHOOSE i \in twice : \A j \in twice : i <= j)

appendEvidence(es, source) ==
    (IF Len(es) >= MaxItems THEN removeOldestRepeatedEvidenceSource(es) ELSE es) \o <<source>>

appendFailure(fs, c) == (IF Len(fs) >= MaxItems THEN Tail(fs) ELSE fs) \o <<c>>

statusFromTurnEnd ==
    [completed |-> "completed", cancelled |-> "cancelled", max_turns |-> "blocked", error |-> "failed"]

\* A result whose request is not in the part of the log that was read: its
\* tool is unknown, so it is no verification and leaves no evidence.
ResultSeen(s, c) ==
    IF c.outcome = Fail THEN [s EXCEPT !.failures = appendFailure(@, "tool")] ELSE s

\* The result of a request that was read.
ResultOf(s, c) ==
    LET a == AllCalls[c.call]
    IN  IF c.outcome = Fail
        THEN [s EXCEPT !.failures = appendFailure(@, c.call),
                       !.verification = IF a.verifies THEN "failed" ELSE @]
        ELSE [s EXCEPT !.verification = IF a.verifies THEN "last_shell_passed" ELSE @,
                       !.evidence = FoldLeft(appendEvidence, @, a.evidence)]

\* One event; "asked" is the request just before it in what is read.
Applied(s, e, asked) ==
    CASE e.type = "user.message" ->
            [s EXCEPT !.latest = e.source,
                      !.objective = IF @ = None THEN e.source ELSE @]
      [] e.type = "runtime.surface" ->
            [s EXCEPT !.evidence = appendEvidence(@, "runtime_surface")]
      [] e.type = "tool.request" -> [s EXCEPT !.actions = AppendAction(@, e.call)]
      [] e.type = "tool.result" -> IF asked THEN ResultOf(s, e) ELSE ResultSeen(s, e)
      [] e.type = "message.rejected" -> [s EXCEPT !.questions = @ \cup {"required_action"}]
      [] e.type = "turn.end" -> [s EXCEPT !.status = statusFromTurnEnd[e.reason]]

\* ScanEvents over a part of the log.
ScanEvents(events) ==
    FoldLeft(LAMBDA s, i : Applied(s, events[i], i > 1 /\ events[i - 1].type = "tool.request"),
             Empty, [i \in DOMAIN events |-> i])

\* seekSessionSummaryTail: the last events, from a line boundary.
TailOf(events) ==
    IF Len(events) <= TailEvents THEN events
    ELSE SubSeq(events, Len(events) - TailEvents + 1, Len(events))

Snapshot == ScanEvents(TailOf(log))

\* NextStep is given: a question, or a failure that no later passing
\* verification covers.
HasNextStep(s) ==
    \/ s.questions # {}
    \/ s.failures # <<>> /\ s.verification # "last_shell_passed"

\* sessionTaskStateNeedsContext: the next turn is told.
NeedsContext(s) ==
    \/ HasNextStep(s)
    \/ s.verification = "failed"
    \/ s.status \in {"failed", "blocked", "cancelled"}

-----------------------------------------------------------------------------
(* The turns that write the log.                                           *)

Room(n) == Len(log) + n <= MaxEvents
Write(e) == log' = log \o <<e>>

StartTurn(source) ==
    /\ open = Idle /\ Room(1)
    /\ Write([type |-> "user.message", source |-> source])
    /\ open' = None

PublishSurface ==
    /\ Surfaces /\ open = None /\ Room(1)
    /\ Write([type |-> "runtime.surface"])
    /\ UNCHANGED open

Request(c) ==
    /\ open = None /\ Room(1)
    /\ Write([type |-> "tool.request", call |-> c])
    /\ open' = c

Result(outcome) ==
    /\ open \notin {None, Idle} /\ Room(1)
    /\ Write([type |-> "tool.result", call |-> open, outcome |-> outcome])
    /\ open' = None

Reject ==
    /\ Rejections /\ open = None /\ Room(1)
    /\ Write([type |-> "message.rejected"])
    /\ UNCHANGED open

EndTurn(reason) ==
    /\ open = None /\ Room(1)
    /\ Write([type |-> "turn.end", reason |-> reason])
    /\ open' = Idle

\* The process dies in a turn; after the restart the next turn is appended.
Crash ==
    /\ open # Idle
    /\ open' = Idle
    /\ UNCHANGED log

Init == log = <<>> /\ open = Idle

Next ==
    \/ \E s \in Sources : StartTurn(s)
    \/ PublishSurface
    \/ \E c \in Calls : Request(c)
    \/ \E o \in {Ok, Fail} : Result(o)
    \/ Reject
    \/ \E r \in DOMAIN statusFromTurnEnd : EndTurn(r)
    \/ Crash

Spec == Init /\ [][Next]_vars

-----------------------------------------------------------------------------
Indexes(type) == {i \in DOMAIN log : log[i].type = type}
LastOf(S) == CHOOSE i \in S : \A j \in S : j <= i

Verifications == {i \in Indexes("tool.result") : AllCalls[log[i].call].verifies}

\* However little of the log is read, the snapshot never reports another
\* outcome than that of the last verification that was run.
VerificationNeverWrong ==
    \/ Snapshot.verification = "unknown"
    \/ /\ Verifications # {}
       /\ Snapshot.verification =
              IF log[LastOf(Verifications)].outcome = Ok THEN "last_shell_passed" ELSE "failed"

\* The list of actions holds the most valuable ones of the part that is read:
\* none was pushed out by an action of a lower rank, in any order of calls.
BestActionsKept ==
    LET seen == {TailOf(log)[i].call :
                     i \in {j \in DOMAIN TailOf(log) : TailOf(log)[j].type = "tool.request"}}
        kept == ToSet(Snapshot.actions)
    IN  \A a \in seen \ kept : \A k \in kept : ActionRetentionRank[k] >= ActionRetentionRank[a]

\* A turn that was interrupted, and a verification that failed, are always
\* brought to the attention of the next turn.
SetbackReported ==
    /\ Indexes("turn.end") # {} /\ log[LastOf(Indexes("turn.end"))].reason # "completed"
           /\ LastOf(Indexes("turn.end")) > Len(log) - TailEvents => NeedsContext(Snapshot)
    /\ Verifications # {} /\ log[LastOf(Verifications)].outcome = Fail
           /\ LastOf(Verifications) > Len(log) - TailEvents => NeedsContext(Snapshot)

\* As long as no more sources occurred than the list has room for, every one
\* of them is represented.
SourcesRepresented ==
    LET all == ScanEvents(TailOf(log)).evidence
        results == {i \in DOMAIN TailOf(log) : TailOf(log)[i].type = "tool.result" /\ TailOf(log)[i].outcome = Ok
                        /\ i > 1}
        seen == UNION {ToSet(AllCalls[TailOf(log)[i].call].evidence) : i \in results}
                \cup (IF \E i \in DOMAIN TailOf(log) : TailOf(log)[i].type = "runtime.surface"
                      THEN {"runtime_surface"} ELSE {})
    IN  Cardinality(seen) <= MaxItems => seen \subseteq ToSet(all)

\* The objective stays the first request of the session.
ObjectiveKept ==
    Indexes("user.message") # {} /\ Snapshot.objective # None =>
        Snapshot.objective = log[CHOOSE i \in Indexes("user.message") :
                                     \A j \in Indexes("user.message") : i <= j].source

\* The next turn is told only of what is unresolved: not when the last turn
\* completed, nothing was rejected in it and the last verification passed.
Resolved ==
    LET last == LastOf(Indexes("user.message"))
    IN  /\ Indexes("user.message") # {}
        /\ open = Idle
        /\ log[Len(log)] = [type |-> "turn.end", reason |-> "completed"]
        /\ \A i \in DOMAIN log : i > last => log[i].type # "message.rejected"
        /\ Verifications # {} /\ log[LastOf(Verifications)].outcome = Ok
        /\ LastOf(Verifications) > last

OnlyUnresolvedInjected == Resolved => ~NeedsContext(Snapshot)
=============================================================================
