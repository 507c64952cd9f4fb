----------------------------- MODULE VerifyGuard -----------------------------
(***************************************************************************)
(* The completion guard that wants a test run after the last edit          *)
(* (workspace_verification_guard.go), in the loop that asks it             *)
(* (Loop.runTurn).  The guard sees the tool messages of the conversation;  *)
(* the model keeps with each of them whether the tool really ran.          *)
(***************************************************************************)
EXTENDS Naturals, Sequences

CONSTANTS MaxTurns,    \* turns of the session
          MaxCalls,    \* tool calls per turn
          Skips,       \* calls may be refused or skipped by the runtime
          Recovers,    \* an answer may be truncated or mere narration
          Compacts     \* old messages may be compacted away

VerifyGuardAssumption ==
    /\ MaxTurns \in Nat /\ MaxCalls \in Nat
    /\ {Skips, Recovers, Compacts} \subseteq BOOLEAN

VARIABLES log,           \* the tool messages of the conversation
          turn, calls,   \* the turn, and its tool calls so far
          phase,         \* running, or how the turn ended
          interventions, \* completionGuardInterventions
          blocked,       \* the guard's answer to the last final message
          did            \* what this turn really did: edits and test runs

vars == <<log, turn, calls, phase, interventions, blocked, did>>

Init ==
    /\ log = <<>> /\ turn = 1 /\ calls = 0 /\ phase = "running"
    /\ interventions = 0 /\ blocked = FALSE /\ did = <<>>

maxCompletionGuardInterventions == 2

\* A tool message: what was called and what its content says.  "failed" is
\* an Error: of the dispatcher; a call that was refused by a guard or skipped
\* by the runtime has a text of its own that does not begin that way.
Message(what, outcome) == [what |-> what, outcome |-> outcome]

Outcomes == {"ok", "failed"} \union (IF Skips THEN {"skipped"} ELSE {})

Call(what, outcome) ==
    /\ phase = "running" /\ calls < MaxCalls
    /\ calls' = calls + 1
    /\ log' = Append(log, Message(what, outcome))
    /\ did' = IF outcome = "skipped" \/ (what # "verify" /\ outcome = "failed")
              THEN did ELSE Append(did, what)
    /\ blocked' = FALSE
    /\ UNCHANGED <<turn, phase, interventions>>

\* Plausible bug: a failed edit is taken for one.
workspaceGuardToolResultFailedMutant(m) == m.outcome = "skipped"

workspaceGuardToolResultFailed(m) == m.outcome = "failed"

\* The last of the places, 0 for none.
Latest(hits) == IF hits = {} THEN 0 ELSE CHOOSE i \in hits : \A j \in hits : j <= i

Edits(msgs) ==
    {i \in DOMAIN msgs : msgs[i].what = "edit" /\ ~workspaceGuardToolResultFailed(msgs[i])}
Tests(msgs) == {i \in DOMAIN msgs : msgs[i].what = "verify"}

\* workspaceVerificationFreshnessFromMessages: the last edit of a source
\* file that did not fail against the last test command, whatever its result.
freshness(msgs) ==
    LET mutation == Latest(Edits(msgs))
        verification == Latest(Tests(msgs))
    IN verification # 0 /\ mutation # 0 /\ mutation > verification

(***************************************************************************)
(* A message without tool calls.  A truncated answer, or one that only     *)
(* narrates, is asked for once more without tools and then accepted.       *)
(***************************************************************************)
Finish ==
    /\ phase = "running"
    /\ blocked' = freshness(log)
    /\ IF blocked'
         THEN /\ interventions' = interventions + 1
              /\ phase' = IF interventions' > maxCompletionGuardInterventions
                          THEN "max_turns" ELSE phase
         ELSE phase' = "completed" /\ UNCHANGED interventions
    /\ UNCHANGED <<log, turn, calls, did>>

Recover ==
    /\ Recovers /\ phase = "running" /\ calls > 0
    /\ phase' = "completed"
    /\ UNCHANGED <<log, turn, calls, interventions, blocked, did>>

NextTurn ==
    /\ phase # "running" /\ turn < MaxTurns
    /\ turn' = turn + 1 /\ phase' = "running"
    /\ calls' = 0 /\ interventions' = 0 /\ blocked' = FALSE /\ did' = <<>>
    /\ UNCHANGED log

\* Compaction replaces a prefix of the conversation by a summary.
Compact ==
    /\ Compacts /\ phase = "running"
    /\ \E k \in 1..Len(log) : log' = SubSeq(log, k + 1, Len(log))
    /\ UNCHANGED <<turn, calls, phase, interventions, blocked, did>>

Done == phase # "running" /\ turn = MaxTurns /\ UNCHANGED vars

Next ==
    \/ \E what \in {"edit", "docs", "verify"}, outcome \in Outcomes : Call(what, outcome)
    \/ Finish
    \/ Recover
    \/ NextTurn
    \/ Compact
    \/ Done

Spec == Init /\ [][Next]_vars

\* The model answers in the end; it need not call tools.
FairSpec == Spec /\ WF_vars(Finish)

-----------------------------------------------------------------------------
\* This turn ran a test and edited a source file after its last test.
StaleNow ==
    LET edit == Latest({i \in DOMAIN did : did[i] = "edit"})
        test == Latest({i \in DOMAIN did : did[i] = "verify"})
    IN test # 0 /\ edit > test

\* What the guard is for (workspace_verification_guard.go:17): no final answer
\* is accepted in a turn that edited a source file after its last test run.
StaleNeverAccepted == phase = "completed" => ~StaleNow

\* The guard blocks "when a turn has already entered a verification workflow,
\* then performs another source mutation": a blocked answer belongs to such a
\* turn.
BlockJustified == blocked => StaleNow

\* A guard that goes on blocking ends the turn instead of trapping it.
Spent == phase = "running" /\ calls = MaxCalls

Answers == phase # "running"

NeverTrapped == Spent ~> Answers
==============================================================================
