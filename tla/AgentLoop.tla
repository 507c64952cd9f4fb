----------------------------- MODULE AgentLoop -----------------------------
(***************************************************************************)
(* The goroutine that runs the turns of one session: Loop.runTurn and the  *)
(* functions it calls (internal/agent/loop.go).  A turn alternates between *)
(* calls of the model (runStep, with its retries and reactive compaction)  *)
(* and batches of tool calls, under the budgets of steps, tool calls and   *)
(* completion-guard interventions, and may be cancelled at any moment.     *)
(*                                                                         *)
(* The conversation log matters here through one thing: the provider       *)
(* rejects a request in which an assistant message with tool calls is not  *)
(* followed by exactly one tool message per call.  So the log is kept as   *)
(* the number of calls of its last message still without an answer, and    *)
(* whether anything earlier in it is unpaired.  What a tool does, what a   *)
(* message says, token counts and every published event except turn.end    *)
(* are data: where the code branches on them the model may go either way.  *)
(***************************************************************************)
EXTENDS Integers

CONSTANTS
    MaxBatch,       \* tool calls in one assistant message
    Steps,          \* Loop.MaxTurnSteps
    MaxToolCalls,   \* maxToolCallsForTurn
    MaxRetries,     \* maxTransientRetries
    MaxGuards,      \* maxCompletionGuardInterventions
    MaxShrinks,     \* bound: how often one call's log can still be compacted
    WriteFaults,    \* may Conversation.Append fail
    CompactionCuts  \* may a compaction cut a tool round apart

ASSUME LoopAssumption ==
    /\ MaxBatch \in Nat \ {0}
    /\ Steps \in Nat \ {0}
    /\ MaxToolCalls \in Nat \ {0}
    /\ MaxRetries \in Nat
    /\ MaxGuards \in Nat
    /\ MaxShrinks \in Nat
    /\ WriteFaults \in BOOLEAN
    /\ CompactionCuts \in BOOLEAN

VARIABLES
    log,        \* Loop.Conv, see Log
    pc,         \* where the goroutine is
    site,       \* who called runStep: the main loop or a no-tools final step
    cancelled,  \* the turn's context
    resp,       \* FinishInfo of the last model call
    err,        \* the error of the last model call
    attempt,    \* runStep's attempt
    shrinks,    \* compactions the log of this model call still allows
    left,       \* tool calls of the batch not yet processed
    rounds,     \* toolRounds
    used,       \* toolCallsUsed
    guards,     \* completionGuardInterventions
    tries,      \* attempt of runBudgetFinal
    force,      \* forceNoToolsNext
    deferOK,    \* does forceNoToolsReason let a completion guard be deferred
    finalNT,    \* finalNoToolsOnMaxTurnsForTurn
    budgetOut,  \* toolBudgetExhausted
    calib,      \* loopProtocolCalibrationPending
    reason,     \* endReason
    sound,      \* history: the log was paired when the turn began, every
                \* assistant and tool message of the turn was persisted, and
                \* no compaction in the turn cut a round apart
    lost,       \* history: an assistant message of this turn was not persisted
    transients, \* history: transient errors in this runStep, as far as they
                \* may be retried
    asked       \* history: runStep calls in this turn

budgetVars == <<rounds, used, guards>>
flagVars == <<force, deferOK, finalNT, budgetOut, calib>>
callVars == <<attempt, shrinks, transients>>
histVars == <<sound, lost>>
vars == <<log, pc, site, cancelled, resp, err, attempt, shrinks, left, rounds,
          used, guards, tries, force, deferOK, finalNT, budgetOut, calib,
          reason, sound, lost, transients, asked>>

Log == [pending : 0..MaxBatch, broken : BOOLEAN]
Sites == {"main", "budget", "recovery"}
Reasons == {"completed", "cancelled", "max_turns", "error"}
\* A reply with tool calls, or one without: by finish reason and content.
Replies == [calls : 1..MaxBatch, kind : {"calls"}]
             \cup [calls : {0}, kind : {"answer", "length", "empty", "narration"}]
Errors == [overflow : BOOLEAN, transient : BOOLEAN, sawMessage : BOOLEAN]
NoError == [overflow |-> FALSE, transient |-> FALSE, sawMessage |-> FALSE]
NoReply == [calls |-> 0, kind |-> "answer"]
FinalAttempts == 3  \* runBudgetFinal's loop

TypeOK ==
    /\ log \in Log
    /\ pc \in {"idle", "loop", "prompt", "call", "stream", "failed", "backoff",
               "persisted", "respond", "batch", "afterBatch", "end", "ended"}
    /\ site \in Sites
    /\ cancelled \in BOOLEAN
    /\ resp \in Replies
    /\ err \in Errors
    /\ attempt \in Nat /\ transients \in Nat /\ asked \in Nat
    /\ shrinks \in 0..MaxShrinks
    /\ left \in 0..MaxBatch
    /\ rounds \in Nat /\ guards \in Nat
    /\ used \in 0..MaxToolCalls
    /\ tries \in 0..(FinalAttempts - 1)
    /\ force \in BOOLEAN /\ deferOK \in BOOLEAN /\ finalNT \in BOOLEAN
    /\ budgetOut \in BOOLEAN /\ calib \in BOOLEAN
    /\ reason \in Reasons
    /\ sound \in BOOLEAN /\ lost \in BOOLEAN

PairedLog == [pending |-> 0, broken |-> FALSE]

Init ==
    /\ log = PairedLog
    /\ pc = "idle" /\ site = "main" /\ cancelled = FALSE
    /\ resp = NoReply /\ err = NoError
    /\ attempt = 0 /\ shrinks = 0 /\ transients = 0 /\ asked = 0
    /\ left = 0 /\ rounds = 0 /\ used = 0 /\ guards = 0 /\ tries = 0
    /\ force = FALSE /\ deferOK = FALSE /\ finalNT = FALSE
    /\ budgetOut = FALSE /\ calib = FALSE
    /\ reason = "completed"
    /\ sound = TRUE /\ lost = FALSE
-----------------------------------------------------------------------------
(* The log. *)

Paired(g) == g.pending = 0 /\ ~g.broken

\* Any message that is not a tool result; n is its number of tool calls.
WithMessage(g, n) == [pending |-> n, broken |-> g.broken \/ g.pending > 0]

\* n tool results.
WithResults(g, n) ==
    [pending |-> IF n <= g.pending THEN g.pending - n ELSE 0,
     broken  |-> g.broken \/ n > g.pending]

\* What the Compactor may return (module Compaction has the details): the tail
\* stays, an unpaired message may be folded into the summary, and a round
\* may be cut apart, so that the tail begins with a result whose call is gone.
Compacted(g) ==
    {[g EXCEPT !.broken = b] :
        b \in IF CompactionCuts THEN BOOLEAN ELSE {FALSE, g.broken}}

CompactLog ==
    /\ log' \in Compacted(log)
    /\ sound' = (sound /\ ~log'.broken)
    /\ UNCHANGED lost

\* How many of n appends succeed, when their errors are only logged.
Written(n) == IF WriteFaults THEN 0..n ELSE {n}

AppendResults(n) ==
    \E k \in Written(n) :
        /\ log' = WithResults(log, k)
        /\ sound' = (sound /\ k = n)

SkippedMutant(n) == IF n > 0 THEN n - 1 ELSE 0
\* appendSkippedToolResults: one placeholder per call it is given.
Skipped(n) == n
AppendSkippedToolResults(n) == AppendResults(Skipped(n))
-----------------------------------------------------------------------------
(* Leaving and entering the phases of a turn. *)

End(r) == pc' = "end" /\ reason' = r
Go(where) == pc' = where /\ UNCHANGED reason

\* runStep is called: its local variables start afresh.
EnterStep ==
    /\ Go("call")
    /\ attempt' = 0 /\ transients' = 0 /\ shrinks' = MaxShrinks
    /\ asked' = asked + 1

\* A no-tools final step follows when the turn asks for one; tries counts
\* runBudgetFinal's attempts.
BudgetFinal(allowed) ==
    /\ tries' = 0
    /\ IF allowed
       THEN site' = "budget" /\ Go("prompt")
       ELSE site' = site /\ End("max_turns")

\* The local variables of a turn, at its start and once it is over.
FreshTurn ==
    /\ cancelled' = FALSE /\ site' = "main" /\ reason' = "completed"
    /\ resp' = NoReply /\ err' = NoError
    /\ attempt' = 0 /\ shrinks' = 0 /\ transients' = 0 /\ asked' = 0
    /\ left' = 0 /\ rounds' = 0 /\ used' = 0 /\ guards' = 0 /\ tries' = 0
    /\ force' = FALSE /\ deferOK' = FALSE /\ budgetOut' = FALSE /\ calib' = FALSE
    /\ lost' = FALSE

\* SendUserWithOptions while l.current is empty.  (The transient context that a
\* failed appendUserMessage leaves is pruned by the next one.)
SendUser ==
    /\ pc = "idle"
    /\ log' = WithMessage(log, 0)
    /\ sound' = Paired(log)
    /\ pc' = "loop"
    /\ finalNT' \in BOOLEAN
    /\ FreshTurn

\* Loop.Cancel.
Cancel ==
    /\ pc # "idle" /\ ~cancelled
    /\ cancelled' = TRUE
    /\ UNCHANGED <<log, pc, site, resp, err, callVars, left, budgetVars, tries,
                   flagVars, reason, histVars, asked>>

\* The process dies, or the idle session is evicted, and the log is loaded again:
\* repairToolCallPairs answers every open call and turns stray results to notes.
Reload ==
    /\ pc # "idle" \/ ~Paired(log)
    /\ log' = PairedLog
    /\ pc' = "idle"
    /\ finalNT' = FALSE /\ sound' = TRUE
    /\ FreshTurn
-----------------------------------------------------------------------------
(* The top of runTurn's loop. *)

LoopCancelled ==
    /\ pc = "loop" /\ cancelled
    /\ End("cancelled")
    /\ UNCHANGED <<log, site, cancelled, resp, err, callVars, left, budgetVars,
                   tries, flagVars, histVars, asked>>

\* The next request would exceed the turn's input budget.
ProjectedOverBudget ==
    /\ pc = "loop" /\ ~cancelled /\ ~force
    /\ force' = TRUE /\ deferOK' = TRUE
    /\ BudgetFinal(finalNT)
    /\ UNCHANGED <<log, cancelled, resp, err, callVars, left, budgetVars,
                   finalNT, budgetOut, calib, histVars, asked>>

ForcedFinal ==
    /\ pc = "loop" /\ ~cancelled /\ force
    /\ BudgetFinal(TRUE)
    /\ UNCHANGED <<log, cancelled, resp, err, callVars, left, budgetVars,
                   flagVars, histVars, asked>>

MainStep ==
    /\ pc = "loop" /\ ~cancelled /\ ~force
    /\ EnterStep
    /\ UNCHANGED <<log, site, cancelled, resp, err, left, budgetVars, tries,
                   flagVars, histVars>>

\* runFinalNoToolsStep appends its prompt as a user message...
FinalPrompt ==
    /\ pc = "prompt"
    /\ log' = WithMessage(log, 0)
    /\ EnterStep
    /\ UNCHANGED <<site, cancelled, resp, err, left, budgetVars, tries, flagVars,
                   histVars>>

\* ...and gives up when it cannot.
FinalPromptFails ==
    /\ pc = "prompt" /\ WriteFaults
    /\ End("error")
    /\ UNCHANGED <<log, site, cancelled, resp, err, callVars, left, budgetVars,
                   tries, flagVars, histVars, asked>>
-----------------------------------------------------------------------------
(* runStep and consumeAndPersist. *)

\* One attempt: prepareToolDefsForRequest may compact the log (the compactions
\* elsewhere in runTurn come to the same), then the log goes to the model.
CallModel ==
    /\ pc = "call" /\ ~cancelled
    /\ CompactLog
    /\ Go("stream")
    /\ UNCHANGED <<site, cancelled, resp, err, callVars, left, budgetVars, tries,
                   flagVars, asked>>

\* The places of runStep that look at the context first: before a call, after a
\* failed one, during the backoff.
StepCancelled ==
    /\ pc \in {"call", "failed", "backoff"} /\ cancelled
    /\ End("cancelled")
    /\ UNCHANGED <<log, site, cancelled, resp, err, callVars, left, budgetVars,
                   tries, flagVars, histVars, asked>>

\* The stream delivers a finish: consumeAndPersist appends the assistant message
\* and only logs an error of Append.
StreamFinish ==
    /\ pc = "stream" /\ ~cancelled
    /\ resp' \in Replies
    /\ \/ /\ log' = WithMessage(log, resp'.calls)
          /\ UNCHANGED histVars
       \/ /\ WriteFaults
          /\ sound' = FALSE /\ lost' = TRUE
          /\ UNCHANGED log
    /\ Go("persisted")
    /\ UNCHANGED <<site, cancelled, err, callVars, left, budgetVars, tries,
                   flagVars, asked>>

\* The request or the stream fails, on its own or because the context is done.
StreamFails ==
    /\ pc = "stream"
    /\ err' \in Errors
    /\ transients' = IF err'.transient /\ transients <= MaxRetries
                     THEN transients + 1 ELSE transients
    /\ Go("failed")
    /\ UNCHANGED <<log, site, cancelled, resp, attempt, shrinks, left, budgetVars,
                   tries, flagVars, histVars, asked>>

\* Reactive compaction shortened the log: the loop goes round, attempt++.
RetryCompacted ==
    /\ pc = "failed" /\ ~cancelled
    /\ err.overflow /\ shrinks > 0
    /\ CompactLog
    /\ shrinks' = shrinks - 1
    /\ attempt' = attempt + 1
    /\ err' = NoError
    /\ Go("call")
    /\ UNCHANGED <<site, cancelled, resp, transients, left, budgetVars, tries,
                   flagVars, asked>>

Retryable == err.transient /\ attempt < MaxRetries /\ ~err.sawMessage

\* No compaction (none configured, it failed, or it shortened nothing).
RetryOrGiveUp ==
    /\ pc = "failed" /\ ~cancelled
    /\ IF Retryable THEN Go("backoff") ELSE End("error")
    /\ UNCHANGED <<log, site, cancelled, resp, err, callVars, left, budgetVars,
                   tries, flagVars, histVars, asked>>

BackoffOverMutant ==
    /\ pc = "backoff"
    /\ attempt' = attempt
    /\ err' = NoError
    /\ Go("call")
    /\ UNCHANGED <<log, site, cancelled, resp, shrinks, transients, left,
                   budgetVars, tries, flagVars, histVars, asked>>
BackoffOver ==
    /\ pc = "backoff"
    /\ attempt' = attempt + 1
    /\ err' = NoError
    /\ Go("call")
    /\ UNCHANGED <<log, site, cancelled, resp, shrinks, transients, left,
                   budgetVars, tries, flagVars, histVars, asked>>

\* "Parent ctx cancel always wins", after a successful call too.
PersistedCancelled ==
    /\ pc = "persisted" /\ cancelled
    /\ End("cancelled")
    /\ UNCHANGED <<log, site, cancelled, resp, err, callVars, left, budgetVars,
                   tries, flagVars, histVars, asked>>

StepReturns ==
    /\ pc = "persisted" /\ ~cancelled
    /\ Go("respond")
    /\ err' = NoError /\ attempt' = 0 /\ transients' = 0 /\ shrinks' = 0
    /\ UNCHANGED <<log, site, cancelled, resp, left, budgetVars,
                   tries, flagVars, histVars, asked>>
-----------------------------------------------------------------------------
(* runTurn looks at the reply of a main step. *)

\* A reply cut by length, or one that is process narration, after tools ran: one
\* no-tools step asks again (runLengthRecoveryStep, runFinalNoToolsStep).
AskAgain ==
    /\ pc = "respond" /\ site = "main"
    /\ resp.kind \in {"length", "narration"} /\ used > 0
    /\ site' = "recovery"
    /\ Go("prompt")
    /\ UNCHANGED <<log, cancelled, resp, err, callVars, left, budgetVars, tries,
                   flagVars, histVars, asked>>

FinalReply ==
    /\ pc = "respond" /\ site = "main"
    /\ resp.calls = 0
    /\ ~(resp.kind \in {"length", "narration"} /\ used > 0)

Accept ==
    /\ FinalReply
    /\ End("completed")
    /\ UNCHANGED <<log, site, cancelled, resp, err, callVars, left, budgetVars,
                   tries, flagVars, histVars, asked>>

GuardGivesUpMutant == FALSE
GuardGivesUp == guards + 1 > MaxGuards

\* A completion guard blocks the answer: its prompt goes to the model, at most
\* MaxGuards times.
GuardBlocks ==
    /\ FinalReply
    /\ guards' = guards + 1
    /\ \/ GuardGivesUp /\ End("max_turns") /\ UNCHANGED log
       \/ ~GuardGivesUp /\ Go("loop") /\ log' = WithMessage(log, 0)
       \/ ~GuardGivesUp /\ WriteFaults /\ End("error") /\ UNCHANGED log
    /\ UNCHANGED <<site, cancelled, resp, err, callVars, left, rounds, used,
                   tries, flagVars, histVars, asked>>

ToolReply == pc = "respond" /\ site = "main" /\ resp.calls > 0

\* The turn's input budget is spent: the calls are skipped.
InputBudgetSpent ==
    /\ ToolReply
    /\ AppendSkippedToolResults(resp.calls)
    /\ force' = TRUE /\ deferOK' = TRUE
    /\ BudgetFinal(finalNT)
    /\ UNCHANGED <<cancelled, resp, err, callVars, left, budgetVars, finalNT,
                   budgetOut, calib, lost, asked>>

StepsSpent == rounds >= Steps

StepBudgetSpent ==
    /\ ToolReply /\ StepsSpent
    /\ AppendSkippedToolResults(resp.calls)
    /\ deferOK' = FALSE
    /\ BudgetFinal(finalNT)
    /\ UNCHANGED <<cancelled, resp, err, callVars, left, budgetVars, force,
                   finalNT, budgetOut, calib, lost, asked>>

StartBatch ==
    /\ ToolReply /\ ~StepsSpent
    /\ left' = resp.calls
    /\ Go("batch")
    /\ UNCHANGED <<log, site, cancelled, resp, err, callVars, budgetVars, tries,
                   flagVars, histVars, asked>>
-----------------------------------------------------------------------------
(* The reply of a no-tools step: in runBudgetFinal or after AskAgain. *)

RecoveryReply ==
    /\ pc = "respond" /\ site = "recovery"
    /\ IF resp.calls = 0
       THEN End("completed") /\ UNCHANGED <<log, sound>>
       ELSE End("max_turns") /\ AppendSkippedToolResults(resp.calls)
    /\ UNCHANGED <<site, cancelled, resp, err, callVars, left, budgetVars, tries,
                   flagVars, lost, asked>>

MustRetryFinal ==
    \/ resp.calls > 0
    \/ resp.kind \in {"length", "empty"}
    \/ resp.kind = "narration" /\ used > 0

BudgetFinalRetry ==
    /\ pc = "respond" /\ site = "budget" /\ MustRetryFinal
    /\ AppendSkippedToolResults(resp.calls)
    /\ IF tries + 1 < FinalAttempts
       THEN tries' = tries + 1 /\ Go("prompt")
       ELSE tries' = tries /\ End("max_turns")
    /\ UNCHANGED <<site, cancelled, resp, err, callVars, left, budgetVars,
                   flagVars, lost, asked>>

\* The answer is accepted, unless a completion guard blocks it and the reason
\* for the final step does not let it be deferred.
BudgetFinalReply ==
    /\ pc = "respond" /\ site = "budget" /\ ~MustRetryFinal
    /\ \/ End("completed")
       \/ ~deferOK /\ End("max_turns")
    /\ UNCHANGED <<log, site, cancelled, resp, err, callVars, left, budgetVars,
                   tries, flagVars, histVars, asked>>
-----------------------------------------------------------------------------
(* A batch of tool calls. *)

AllDone(n) == IF n = 0 THEN Go("afterBatch") ELSE Go("batch")

ToolBudgetSpentMutant == used > MaxToolCalls
ToolBudgetSpent == used >= MaxToolCalls

SkipOverBudget ==
    /\ pc = "batch" /\ ToolBudgetSpent
    /\ AppendSkippedToolResults(left)
    /\ budgetOut' = TRUE
    /\ left' = 0 /\ AllDone(0)
    /\ UNCHANGED <<site, cancelled, resp, err, callVars, budgetVars, tries, force,
                   deferOK, finalNT, calib, lost, asked>>

SkipCancelled ==
    /\ pc = "batch" /\ ~ToolBudgetSpent /\ cancelled
    /\ AppendSkippedToolResults(left)
    /\ left' = 0 /\ AllDone(0)
    /\ UNCHANGED <<site, cancelled, resp, err, callVars, budgetVars, tries,
                   flagVars, lost, asked>>

RunsTool == pc = "batch" /\ ~ToolBudgetSpent /\ ~cancelled

\* A call is rejected (arguments, policies, loop guard) or dispatched.  The loop
\* guard, or an exhausted result budget, may force a final answer.
ToolCall ==
    /\ RunsTool
    /\ AppendResults(1)
    /\ used' = used + 1
    /\ left' = left - 1 /\ AllDone(left - 1)
    /\ \/ UNCHANGED <<force, deferOK>>
       \/ force' = TRUE /\ UNCHANGED deferOK
       \/ force' = TRUE /\ deferOK' = TRUE
    /\ UNCHANGED <<site, cancelled, resp, err, callVars, rounds, guards, tries,
                   finalNT, budgetOut, calib, lost, asked>>

\* The call activated the loop protocol: a final answer must follow the batch.
ToolActivates ==
    /\ RunsTool
    /\ AppendResults(1)
    /\ used' = used + 1
    /\ left' = left - 1 /\ AllDone(left - 1)
    /\ force' = TRUE /\ deferOK' = FALSE /\ finalNT' = TRUE
    /\ UNCHANGED <<site, cancelled, resp, err, callVars, rounds, guards, tries,
                   budgetOut, calib, lost, asked>>

CalibrationRestMutant == 0
\* The calls of the batch that are skipped once calibration is due.
CalibrationRest == left - 1

\* The call left a loop-protocol draft that waits for calibration: the rest of
\* the batch is skipped.
ToolCalibrates ==
    /\ RunsTool
    /\ AppendResults(1 + CalibrationRest)
    /\ used' = used + 1
    /\ left' = left - 1 - CalibrationRest /\ AllDone(left - 1 - CalibrationRest)
    /\ force' = TRUE /\ deferOK' = FALSE /\ finalNT' = TRUE /\ calib' = TRUE
    /\ UNCHANGED <<site, cancelled, resp, err, callVars, rounds, guards, tries,
                   budgetOut, lost, asked>>

BatchCancelled ==
    /\ pc = "afterBatch" /\ cancelled
    /\ End("cancelled")
    /\ UNCHANGED <<log, site, cancelled, resp, err, callVars, left, budgetVars,
                   tries, flagVars, histVars, asked>>

\* finishLoopProtocolCalibrationTurn has a question to ask.
AskCalibration ==
    /\ pc = "afterBatch" /\ ~cancelled /\ calib
    /\ \/ log' = WithMessage(log, 0)
       \/ WriteFaults /\ UNCHANGED log
    /\ End("completed")
    /\ UNCHANGED <<site, cancelled, resp, err, callVars, left, budgetVars, tries,
                   flagVars, histVars, asked>>

BatchOverBudget ==
    /\ pc = "afterBatch" /\ ~cancelled /\ budgetOut
    /\ deferOK' = FALSE
    /\ BudgetFinal(finalNT)
    /\ UNCHANGED <<log, cancelled, resp, err, callVars, left, budgetVars, force,
                   finalNT, budgetOut, calib, histVars, asked>>

NextRound ==
    /\ pc = "afterBatch" /\ ~cancelled /\ ~budgetOut
    /\ rounds' = rounds + 1
    /\ Go("loop")
    /\ UNCHANGED <<log, site, cancelled, resp, err, callVars, left, used, guards,
                   tries, flagVars, histVars, asked>>
-----------------------------------------------------------------------------
\* turn.end is published...
PublishEnd ==
    /\ pc = "end"
    /\ Go("ended")
    /\ UNCHANGED <<log, site, cancelled, resp, err, callVars, left, budgetVars,
                   tries, flagVars, histVars, asked>>

\* ...and takeTurn lets the next turn in.
TakeTurn ==
    /\ pc = "ended"
    /\ pc' = "idle"
    /\ finalNT' = FALSE /\ sound' = TRUE
    /\ FreshTurn
    /\ UNCHANGED log

LoopTop == LoopCancelled \/ ProjectedOverBudget \/ ForcedFinal \/ MainStep
Prompting == FinalPrompt \/ FinalPromptFails
RunStep ==
    \/ CallModel \/ StepCancelled \/ StreamFinish \/ StreamFails
    \/ RetryCompacted \/ RetryOrGiveUp \/ BackoffOver
    \/ PersistedCancelled \/ StepReturns
MainReply ==
    \/ AskAgain \/ Accept \/ GuardBlocks \/ InputBudgetSpent \/ StepBudgetSpent
    \/ StartBatch
FinalStepReply == RecoveryReply \/ BudgetFinalRetry \/ BudgetFinalReply
Batch ==
    \/ SkipOverBudget \/ SkipCancelled \/ ToolCall \/ ToolActivates
    \/ ToolCalibrates \/ BatchCancelled \/ AskCalibration \/ BatchOverBudget
    \/ NextRound
Ending == PublishEnd \/ TakeTurn

\* A step of the turn's goroutine.
TurnStep ==
    LoopTop \/ Prompting \/ RunStep \/ MainReply \/ FinalStepReply \/ Batch \/ Ending

Next == SendUser \/ Cancel \/ Reload \/ TurnStep

Spec == Init /\ [][Next]_vars

\* The goroutine keeps running: every model call has PerCallTimeout, every
\* backoff is capped, and tools return.  Users and crashes owe nothing.
FairSpec == Spec /\ WF_vars(TurnStep)
-----------------------------------------------------------------------------
(* Properties. *)

\* Every request of a turn, at every call site, retry and compaction, pairs all
\* tool calls with results, and so does the log a turn leaves behind unless it
\* was cancelled - provided the log was paired when the turn began, no append of
\* the turn failed and no compaction cut a round apart (runTurn,
\* appendSkippedToolResults, consumeAndPersist).
TurnKeepsPairing ==
    sound =>
        /\ pc = "stream" => Paired(log)
        /\ pc \in {"end", "ended"} /\ reason # "cancelled" => Paired(log)

\* However runTurn weaves tool rounds, guard interventions and final steps, a
\* turn calls runStep at most Steps + MaxGuards + 1 times with tools and then
\* three times without, and a runStep retries at most MaxRetries times plus once
\* per compaction.
WorkBounded ==
    /\ asked <= Steps + MaxGuards + 1 + FinalAttempts
    /\ attempt <= MaxRetries + MaxShrinks

\* Once a loop-protocol draft waits for calibration, no tool runs before the
\* next user message ("no more tools may run this turn").
CalibrationStopsTools == [][calib /\ calib' => used' = used]_vars

\* A turn ends, whatever the model answers: no budget, retry or guard makes
\* runTurn go round for ever.
TurnEnds == pc # "idle" ~> pc = "idle"

\* Every request pairs all tool calls with results, also after a cancelled turn
\* ("On break we MUST emit a placeholder tool message for every unprocessed
\* tool_call_id", runTurn).
RequestsPaired == pc = "stream" => Paired(log)

\* A turn whose assistant message could not be persisted does not report
\* success (consumeAndPersist: "Loud failure mode (turn ends with reason=error)
\* preferred over silent state divergence").
LostReplyIsLoud == pc = "end" /\ lost => reason # "completed"

\* runStep gives up on a transient error only after MaxRetries retries of
\* transient errors: an overflow retry does not use up that budget ("retry
\* without consuming the transient-retry budget").
RetryBudgetKept ==
    [][RetryOrGiveUp /\ err.transient /\ ~err.sawMessage /\ pc' = "end"
        => transients > MaxRetries]_vars
-----------------------------------------------------------------------------
\* The contract of module Turn.  A turn is open from SendUserWithOptions until
\* turn.end is published; a cancel that comes later changes nothing, and a
\* request is in flight while the goroutine reads the stream.
TurnOf ==
    CASE pc = "idle" -> "idle"
      [] pc = "ended" -> "ended"
      [] OTHER -> IF cancelled THEN "cancelled" ELSE "running"

T == INSTANCE Turn WITH ToolLimit <- MaxToolCalls, turn <- TurnOf,
                        calling <- (pc = "stream"), ran <- used

\* Every behaviour of runTurn, its retries, budgets, guards and final steps is
\* one Turn allows: after Loop.Cancel neither a model call nor a tool starts, a
\* turn runs at most maxToolCallsForTurn tools, turn.end comes once, with no
\* request in flight, before the next turn is accepted.
ImplementsTurn == T!TurnSpec
=============================================================================
