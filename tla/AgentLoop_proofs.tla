-------------------------- MODULE AgentLoop_proofs --------------------------
(***************************************************************************)
(* Proofs about AgentLoop for every batch size, every budget and every     *)
(* retry limit, with and without failing writes.                           *)
(***************************************************************************)
EXTENDS AgentLoop, TLAPS

USE DEF callVars, budgetVars, flagVars, histVars

\* Where the goroutine is says who called runStep, and that a batch has calls.
Placed ==
    /\ pc = "batch" => left > 0
    /\ pc \in {"loop", "batch", "afterBatch"} => site = "main"
    /\ pc = "prompt" => site # "main"

Typed == TypeOK /\ Placed
-----------------------------------------------------------------------------
\* A reply has at most MaxBatch calls, and says so by its kind.
LEMMA ReplyCalls ==
    ASSUME NEW r \in Replies
    PROVE  /\ r.calls \in 0..MaxBatch
           /\ r.calls > 0 <=> r.kind = "calls"
BY LoopAssumption DEF Replies

\* The empty reply is a reply, no error is an error.
LEMMA NothingTyped == NoReply \in Replies /\ NoError \in Errors
BY DEF NoReply, NoError, Replies, Errors

\* Appending a message leaves a log, paired if the log and the message are.
LEMMA WithMessageLog ==
    ASSUME NEW g \in Log, NEW n \in 0..MaxBatch, NEW h, h = WithMessage(g, n)
    PROVE  /\ h \in Log
           /\ h.pending = n
           /\ Paired(g) => ~h.broken
BY DEF WithMessage, Log, Paired

\* Appending results leaves a log; n answers leave the other calls.
LEMMA WithResultsLog ==
    ASSUME NEW g \in Log, NEW n \in Nat, NEW h, h = WithResults(g, n)
    PROVE  /\ h \in Log
           /\ n <= g.pending /\ ~g.broken => h.pending = g.pending - n /\ ~h.broken
BY LoopAssumption DEF WithResults, Log

\* A compaction leaves a log with the same open calls, and the history says
\* whether it is one without a stray result.
LEMMA CompactedLog ==
    ASSUME log \in Log, sound \in BOOLEAN, CompactLog
    PROVE  /\ log' \in Log /\ sound' \in BOOLEAN
           /\ log'.pending = log.pending
           /\ sound' => sound /\ ~log'.broken
<1>1. PICK b \in BOOLEAN : log' = [log EXCEPT !.broken = b]
  BY LoopAssumption DEF CompactLog, Compacted, Log
<1>2. log' \in Log /\ log'.pending = log.pending /\ log'.broken \in BOOLEAN
  BY <1>1 DEF Log
<1>3. sound' = (sound /\ ~log'.broken)
  BY DEF CompactLog
<1>4. QED
  BY <1>2, <1>3

\* Appending n results, some of which may be lost: the history stays sound only
\* if all n were written.
LEMMA AppendResultsLog ==
    ASSUME TypeOK, NEW n \in Nat, AppendResults(n)
    PROVE  /\ log' \in Log
           /\ sound' \in BOOLEAN
           /\ sound' => sound /\ log' = WithResults(log, n)
<1>1. PICK k \in Written(n) : log' = WithResults(log, k) /\ sound' = (sound /\ k = n)
  BY DEF AppendResults
<1>2. k \in Nat
  BY <1>1 DEF Written
<1>3. log' \in Log
  BY <1>1, <1>2, WithResultsLog DEF TypeOK
<1>4. QED
  BY <1>1, <1>3 DEF TypeOK

\* After a call the batch goes on as long as calls are left.
LEMMA AllDoneGoes ==
    ASSUME NEW n \in Nat, AllDone(n)
    PROVE  /\ pc' \in {"batch", "afterBatch"}
           /\ pc' = "batch" => n > 0
           /\ reason' = reason
BY DEF AllDone, Go

\* Zero is in the range of every bounded counter.
LEMMA ZeroInRange ==
    0 \in 0..MaxBatch /\ 0 \in 0..MaxShrinks /\ 0 \in 0..MaxToolCalls
      /\ 0 \in 0..(FinalAttempts - 1) /\ 0 \in Nat
BY LoopAssumption DEF FinalAttempts

\* The local variables of a fresh turn are well typed.
LEMMA FreshTurnTyped ==
    ASSUME FreshTurn
    PROVE  /\ site' \in Sites /\ cancelled' \in BOOLEAN /\ reason' \in Reasons
           /\ resp' \in Replies /\ err' \in Errors
           /\ attempt' \in Nat /\ transients' \in Nat /\ asked' \in Nat
           /\ shrinks' \in 0..MaxShrinks /\ left' \in 0..MaxBatch
           /\ rounds' \in Nat /\ guards' \in Nat
           /\ used' \in 0..MaxToolCalls /\ tries' \in 0..(FinalAttempts - 1)
           /\ force' \in BOOLEAN /\ deferOK' \in BOOLEAN
           /\ budgetOut' \in BOOLEAN /\ calib' \in BOOLEAN /\ lost' \in BOOLEAN
BY NothingTyped, ZeroInRange, Zenon DEF FreshTurn, Sites, Reasons
-----------------------------------------------------------------------------
\* The initial state is well typed.
LEMMA InitTyped == Init => Typed
<1> SUFFICES ASSUME Init PROVE Typed
  OBVIOUS
<1>1. log \in Log
  BY LoopAssumption DEF Init, PairedLog, Log
<1>2. TypeOK
  BY <1>1, NothingTyped, ZeroInRange, Zenon DEF Init, TypeOK, Sites, Reasons
<1>3. QED
  BY <1>2 DEF Init, Typed, Placed

\* Every step keeps the types.
LEMMA NextTyped == Typed /\ [Next]_vars => Typed'
<1> SUFFICES ASSUME Typed, [Next]_vars PROVE Typed'
  OBVIOUS
<1>0. /\ resp.calls \in 0..MaxBatch
      /\ NoReply \in Replies /\ NoError \in Errors /\ PairedLog \in Log
      /\ WithMessage(log, 0) \in Log
  BY ReplyCalls, NothingTyped, WithMessageLog, LoopAssumption DEF Typed,
    TypeOK, PairedLog, Log
<1> USE LoopAssumption DEF Typed, Placed
<1>1. CASE SendUser
  <2>1. log' \in Log /\ sound' \in BOOLEAN /\ finalNT' \in BOOLEAN
    BY <1>1, <1>0 DEF TypeOK, SendUser, Paired
  <2>2. QED
    BY <1>1, <2>1, FreshTurnTyped DEF TypeOK, FreshTurn, SendUser
<1>2. CASE Cancel
  BY <1>2 DEF TypeOK, Cancel
<1>3. CASE Reload
  <2>1. log' \in Log /\ sound' \in BOOLEAN /\ finalNT' \in BOOLEAN
    BY <1>3, <1>0 DEF TypeOK, Reload, Paired
  <2>2. QED
    BY <1>3, <2>1, FreshTurnTyped DEF TypeOK, FreshTurn, Reload
<1>4. CASE LoopCancelled
  BY <1>4 DEF TypeOK, LoopCancelled, End, Reasons
<1>5. CASE ProjectedOverBudget
  BY <1>5 DEF TypeOK, ProjectedOverBudget, BudgetFinal, Go, End, Sites,
    Reasons, FinalAttempts
<1>6. CASE ForcedFinal
  BY <1>6 DEF TypeOK, ForcedFinal, BudgetFinal, Go, End, Sites, Reasons,
    FinalAttempts
<1>7. CASE MainStep
  BY <1>7 DEF TypeOK, MainStep, EnterStep, Go
<1>8. CASE FinalPrompt
  BY <1>8, <1>0 DEF TypeOK, FinalPrompt, EnterStep, Go
<1>9. CASE FinalPromptFails
  BY <1>9 DEF TypeOK, FinalPromptFails, End, Reasons
<1>10. CASE CallModel
  <2>1. log' \in Log /\ sound' \in BOOLEAN
    BY <1>10, CompactedLog DEF TypeOK, CallModel
  <2>2. lost' = lost
    BY <1>10 DEF CallModel, CompactLog
  <2>3. QED
    BY <1>10, <1>0, <2>1, <2>2 DEF TypeOK, CallModel, Go
<1>11. CASE StepCancelled
  BY <1>11 DEF TypeOK, StepCancelled, End, Reasons
<1>12. CASE StreamFinish
  <2>1. resp' \in Replies /\ resp'.calls \in 0..MaxBatch
    BY <1>12, ReplyCalls DEF StreamFinish
  <2>2. log' \in Log /\ sound' \in BOOLEAN /\ lost' \in BOOLEAN
    BY <1>12, <2>1, WithMessageLog DEF StreamFinish, TypeOK
  <2>3. QED
    BY <1>12, <2>1, <2>2 DEF TypeOK, StreamFinish, Go
<1>13. CASE StreamFails
  BY <1>13 DEF TypeOK, StreamFails, Go
<1>14. CASE RetryCompacted
  <2>1. log' \in Log /\ sound' \in BOOLEAN
    BY <1>14, CompactedLog DEF TypeOK, RetryCompacted
  <2>2. lost' = lost
    BY <1>14 DEF RetryCompacted, CompactLog
  <2>3. QED
    BY <1>14, <1>0, <2>1, <2>2 DEF TypeOK, RetryCompacted, Go
<1>15. CASE RetryOrGiveUp
  BY <1>15 DEF TypeOK, RetryOrGiveUp, Retryable, Go, End, Reasons
<1>16. CASE BackoffOver
  BY <1>16, <1>0 DEF TypeOK, BackoffOver, Go
<1>17. CASE PersistedCancelled
  BY <1>17 DEF TypeOK, PersistedCancelled, End, Reasons
<1>18. CASE StepReturns
  BY <1>18, <1>0 DEF TypeOK, StepReturns, Go
<1>19. CASE AskAgain
  BY <1>19 DEF TypeOK, AskAgain, Go, Sites
<1>20. CASE Accept
  BY <1>20 DEF TypeOK, Accept, FinalReply, End, Reasons
<1>21. CASE GuardBlocks
  BY <1>21, <1>0 DEF TypeOK, GuardBlocks, FinalReply, GuardGivesUp, Go, End,
    Reasons
<1>22. CASE InputBudgetSpent
  <2>1. resp.calls \in Nat
    BY <1>0, <1>22 DEF TypeOK, InputBudgetSpent, BudgetFinal, ToolReply
  <2>2. log' \in Log /\ sound' \in BOOLEAN
    BY <1>22, <2>1, AppendResultsLog DEF InputBudgetSpent,
      AppendSkippedToolResults, Skipped
  <2>3. tries' \in 0..(FinalAttempts - 1) /\ left' \in 0..MaxBatch
    BY <1>22, ZeroInRange DEF TypeOK, InputBudgetSpent, BudgetFinal, ToolReply
  <2>4. QED
    BY <1>22, <2>2, <2>3, <1>0 DEF TypeOK, InputBudgetSpent, BudgetFinal,
      ToolReply, Go, End, Sites, Reasons
<1>23. CASE StepBudgetSpent
  <2>1. resp.calls \in Nat
    BY <1>0, <1>23 DEF TypeOK, StepBudgetSpent, BudgetFinal, ToolReply,
      StepsSpent
  <2>2. log' \in Log /\ sound' \in BOOLEAN
    BY <1>23, <2>1, AppendResultsLog DEF StepBudgetSpent,
      AppendSkippedToolResults, Skipped
  <2>3. tries' \in 0..(FinalAttempts - 1) /\ left' \in 0..MaxBatch
    BY <1>23, ZeroInRange DEF TypeOK, StepBudgetSpent, BudgetFinal,
      ToolReply, StepsSpent
  <2>4. QED
    BY <1>23, <2>2, <2>3, <1>0 DEF TypeOK, StepBudgetSpent, BudgetFinal,
      ToolReply, StepsSpent, Go, End, Sites, Reasons
<1>24. CASE StartBatch
  BY <1>24, <1>0 DEF TypeOK, StartBatch, ToolReply, StepsSpent, Go
<1>25. CASE RecoveryReply
  <2>1. CASE resp.calls = 0
    BY <1>25, <2>1 DEF TypeOK, RecoveryReply, Go, End, Sites, Reasons
  <2>2. CASE resp.calls # 0
    <3>1. log' \in Log /\ sound' \in BOOLEAN
      BY <1>25, <1>0, <2>2, AppendResultsLog DEF RecoveryReply,
        AppendSkippedToolResults, Skipped
    <3>2. QED
      BY <1>25, <2>2, <3>1 DEF TypeOK, RecoveryReply, Go, End, Sites, Reasons
  <2>3. QED
    BY <2>1, <2>2
<1>26. CASE BudgetFinalRetry
  <2>1. resp.calls \in Nat
    BY <1>0, <1>26 DEF TypeOK, BudgetFinalRetry, MustRetryFinal, FinalAttempts
  <2>2. log' \in Log /\ sound' \in BOOLEAN
    BY <1>26, <2>1, AppendResultsLog DEF BudgetFinalRetry,
      AppendSkippedToolResults, Skipped
  <2>3. tries' \in 0..(FinalAttempts - 1) /\ left' \in 0..MaxBatch
    BY <1>26, ZeroInRange DEF TypeOK, BudgetFinalRetry, MustRetryFinal,
      FinalAttempts
  <2>4. QED
    BY <1>26, <2>2, <2>3, <1>0 DEF TypeOK, BudgetFinalRetry, MustRetryFinal,
      FinalAttempts, Go, End, Sites, Reasons
<1>27. CASE BudgetFinalReply
  BY <1>27 DEF TypeOK, BudgetFinalReply, MustRetryFinal, End, Reasons
<1>28. CASE SkipOverBudget
  <2>1. left \in Nat
    BY <1>0, <1>28 DEF TypeOK, SkipOverBudget, AllDone, ToolBudgetSpent
  <2>2. log' \in Log /\ sound' \in BOOLEAN
    BY <1>28, <2>1, AppendResultsLog DEF SkipOverBudget,
      AppendSkippedToolResults, Skipped
  <2>3. tries' \in 0..(FinalAttempts - 1) /\ left' \in 0..MaxBatch
    BY <1>28, ZeroInRange DEF TypeOK, SkipOverBudget, AllDone, ToolBudgetSpent
  <2>4. QED
    BY <1>28, <2>2, <2>3, <1>0 DEF TypeOK, SkipOverBudget, AllDone,
      ToolBudgetSpent, Go, End, Sites, Reasons
<1>29. CASE SkipCancelled
  <2>1. left \in Nat
    BY <1>0, <1>29 DEF TypeOK, SkipCancelled, AllDone, ToolBudgetSpent
  <2>2. log' \in Log /\ sound' \in BOOLEAN
    BY <1>29, <2>1, AppendResultsLog DEF SkipCancelled,
      AppendSkippedToolResults, Skipped
  <2>3. tries' \in 0..(FinalAttempts - 1) /\ left' \in 0..MaxBatch
    BY <1>29, ZeroInRange DEF TypeOK, SkipCancelled, AllDone, ToolBudgetSpent
  <2>4. QED
    BY <1>29, <2>2, <2>3, <1>0 DEF TypeOK, SkipCancelled, AllDone,
      ToolBudgetSpent, Go, End, Sites, Reasons
<1>30. CASE ToolCall
  <2>1. 1 \in Nat
    BY <1>0, <1>30 DEF TypeOK, ToolCall, AllDone, RunsTool, ToolBudgetSpent
  <2>2. log' \in Log /\ sound' \in BOOLEAN
    BY <1>30, <2>1, AppendResultsLog DEF ToolCall, AppendSkippedToolResults,
      Skipped
  <2>3. left - 1 \in 0..MaxBatch /\ used + 1 \in 0..MaxToolCalls
    BY <1>30 DEF TypeOK, ToolCall, AllDone, RunsTool, ToolBudgetSpent
  <2>4. left' \in 0..MaxBatch /\ used' \in 0..MaxToolCalls
    BY <1>30, <2>3, ZeroInRange DEF TypeOK, ToolCall, AllDone, RunsTool,
      ToolBudgetSpent
  <2>5. /\ pc' \in {"batch", "afterBatch"}
        /\ pc' = "batch" => left' > 0
        /\ reason' = reason
    <3>1. left' \in Nat /\ AllDone(left')
      BY <1>30, <2>3 DEF ToolCall, RunsTool, ToolBudgetSpent
    <3>2. QED
      BY <3>1, AllDoneGoes
  <2>6. force' \in BOOLEAN /\ deferOK' \in BOOLEAN /\ finalNT' \in BOOLEAN
          /\ calib' \in BOOLEAN
    BY <1>30 DEF TypeOK, ToolCall
  <2>7. QED
    BY <1>30, <2>2, <2>4, <2>5, <2>6 DEF TypeOK, ToolCall, RunsTool
<1>31. CASE ToolActivates
  <2>1. 1 \in Nat
    BY <1>0, <1>31 DEF TypeOK, ToolActivates, AllDone, RunsTool,
      ToolBudgetSpent
  <2>2. log' \in Log /\ sound' \in BOOLEAN
    BY <1>31, <2>1, AppendResultsLog DEF ToolActivates,
      AppendSkippedToolResults, Skipped
  <2>3. left - 1 \in 0..MaxBatch /\ used + 1 \in 0..MaxToolCalls
    BY <1>31 DEF TypeOK, ToolActivates, AllDone, RunsTool, ToolBudgetSpent
  <2>4. left' \in 0..MaxBatch /\ used' \in 0..MaxToolCalls
    BY <1>31, <2>3, ZeroInRange DEF TypeOK, ToolActivates, AllDone, RunsTool,
      ToolBudgetSpent
  <2>5. /\ pc' \in {"batch", "afterBatch"}
        /\ pc' = "batch" => left' > 0
        /\ reason' = reason
    <3>1. left' \in Nat /\ AllDone(left')
      BY <1>31, <2>3 DEF ToolActivates, RunsTool, ToolBudgetSpent
    <3>2. QED
      BY <3>1, AllDoneGoes
  <2>6. force' \in BOOLEAN /\ deferOK' \in BOOLEAN /\ finalNT' \in BOOLEAN
          /\ calib' \in BOOLEAN
    BY <1>31 DEF TypeOK, ToolActivates
  <2>7. QED
    BY <1>31, <2>2, <2>4, <2>5, <2>6 DEF TypeOK, ToolActivates, RunsTool
<1>32. CASE ToolCalibrates
  <2>1. 1 + CalibrationRest \in Nat
    BY <1>0, <1>32 DEF TypeOK, ToolCalibrates, AllDone, RunsTool,
      ToolBudgetSpent, CalibrationRest
  <2>2. log' \in Log /\ sound' \in BOOLEAN
    BY <1>32, <2>1, AppendResultsLog DEF ToolCalibrates,
      AppendSkippedToolResults, Skipped
  <2>3. left - 1 \in 0..MaxBatch /\ used + 1 \in 0..MaxToolCalls
    BY <1>32 DEF TypeOK, ToolCalibrates, AllDone, RunsTool, ToolBudgetSpent,
      CalibrationRest
  <2>4. left' \in 0..MaxBatch /\ used' \in 0..MaxToolCalls
    BY <1>32, <2>3, ZeroInRange DEF TypeOK, ToolCalibrates, AllDone,
      RunsTool, ToolBudgetSpent, CalibrationRest
  <2>5. /\ pc' \in {"batch", "afterBatch"}
        /\ pc' = "batch" => left' > 0
        /\ reason' = reason
    <3>1. left' \in Nat /\ AllDone(left')
      BY <1>32, <2>3 DEF ToolCalibrates, RunsTool, ToolBudgetSpent,
        CalibrationRest
    <3>2. QED
      BY <3>1, AllDoneGoes
  <2>6. force' \in BOOLEAN /\ deferOK' \in BOOLEAN /\ finalNT' \in BOOLEAN
          /\ calib' \in BOOLEAN
    BY <1>32 DEF TypeOK, ToolCalibrates
  <2>7. QED
    BY <1>32, <2>2, <2>4, <2>5, <2>6 DEF TypeOK, ToolCalibrates, RunsTool
<1>33. CASE BatchCancelled
  BY <1>33 DEF TypeOK, BatchCancelled, End, Reasons
<1>34. CASE AskCalibration
  BY <1>34, <1>0 DEF TypeOK, AskCalibration, End, Reasons
<1>35. CASE BatchOverBudget
  <2>1. tries' \in 0..(FinalAttempts - 1)
    BY <1>35, ZeroInRange DEF BatchOverBudget, BudgetFinal
  <2>2. QED
    BY <1>35, <2>1 DEF TypeOK, BatchOverBudget, BudgetFinal, Go, End, Sites,
      Reasons
<1>36. CASE NextRound
  BY <1>36 DEF TypeOK, NextRound, Go
<1>37. CASE PublishEnd
  BY <1>37 DEF TypeOK, PublishEnd, Go
<1>38. CASE TakeTurn
  <2>1. log' \in Log /\ sound' \in BOOLEAN /\ finalNT' \in BOOLEAN
    BY <1>38, <1>0 DEF TypeOK, TakeTurn, Paired
  <2>2. QED
    BY <1>38, <2>1, FreshTurnTyped DEF TypeOK, FreshTurn, TakeTurn
<1>39. CASE UNCHANGED vars
  BY <1>39 DEF vars, TypeOK
<1>40. QED
  BY <1>1, <1>2, <1>3, <1>4, <1>5, <1>6, <1>7, <1>8, <1>9, <1>10, <1>11,
    <1>12, <1>13, <1>14, <1>15, <1>16, <1>17, <1>18, <1>19, <1>20, <1>21,
    <1>22, <1>23, <1>24, <1>25, <1>26, <1>27, <1>28, <1>29, <1>30, <1>31,
    <1>32, <1>33, <1>34, <1>35, <1>36, <1>37, <1>38, <1>39
  DEF Next, TurnStep, LoopTop, Prompting, RunStep, MainReply, FinalStepReply,
    Batch, Ending

\* Every variable keeps its type, whatever the budgets and whichever appends
\* fail: in particular runTurn never runs more than MaxToolCalls tools in a turn
\* and runBudgetFinal never a fourth attempt.
THEOREM TypeCorrect == Spec => []TypeOK
<1>1. Spec => []Typed
  BY InitTyped, NextTyped, PTL DEF Spec
<1>2. Typed => TypeOK
  BY DEF Typed
<1>3. QED
  BY <1>1, <1>2, PTL
-----------------------------------------------------------------------------
\* What the log owes where: the reply's calls once it is persisted, the rest of
\* the batch while it runs, nothing anywhere else.
PairInv ==
    sound =>
        /\ pc \in {"loop", "prompt", "call", "stream", "failed", "backoff",
                  "afterBatch"} => Paired(log)
        /\ pc \in {"end", "ended"} /\ reason # "cancelled" => Paired(log)
        /\ pc \in {"persisted", "respond"} => ~log.broken /\ log.pending = resp.calls
        /\ pc = "batch" => ~log.broken /\ log.pending = left

\* Every step keeps PairInv.
LEMMA NextPair == Typed /\ PairInv /\ [Next]_vars => PairInv'
<1> SUFFICES ASSUME Typed, PairInv, [Next]_vars PROVE PairInv'
  OBVIOUS
<1>0. /\ log \in Log /\ left \in 0..MaxBatch /\ sound \in BOOLEAN
      /\ resp.calls \in 0..MaxBatch /\ (resp.calls > 0 <=> resp.kind = "calls")
      /\ pc = "batch" => left > 0
  BY ReplyCalls DEF Typed, TypeOK, Placed
<1>1. CASE SendUser
  <2>1. sound' => Paired(log)
    BY <1>1 DEF SendUser, PairInv
  <2>2. log' = WithMessage(log, 0) /\ 0 \in 0..MaxBatch
    BY <1>1, ZeroInRange DEF SendUser
  <2>3. sound' => log'.pending = 0 /\ ~log'.broken
    BY <1>0, <2>1, <2>2, WithMessageLog
  <2>4. QED
    BY <1>1, <2>3 DEF PairInv, Paired, SendUser, FreshTurn, Go
<1>2. CASE Cancel
  BY <1>2, <1>0 DEF PairInv, Paired, Cancel
<1>3. CASE Reload
  BY <1>3, <1>0 DEF PairInv, Paired, Reload, FreshTurn
<1>4. CASE LoopCancelled
  BY <1>4, <1>0 DEF PairInv, Paired, LoopCancelled, End
<1>5. CASE ProjectedOverBudget
  BY <1>5, <1>0 DEF PairInv, Paired, ProjectedOverBudget, BudgetFinal, Go, End
<1>6. CASE ForcedFinal
  BY <1>6, <1>0 DEF PairInv, Paired, ForcedFinal, BudgetFinal, Go, End
<1>7. CASE MainStep
  BY <1>7, <1>0 DEF PairInv, Paired, MainStep, EnterStep, Go
<1>8. CASE FinalPrompt
  <2>1. sound' => Paired(log)
    BY <1>8 DEF FinalPrompt, PairInv
  <2>2. log' = WithMessage(log, 0) /\ 0 \in 0..MaxBatch
    BY <1>8, ZeroInRange DEF FinalPrompt
  <2>3. sound' => log'.pending = 0 /\ ~log'.broken
    BY <1>0, <2>1, <2>2, WithMessageLog
  <2>4. QED
    BY <1>8, <2>3 DEF PairInv, Paired, FinalPrompt, EnterStep, Go
<1>9. CASE FinalPromptFails
  BY <1>9, <1>0 DEF PairInv, Paired, FinalPromptFails, End
<1>10. CASE CallModel
  <2>1. /\ log' \in Log /\ log'.pending = log.pending
        /\ sound' => sound /\ ~log'.broken
    BY <1>10, <1>0, CompactedLog DEF CallModel
  <2>2. SUFFICES ASSUME sound' PROVE PairInv'
    BY DEF PairInv
  <2>3. Paired(log')
    BY <1>10, <2>1, <2>2 DEF PairInv, CallModel, Paired
  <2>4. QED
    BY <1>10, <2>3 DEF PairInv, Paired, CallModel, Go
<1>11. CASE StepCancelled
  BY <1>11, <1>0 DEF PairInv, Paired, StepCancelled, End
<1>12. CASE StreamFinish
  <2>1. resp'.calls \in 0..MaxBatch
    BY <1>12, ReplyCalls DEF StreamFinish
  <2>2. SUFFICES ASSUME sound' PROVE PairInv'
    BY DEF PairInv
  <2>3. log' = WithMessage(log, resp'.calls) /\ sound
    BY <1>12, <2>2 DEF StreamFinish
  <2>4. log'.pending = resp'.calls /\ ~log'.broken
    BY <1>12, <1>0, <2>1, <2>3, WithMessageLog DEF PairInv, StreamFinish
  <2>5. QED
    BY <1>12, <2>4 DEF PairInv, StreamFinish, Go
<1>13. CASE StreamFails
  BY <1>13, <1>0 DEF PairInv, Paired, StreamFails, Go
<1>14. CASE RetryCompacted
  <2>1. /\ log' \in Log /\ log'.pending = log.pending
        /\ sound' => sound /\ ~log'.broken
    BY <1>14, <1>0, CompactedLog DEF RetryCompacted
  <2>2. SUFFICES ASSUME sound' PROVE PairInv'
    BY DEF PairInv
  <2>3. Paired(log')
    BY <1>14, <2>1, <2>2 DEF PairInv, RetryCompacted, Paired
  <2>4. QED
    BY <1>14, <2>3 DEF PairInv, Paired, RetryCompacted, Go
<1>15. CASE RetryOrGiveUp
  BY <1>15, <1>0 DEF PairInv, Paired, RetryOrGiveUp, Retryable, Go, End
<1>16. CASE BackoffOver
  BY <1>16, <1>0 DEF PairInv, Paired, BackoffOver, Go
<1>17. CASE PersistedCancelled
  BY <1>17, <1>0 DEF PairInv, Paired, PersistedCancelled, End
<1>18. CASE StepReturns
  BY <1>18, <1>0 DEF PairInv, Paired, StepReturns, Go
<1>19. CASE AskAgain
  BY <1>19, <1>0 DEF PairInv, Paired, AskAgain, Go
<1>20. CASE Accept
  BY <1>20, <1>0 DEF PairInv, Paired, Accept, FinalReply, End
<1>21. CASE GuardBlocks
  <2>1. sound => Paired(log)
    BY <1>21, <1>0 DEF GuardBlocks, FinalReply, GuardGivesUp, PairInv, Paired
  <2>2. sound => log'.pending = 0 /\ ~log'.broken
    BY <1>21, <1>0, <2>1, WithMessageLog, LoopAssumption DEF Paired,
      GuardBlocks
  <2>3. QED
    BY <1>21, <2>2 DEF PairInv, Paired, GuardBlocks, FinalReply,
      GuardGivesUp, Go, End
<1>22. CASE InputBudgetSpent
  <2>1. resp.calls \in Nat /\ pc = "respond"
    BY <1>22, <1>0 DEF InputBudgetSpent, BudgetFinal, ToolReply
  <2>2. SUFFICES ASSUME sound' PROVE PairInv'
    BY DEF PairInv
  <2>3. sound /\ log' = WithResults(log, resp.calls)
    BY <1>22, <2>1, <2>2, AppendResultsLog DEF Typed, InputBudgetSpent,
      AppendSkippedToolResults, Skipped
  <2>4. log'.pending = log.pending - (resp.calls) /\ ~log'.broken
    BY <1>22, <1>0, <2>1, <2>3, WithResultsLog DEF PairInv, InputBudgetSpent,
      BudgetFinal, ToolReply
  <2>5. QED
    BY <1>22, <1>0, <2>1, <2>3, <2>4 DEF PairInv, Paired, Log,
      InputBudgetSpent, BudgetFinal, ToolReply, Go, End
<1>23. CASE StepBudgetSpent
  <2>1. resp.calls \in Nat /\ pc = "respond"
    BY <1>23, <1>0 DEF StepBudgetSpent, BudgetFinal, ToolReply, StepsSpent
  <2>2. SUFFICES ASSUME sound' PROVE PairInv'
    BY DEF PairInv
  <2>3. sound /\ log' = WithResults(log, resp.calls)
    BY <1>23, <2>1, <2>2, AppendResultsLog DEF Typed, StepBudgetSpent,
      AppendSkippedToolResults, Skipped
  <2>4. log'.pending = log.pending - (resp.calls) /\ ~log'.broken
    BY <1>23, <1>0, <2>1, <2>3, WithResultsLog DEF PairInv, StepBudgetSpent,
      BudgetFinal, ToolReply, StepsSpent
  <2>5. QED
    BY <1>23, <1>0, <2>1, <2>3, <2>4 DEF PairInv, Paired, Log,
      StepBudgetSpent, BudgetFinal, ToolReply, StepsSpent, Go, End
<1>24. CASE StartBatch
  BY <1>24, <1>0 DEF PairInv, Paired, StartBatch, ToolReply, StepsSpent, Go
<1>25. CASE RecoveryReply
  <2>1. CASE resp.calls = 0
    BY <1>25, <1>0, <2>1 DEF PairInv, Paired, RecoveryReply, End
  <2>2. CASE resp.calls # 0
    <3>1. SUFFICES ASSUME sound' PROVE PairInv'
      BY DEF PairInv
    <3>2. sound /\ log' = WithResults(log, resp.calls)
      BY <1>25, <1>0, <2>2, <3>1, AppendResultsLog DEF Typed, RecoveryReply,
        AppendSkippedToolResults, Skipped
    <3>3. log.pending = resp.calls /\ ~log.broken /\ resp.calls \in Nat
      BY <1>25, <1>0, <3>2 DEF PairInv, RecoveryReply
    <3>4. log'.pending = 0 /\ ~log'.broken
      BY <1>0, <3>2, <3>3, WithResultsLog
    <3>5. QED
      BY <1>25, <2>2, <3>4 DEF PairInv, Paired, RecoveryReply, End
  <2>3. QED
    BY <2>1, <2>2
<1>26. CASE BudgetFinalRetry
  <2>1. resp.calls \in Nat /\ pc = "respond"
    BY <1>26, <1>0 DEF BudgetFinalRetry, MustRetryFinal, FinalAttempts
  <2>2. SUFFICES ASSUME sound' PROVE PairInv'
    BY DEF PairInv
  <2>3. sound /\ log' = WithResults(log, resp.calls)
    BY <1>26, <2>1, <2>2, AppendResultsLog DEF Typed, BudgetFinalRetry,
      AppendSkippedToolResults, Skipped
  <2>4. log'.pending = log.pending - (resp.calls) /\ ~log'.broken
    BY <1>26, <1>0, <2>1, <2>3, WithResultsLog DEF PairInv, BudgetFinalRetry,
      MustRetryFinal, FinalAttempts
  <2>5. QED
    BY <1>26, <1>0, <2>1, <2>3, <2>4 DEF PairInv, Paired, Log,
      BudgetFinalRetry, MustRetryFinal, FinalAttempts, Go, End
<1>27. CASE BudgetFinalReply
  BY <1>27, <1>0 DEF PairInv, Paired, BudgetFinalReply, MustRetryFinal, End
<1>28. CASE SkipOverBudget
  <2>1. left \in Nat /\ pc = "batch"
    BY <1>28, <1>0 DEF SkipOverBudget, AllDone, ToolBudgetSpent
  <2>2. SUFFICES ASSUME sound' PROVE PairInv'
    BY DEF PairInv
  <2>3. sound /\ log' = WithResults(log, left)
    BY <1>28, <2>1, <2>2, AppendResultsLog DEF Typed, SkipOverBudget,
      AppendSkippedToolResults, Skipped
  <2>4. log'.pending = log.pending - (left) /\ ~log'.broken
    BY <1>28, <1>0, <2>1, <2>3, WithResultsLog DEF PairInv, SkipOverBudget,
      AllDone, ToolBudgetSpent
  <2>5. QED
    BY <1>28, <1>0, <2>1, <2>3, <2>4 DEF PairInv, Paired, Log,
      SkipOverBudget, AllDone, ToolBudgetSpent, Go, End
<1>29. CASE SkipCancelled
  <2>1. left \in Nat /\ pc = "batch"
    BY <1>29, <1>0 DEF SkipCancelled, AllDone, ToolBudgetSpent
  <2>2. SUFFICES ASSUME sound' PROVE PairInv'
    BY DEF PairInv
  <2>3. sound /\ log' = WithResults(log, left)
    BY <1>29, <2>1, <2>2, AppendResultsLog DEF Typed, SkipCancelled,
      AppendSkippedToolResults, Skipped
  <2>4. log'.pending = log.pending - (left) /\ ~log'.broken
    BY <1>29, <1>0, <2>1, <2>3, WithResultsLog DEF PairInv, SkipCancelled,
      AllDone, ToolBudgetSpent
  <2>5. QED
    BY <1>29, <1>0, <2>1, <2>3, <2>4 DEF PairInv, Paired, Log, SkipCancelled,
      AllDone, ToolBudgetSpent, Go, End
<1>30. CASE ToolCall
  <2>1. 1 \in Nat /\ pc = "batch"
    BY <1>30, <1>0 DEF ToolCall, AllDone, RunsTool, ToolBudgetSpent
  <2>2. SUFFICES ASSUME sound' PROVE PairInv'
    BY DEF PairInv
  <2>3. sound /\ log' = WithResults(log, 1)
    BY <1>30, <2>1, <2>2, AppendResultsLog DEF Typed, ToolCall,
      AppendSkippedToolResults, Skipped
  <2>4. log'.pending = log.pending - (1) /\ ~log'.broken
    BY <1>30, <1>0, <2>1, <2>3, WithResultsLog DEF PairInv, ToolCall,
      AllDone, RunsTool, ToolBudgetSpent
  <2>5. QED
    BY <1>30, <1>0, <2>1, <2>3, <2>4 DEF PairInv, Paired, Log, ToolCall,
      AllDone, RunsTool, ToolBudgetSpent, Go, End
<1>31. CASE ToolActivates
  <2>1. 1 \in Nat /\ pc = "batch"
    BY <1>31, <1>0 DEF ToolActivates, AllDone, RunsTool, ToolBudgetSpent
  <2>2. SUFFICES ASSUME sound' PROVE PairInv'
    BY DEF PairInv
  <2>3. sound /\ log' = WithResults(log, 1)
    BY <1>31, <2>1, <2>2, AppendResultsLog DEF Typed, ToolActivates,
      AppendSkippedToolResults, Skipped
  <2>4. log'.pending = log.pending - (1) /\ ~log'.broken
    BY <1>31, <1>0, <2>1, <2>3, WithResultsLog DEF PairInv, ToolActivates,
      AllDone, RunsTool, ToolBudgetSpent
  <2>5. QED
    BY <1>31, <1>0, <2>1, <2>3, <2>4 DEF PairInv, Paired, Log, ToolActivates,
      AllDone, RunsTool, ToolBudgetSpent, Go, End
<1>32. CASE ToolCalibrates
  <2>1. 1 + CalibrationRest \in Nat /\ pc = "batch"
    BY <1>32, <1>0 DEF ToolCalibrates, AllDone, RunsTool, ToolBudgetSpent,
      CalibrationRest
  <2>2. SUFFICES ASSUME sound' PROVE PairInv'
    BY DEF PairInv
  <2>3. sound /\ log' = WithResults(log, 1 + CalibrationRest)
    BY <1>32, <2>1, <2>2, AppendResultsLog DEF Typed, ToolCalibrates,
      AppendSkippedToolResults, Skipped
  <2>4. log'.pending = log.pending - (1 + CalibrationRest) /\ ~log'.broken
    BY <1>32, <1>0, <2>1, <2>3, WithResultsLog DEF PairInv, ToolCalibrates,
      AllDone, RunsTool, ToolBudgetSpent, CalibrationRest
  <2>5. QED
    BY <1>32, <1>0, <2>1, <2>3, <2>4 DEF PairInv, Paired, Log,
      ToolCalibrates, AllDone, RunsTool, ToolBudgetSpent, CalibrationRest,
      Go, End
<1>33. CASE BatchCancelled
  BY <1>33, <1>0 DEF PairInv, Paired, BatchCancelled, End
<1>34. CASE AskCalibration
  <2>1. sound => Paired(log)
    BY <1>34, <1>0 DEF AskCalibration, PairInv, Paired
  <2>2. sound => log'.pending = 0 /\ ~log'.broken
    BY <1>34, <1>0, <2>1, WithMessageLog, LoopAssumption DEF Paired,
      AskCalibration
  <2>3. QED
    BY <1>34, <2>2 DEF PairInv, Paired, AskCalibration, Go, End
<1>35. CASE BatchOverBudget
  BY <1>35, <1>0 DEF PairInv, Paired, BatchOverBudget, BudgetFinal, Go, End
<1>36. CASE NextRound
  BY <1>36, <1>0 DEF PairInv, Paired, NextRound, Go
<1>37. CASE PublishEnd
  BY <1>37, <1>0 DEF PairInv, Paired, PublishEnd, Go
<1>38. CASE TakeTurn
  BY <1>38, <1>0 DEF PairInv, Paired, TakeTurn, FreshTurn
<1>39. CASE UNCHANGED vars
  BY <1>39 DEF vars, PairInv, Paired
<1>40. QED
  BY <1>1, <1>2, <1>3, <1>4, <1>5, <1>6, <1>7, <1>8, <1>9, <1>10, <1>11,
    <1>12, <1>13, <1>14, <1>15, <1>16, <1>17, <1>18, <1>19, <1>20, <1>21,
    <1>22, <1>23, <1>24, <1>25, <1>26, <1>27, <1>28, <1>29, <1>30, <1>31,
    <1>32, <1>33, <1>34, <1>35, <1>36, <1>37, <1>38, <1>39
  DEF Next, TurnStep, LoopTop, Prompting, RunStep, MainReply, FinalStepReply,
    Batch, Ending

\* For all budgets, a turn that starts from a paired log and loses no append
\* sends only paired requests and, unless it is cancelled, leaves a paired log:
\* runTurn answers every tool call on each of its exits.
THEOREM PairingCorrect == Spec => []TurnKeepsPairing
<1>1. Init => PairInv
  BY DEF Init, PairInv
<1>2. PairInv => TurnKeepsPairing
  BY DEF PairInv, TurnKeepsPairing
<1>3. QED
  BY <1>1, <1>2, InitTyped, NextTyped, NextPair, PTL DEF Spec
-----------------------------------------------------------------------------
\* The runStep calls so far: one per round and per guard intervention, the one
\* under way, and those of the final steps.
InStep == pc \in {"call", "stream", "failed", "backoff", "persisted", "respond",
                   "batch", "afterBatch"}
AskedInv ==
    /\ rounds <= Steps
    /\ pc \notin {"end", "ended"} => guards <= MaxGuards
    /\ pc = "loop" => asked = rounds + guards
    /\ InStep /\ site = "main" => asked = rounds + guards + 1
    /\ pc \in {"batch", "afterBatch"} => rounds < Steps
    /\ pc = "prompt" /\ site = "budget" => asked <= Steps + MaxGuards + 1 + tries
    /\ pc = "prompt" /\ site = "recovery" => asked <= Steps + MaxGuards + 1
    /\ InStep /\ site = "budget" => asked <= Steps + MaxGuards + 2 + tries
    /\ InStep /\ site = "recovery" => asked <= Steps + MaxGuards + 2
    /\ asked <= Steps + MaxGuards + 1 + FinalAttempts

\* Every retry used up a compaction or one of the transient retries.
AttemptInv ==
    /\ attempt <= MaxRetries + (MaxShrinks - shrinks)
    /\ pc = "backoff" => attempt < MaxRetries

\* Every step keeps AskedInv.
LEMMA NextAsked == Typed /\ AskedInv /\ [Next]_vars => AskedInv'
<1> SUFFICES ASSUME Typed, AskedInv, [Next]_vars PROVE AskedInv'
  OBVIOUS
<1>0. /\ Steps \in Nat /\ MaxGuards \in Nat /\ rounds \in Nat /\ guards \in Nat
      /\ asked \in Nat /\ tries \in 0..2 /\ FinalAttempts = 3 /\ site \in Sites
      /\ pc \in {"loop", "batch", "afterBatch"} => site = "main"
      /\ pc = "prompt" => site # "main"
  BY LoopAssumption DEF Typed, TypeOK, Placed, FinalAttempts
<1>1. CASE SendUser
  BY <1>1, <1>0 DEF AskedInv, InStep, Sites, SendUser, FreshTurn
<1>2. CASE Cancel
  BY <1>2, <1>0 DEF AskedInv, InStep, Sites, Cancel
<1>3. CASE Reload
  BY <1>3, <1>0 DEF AskedInv, InStep, Sites, Reload, FreshTurn
<1>4. CASE LoopCancelled
  BY <1>4, <1>0 DEF AskedInv, InStep, Sites, LoopCancelled, End
<1>5. CASE ProjectedOverBudget
  BY <1>5, <1>0 DEF AskedInv, InStep, Sites, ProjectedOverBudget,
    BudgetFinal, Go, End
<1>6. CASE ForcedFinal
  BY <1>6, <1>0 DEF AskedInv, InStep, Sites, ForcedFinal, BudgetFinal, Go, End
<1>7. CASE MainStep
  BY <1>7, <1>0 DEF AskedInv, InStep, Sites, MainStep, EnterStep, Go
<1>8. CASE FinalPrompt
  BY <1>8, <1>0 DEF AskedInv, InStep, Sites, FinalPrompt, EnterStep, Go
<1>9. CASE FinalPromptFails
  BY <1>9, <1>0 DEF AskedInv, InStep, Sites, FinalPromptFails, End
<1>10. CASE CallModel
  BY <1>10, <1>0 DEF AskedInv, InStep, Sites, CallModel, Go
<1>11. CASE StepCancelled
  BY <1>11, <1>0 DEF AskedInv, InStep, Sites, StepCancelled, End
<1>12. CASE StreamFinish
  BY <1>12, <1>0 DEF AskedInv, InStep, Sites, StreamFinish, Go
<1>13. CASE StreamFails
  BY <1>13, <1>0 DEF AskedInv, InStep, Sites, StreamFails, Go
<1>14. CASE RetryCompacted
  BY <1>14, <1>0 DEF AskedInv, InStep, Sites, RetryCompacted, Go
<1>15. CASE RetryOrGiveUp
  BY <1>15, <1>0 DEF AskedInv, InStep, Sites, RetryOrGiveUp, Retryable, Go,
    End
<1>16. CASE BackoffOver
  BY <1>16, <1>0 DEF AskedInv, InStep, Sites, BackoffOver, Go
<1>17. CASE PersistedCancelled
  BY <1>17, <1>0 DEF AskedInv, InStep, Sites, PersistedCancelled, End
<1>18. CASE StepReturns
  BY <1>18, <1>0 DEF AskedInv, InStep, Sites, StepReturns, Go
<1>19. CASE AskAgain
  BY <1>19, <1>0 DEF AskedInv, InStep, Sites, AskAgain, Go
<1>20. CASE Accept
  BY <1>20, <1>0 DEF AskedInv, InStep, Sites, Accept, FinalReply, End
<1>21. CASE GuardBlocks
  BY <1>21, <1>0 DEF AskedInv, InStep, Sites, GuardBlocks, FinalReply,
    GuardGivesUp, Go, End
<1>22. CASE InputBudgetSpent
  BY <1>22, <1>0 DEF AskedInv, InStep, Sites, InputBudgetSpent, BudgetFinal,
    ToolReply, Go, End
<1>23. CASE StepBudgetSpent
  BY <1>23, <1>0 DEF AskedInv, InStep, Sites, StepBudgetSpent, BudgetFinal,
    ToolReply, StepsSpent, Go, End
<1>24. CASE StartBatch
  BY <1>24, <1>0 DEF AskedInv, InStep, Sites, StartBatch, ToolReply,
    StepsSpent, Go
<1>25. CASE RecoveryReply
  BY <1>25, <1>0 DEF AskedInv, InStep, Sites, RecoveryReply, End
<1>26. CASE BudgetFinalRetry
  BY <1>26, <1>0 DEF AskedInv, InStep, Sites, BudgetFinalRetry,
    MustRetryFinal, FinalAttempts, Go, End, AppendSkippedToolResults
<1>27. CASE BudgetFinalReply
  BY <1>27, <1>0 DEF AskedInv, InStep, Sites, BudgetFinalReply,
    MustRetryFinal, End
<1>28. CASE SkipOverBudget
  BY <1>28, <1>0 DEF AskedInv, InStep, Sites, SkipOverBudget, AllDone,
    ToolBudgetSpent, Go
<1>29. CASE SkipCancelled
  BY <1>29, <1>0 DEF AskedInv, InStep, Sites, SkipCancelled, AllDone,
    ToolBudgetSpent, Go
<1>30. CASE ToolCall
  BY <1>30, <1>0 DEF AskedInv, InStep, Sites, ToolCall, AllDone, RunsTool,
    ToolBudgetSpent, Go
<1>31. CASE ToolActivates
  BY <1>31, <1>0 DEF AskedInv, InStep, Sites, ToolActivates, AllDone,
    RunsTool, ToolBudgetSpent, Go
<1>32. CASE ToolCalibrates
  BY <1>32, <1>0 DEF AskedInv, InStep, Sites, ToolCalibrates, AllDone,
    RunsTool, ToolBudgetSpent, CalibrationRest, Go
<1>33. CASE BatchCancelled
  BY <1>33, <1>0 DEF AskedInv, InStep, Sites, BatchCancelled, End
<1>34. CASE AskCalibration
  BY <1>34, <1>0 DEF AskedInv, InStep, Sites, AskCalibration, End
<1>35. CASE BatchOverBudget
  BY <1>35, <1>0 DEF AskedInv, InStep, Sites, BatchOverBudget, BudgetFinal,
    Go, End
<1>36. CASE NextRound
  BY <1>36, <1>0 DEF AskedInv, InStep, Sites, NextRound, Go
<1>37. CASE PublishEnd
  BY <1>37, <1>0 DEF AskedInv, InStep, Sites, PublishEnd, Go
<1>38. CASE TakeTurn
  BY <1>38, <1>0 DEF AskedInv, InStep, Sites, TakeTurn, FreshTurn
<1>39. CASE UNCHANGED vars
  BY <1>39 DEF vars, AskedInv, InStep, Sites
<1>40. QED
  BY <1>1, <1>2, <1>3, <1>4, <1>5, <1>6, <1>7, <1>8, <1>9, <1>10, <1>11,
    <1>12, <1>13, <1>14, <1>15, <1>16, <1>17, <1>18, <1>19, <1>20, <1>21,
    <1>22, <1>23, <1>24, <1>25, <1>26, <1>27, <1>28, <1>29, <1>30, <1>31,
    <1>32, <1>33, <1>34, <1>35, <1>36, <1>37, <1>38, <1>39
  DEF Next, TurnStep, LoopTop, Prompting, RunStep, MainReply, FinalStepReply,
    Batch, Ending

\* Every step keeps AttemptInv.
LEMMA NextAttempt == Typed /\ AttemptInv /\ [Next]_vars => AttemptInv'
<1> SUFFICES ASSUME Typed, AttemptInv, [Next]_vars PROVE AttemptInv'
  OBVIOUS
<1>0. /\ MaxRetries \in Nat /\ MaxShrinks \in Nat /\ attempt \in Nat
      /\ shrinks \in 0..MaxShrinks
  BY LoopAssumption DEF Typed, TypeOK
<1>1. CASE SendUser
  BY <1>1, <1>0 DEF AttemptInv, SendUser, FreshTurn
<1>2. CASE Cancel
  BY <1>2, <1>0 DEF AttemptInv, Cancel
<1>3. CASE Reload
  BY <1>3, <1>0 DEF AttemptInv, Reload, FreshTurn
<1>4. CASE LoopCancelled
  BY <1>4, <1>0 DEF AttemptInv, LoopCancelled, End
<1>5. CASE ProjectedOverBudget
  BY <1>5, <1>0 DEF AttemptInv, ProjectedOverBudget, BudgetFinal, Go, End
<1>6. CASE ForcedFinal
  BY <1>6, <1>0 DEF AttemptInv, ForcedFinal, BudgetFinal, Go, End
<1>7. CASE MainStep
  BY <1>7, <1>0 DEF AttemptInv, MainStep, EnterStep, Go
<1>8. CASE FinalPrompt
  BY <1>8, <1>0 DEF AttemptInv, FinalPrompt, EnterStep, Go
<1>9. CASE FinalPromptFails
  BY <1>9, <1>0 DEF AttemptInv, FinalPromptFails, End
<1>10. CASE CallModel
  BY <1>10, <1>0 DEF AttemptInv, CallModel, Go
<1>11. CASE StepCancelled
  BY <1>11, <1>0 DEF AttemptInv, StepCancelled, End
<1>12. CASE StreamFinish
  BY <1>12, <1>0 DEF AttemptInv, StreamFinish, Go
<1>13. CASE StreamFails
  BY <1>13, <1>0 DEF AttemptInv, StreamFails, Go
<1>14. CASE RetryCompacted
  BY <1>14, <1>0 DEF AttemptInv, RetryCompacted, Go
<1>15. CASE RetryOrGiveUp
  BY <1>15, <1>0 DEF AttemptInv, RetryOrGiveUp, Retryable, Go, End
<1>16. CASE BackoffOver
  BY <1>16, <1>0 DEF AttemptInv, BackoffOver, Go
<1>17. CASE PersistedCancelled
  BY <1>17, <1>0 DEF AttemptInv, PersistedCancelled, End
<1>18. CASE StepReturns
  BY <1>18, <1>0 DEF AttemptInv, StepReturns, Go
<1>19. CASE AskAgain
  BY <1>19, <1>0 DEF AttemptInv, AskAgain, Go
<1>20. CASE Accept
  BY <1>20, <1>0 DEF AttemptInv, Accept, FinalReply, End
<1>21. CASE GuardBlocks
  BY <1>21, <1>0 DEF AttemptInv, GuardBlocks, FinalReply, GuardGivesUp, Go,
    End
<1>22. CASE InputBudgetSpent
  BY <1>22, <1>0 DEF AttemptInv, InputBudgetSpent, BudgetFinal, ToolReply,
    Go, End
<1>23. CASE StepBudgetSpent
  BY <1>23, <1>0 DEF AttemptInv, StepBudgetSpent, BudgetFinal, ToolReply,
    StepsSpent, Go, End
<1>24. CASE StartBatch
  BY <1>24, <1>0 DEF AttemptInv, StartBatch, ToolReply, StepsSpent, Go
<1>25. CASE RecoveryReply
  BY <1>25, <1>0 DEF AttemptInv, RecoveryReply, End
<1>26. CASE BudgetFinalRetry
  BY <1>26, <1>0 DEF AttemptInv, BudgetFinalRetry, MustRetryFinal,
    FinalAttempts, Go, End
<1>27. CASE BudgetFinalReply
  BY <1>27, <1>0 DEF AttemptInv, BudgetFinalReply, MustRetryFinal, End
<1>28. CASE SkipOverBudget
  BY <1>28, <1>0 DEF AttemptInv, SkipOverBudget, AllDone, ToolBudgetSpent, Go
<1>29. CASE SkipCancelled
  BY <1>29, <1>0 DEF AttemptInv, SkipCancelled, AllDone, ToolBudgetSpent, Go
<1>30. CASE ToolCall
  BY <1>30, <1>0 DEF AttemptInv, ToolCall, AllDone, RunsTool,
    ToolBudgetSpent, Go
<1>31. CASE ToolActivates
  BY <1>31, <1>0 DEF AttemptInv, ToolActivates, AllDone, RunsTool,
    ToolBudgetSpent, Go
<1>32. CASE ToolCalibrates
  BY <1>32, <1>0 DEF AttemptInv, ToolCalibrates, AllDone, RunsTool,
    ToolBudgetSpent, CalibrationRest, Go
<1>33. CASE BatchCancelled
  BY <1>33, <1>0 DEF AttemptInv, BatchCancelled, End
<1>34. CASE AskCalibration
  BY <1>34, <1>0 DEF AttemptInv, AskCalibration, End
<1>35. CASE BatchOverBudget
  BY <1>35, <1>0 DEF AttemptInv, BatchOverBudget, BudgetFinal, Go, End
<1>36. CASE NextRound
  BY <1>36, <1>0 DEF AttemptInv, NextRound, Go
<1>37. CASE PublishEnd
  BY <1>37, <1>0 DEF AttemptInv, PublishEnd, Go
<1>38. CASE TakeTurn
  BY <1>38, <1>0 DEF AttemptInv, TakeTurn, FreshTurn
<1>39. CASE UNCHANGED vars
  BY <1>39 DEF vars, AttemptInv
<1>40. QED
  BY <1>1, <1>2, <1>3, <1>4, <1>5, <1>6, <1>7, <1>8, <1>9, <1>10, <1>11,
    <1>12, <1>13, <1>14, <1>15, <1>16, <1>17, <1>18, <1>19, <1>20, <1>21,
    <1>22, <1>23, <1>24, <1>25, <1>26, <1>27, <1>28, <1>29, <1>30, <1>31,
    <1>32, <1>33, <1>34, <1>35, <1>36, <1>37, <1>38, <1>39
  DEF Next, TurnStep, LoopTop, Prompting, RunStep, MainReply, FinalStepReply,
    Batch, Ending

\* For all budgets, the work of a turn is bounded: Steps + MaxGuards + 1 calls of
\* the model with tools and three without, each retried at most MaxRetries times
\* plus once per compaction.
THEOREM WorkBoundedCorrect == Spec => []WorkBounded
<1>1. Init => AskedInv /\ AttemptInv
  BY LoopAssumption DEF Init, AskedInv, AttemptInv, InStep, FinalAttempts
<1>2. Typed /\ AskedInv /\ AttemptInv => WorkBounded
  BY LoopAssumption DEF Typed, TypeOK, AskedInv, AttemptInv, WorkBounded
<1>3. QED
  BY <1>1, <1>2, InitTyped, NextTyped, NextAsked, NextAttempt, PTL DEF Spec
-----------------------------------------------------------------------------
\* Once calibration is due, no main step and no batch follows.
CalibInv ==
    calib => /\ force
             /\ \/ pc \in {"afterBatch", "loop", "end", "ended"}
                \/ pc \notin {"idle", "batch"} /\ site # "main"

\* Every step keeps CalibInv.
LEMMA NextCalib == Typed /\ CalibInv /\ [Next]_vars => CalibInv'
<1> SUFFICES ASSUME Typed, CalibInv, [Next]_vars PROVE CalibInv'
  OBVIOUS
<1>0. /\ pc \in {"loop", "batch", "afterBatch"} => site = "main"
      /\ pc = "prompt" => site # "main"
      /\ pc = "batch" => left \in Nat /\ left > 0
      /\ calib \in BOOLEAN
  BY LoopAssumption DEF Typed, TypeOK, Placed
<1>1. CASE SendUser
  BY <1>1, <1>0 DEF CalibInv, SendUser, FreshTurn
<1>2. CASE Cancel
  BY <1>2, <1>0 DEF CalibInv, Cancel
<1>3. CASE Reload
  BY <1>3, <1>0 DEF CalibInv, Reload, FreshTurn
<1>4. CASE LoopCancelled
  BY <1>4, <1>0 DEF CalibInv, LoopCancelled, End
<1>5. CASE ProjectedOverBudget
  BY <1>5, <1>0 DEF CalibInv, ProjectedOverBudget, BudgetFinal, Go, End
<1>6. CASE ForcedFinal
  BY <1>6, <1>0 DEF CalibInv, ForcedFinal, BudgetFinal, Go, End
<1>7. CASE MainStep
  BY <1>7, <1>0 DEF CalibInv, MainStep, EnterStep, Go
<1>8. CASE FinalPrompt
  BY <1>8, <1>0 DEF CalibInv, FinalPrompt, EnterStep, Go
<1>9. CASE FinalPromptFails
  BY <1>9, <1>0 DEF CalibInv, FinalPromptFails, End
<1>10. CASE CallModel
  BY <1>10, <1>0 DEF CalibInv, CallModel, Go
<1>11. CASE StepCancelled
  BY <1>11, <1>0 DEF CalibInv, StepCancelled, End
<1>12. CASE StreamFinish
  BY <1>12, <1>0 DEF CalibInv, StreamFinish, Go
<1>13. CASE StreamFails
  BY <1>13, <1>0 DEF CalibInv, StreamFails, Go
<1>14. CASE RetryCompacted
  BY <1>14, <1>0 DEF CalibInv, RetryCompacted, Go
<1>15. CASE RetryOrGiveUp
  BY <1>15, <1>0 DEF CalibInv, RetryOrGiveUp, Retryable, Go, End
<1>16. CASE BackoffOver
  BY <1>16, <1>0 DEF CalibInv, BackoffOver, Go
<1>17. CASE PersistedCancelled
  BY <1>17, <1>0 DEF CalibInv, PersistedCancelled, End
<1>18. CASE StepReturns
  BY <1>18, <1>0 DEF CalibInv, StepReturns, Go
<1>19. CASE AskAgain
  BY <1>19, <1>0 DEF CalibInv, AskAgain, Go
<1>20. CASE Accept
  BY <1>20, <1>0 DEF CalibInv, Accept, FinalReply, End
<1>21. CASE GuardBlocks
  BY <1>21, <1>0 DEF CalibInv, GuardBlocks, FinalReply, GuardGivesUp, Go, End
<1>22. CASE InputBudgetSpent
  BY <1>22, <1>0 DEF CalibInv, InputBudgetSpent, BudgetFinal, ToolReply, Go,
    End
<1>23. CASE StepBudgetSpent
  BY <1>23, <1>0 DEF CalibInv, StepBudgetSpent, BudgetFinal, ToolReply,
    StepsSpent, Go, End
<1>24. CASE StartBatch
  BY <1>24, <1>0 DEF CalibInv, StartBatch, ToolReply, StepsSpent, Go
<1>25. CASE RecoveryReply
  BY <1>25, <1>0 DEF CalibInv, RecoveryReply, End
<1>26. CASE BudgetFinalRetry
  BY <1>26, <1>0 DEF CalibInv, BudgetFinalRetry, MustRetryFinal,
    FinalAttempts, Go, End
<1>27. CASE BudgetFinalReply
  BY <1>27, <1>0 DEF CalibInv, BudgetFinalReply, MustRetryFinal, End
<1>28. CASE SkipOverBudget
  BY <1>28, <1>0 DEF CalibInv, SkipOverBudget, AllDone, ToolBudgetSpent, Go
<1>29. CASE SkipCancelled
  BY <1>29, <1>0 DEF CalibInv, SkipCancelled, AllDone, ToolBudgetSpent, Go
<1>30. CASE ToolCall
  BY <1>30, <1>0 DEF CalibInv, ToolCall, AllDone, RunsTool, ToolBudgetSpent,
    Go
<1>31. CASE ToolActivates
  BY <1>31, <1>0 DEF CalibInv, ToolActivates, AllDone, RunsTool,
    ToolBudgetSpent, Go
<1>32. CASE ToolCalibrates
  BY <1>32, <1>0 DEF CalibInv, ToolCalibrates, AllDone, RunsTool,
    ToolBudgetSpent, CalibrationRest, Go
<1>33. CASE BatchCancelled
  BY <1>33, <1>0 DEF CalibInv, BatchCancelled, End
<1>34. CASE AskCalibration
  BY <1>34, <1>0 DEF CalibInv, AskCalibration, End
<1>35. CASE BatchOverBudget
  BY <1>35, <1>0 DEF CalibInv, BatchOverBudget, BudgetFinal, Go, End
<1>36. CASE NextRound
  BY <1>36, <1>0 DEF CalibInv, NextRound, Go
<1>37. CASE PublishEnd
  BY <1>37, <1>0 DEF CalibInv, PublishEnd, Go
<1>38. CASE TakeTurn
  BY <1>38, <1>0 DEF CalibInv, TakeTurn, FreshTurn
<1>39. CASE UNCHANGED vars
  BY <1>39 DEF vars, CalibInv
<1>40. QED
  BY <1>1, <1>2, <1>3, <1>4, <1>5, <1>6, <1>7, <1>8, <1>9, <1>10, <1>11,
    <1>12, <1>13, <1>14, <1>15, <1>16, <1>17, <1>18, <1>19, <1>20, <1>21,
    <1>22, <1>23, <1>24, <1>25, <1>26, <1>27, <1>28, <1>29, <1>30, <1>31,
    <1>32, <1>33, <1>34, <1>35, <1>36, <1>37, <1>38, <1>39
  DEF Next, TurnStep, LoopTop, Prompting, RunStep, MainReply, FinalStepReply,
    Batch, Ending

\* With CalibInv, no step that leaves calibration due runs a tool.
LEMMA CalibStep ==
    ASSUME Typed, CalibInv, [Next]_vars, calib, calib'
    PROVE  used' = used
<1>1. pc # "batch" /\ (pc = "respond" => site # "main") /\ pc # "idle"
  BY DEF CalibInv, Typed, Placed
<1>2. CASE SendUser \/ Reload \/ TakeTurn
  BY <1>2 DEF SendUser, Reload, TakeTurn, FreshTurn
<1>3. CASE ToolCall \/ ToolActivates \/ ToolCalibrates
  BY <1>1, <1>3 DEF ToolCall, ToolActivates, ToolCalibrates, RunsTool
<1>4. CASE Cancel \/ LoopTop \/ Prompting
  BY <1>4 DEF Cancel, LoopTop, LoopCancelled, ProjectedOverBudget,
    ForcedFinal, MainStep, Prompting, FinalPrompt, FinalPromptFails
<1>5. CASE RunStep
  BY <1>5 DEF RunStep, CallModel, StepCancelled, StreamFinish, StreamFails,
    RetryCompacted, RetryOrGiveUp, BackoffOver, PersistedCancelled,
    StepReturns
<1>6. CASE MainReply \/ FinalStepReply
  BY <1>6 DEF MainReply, FinalStepReply, AskAgain, Accept, GuardBlocks,
    InputBudgetSpent, StepBudgetSpent, StartBatch, RecoveryReply,
    BudgetFinalRetry, BudgetFinalReply
<1>7. CASE SkipOverBudget \/ SkipCancelled \/ BatchCancelled \/ AskCalibration
           \/ BatchOverBudget \/ NextRound \/ PublishEnd
  BY <1>7 DEF SkipOverBudget, SkipCancelled, BatchCancelled, AskCalibration,
    BatchOverBudget, NextRound, PublishEnd
<1>8. CASE UNCHANGED vars
  BY <1>8 DEF vars
<1>9. QED
  BY <1>2, <1>3, <1>4, <1>5, <1>6, <1>7, <1>8 DEF Next, TurnStep, Batch,
    Ending

\* For all budgets, no tool runs in a turn after a call left a loop-protocol
\* draft that waits for calibration.
THEOREM CalibrationCorrect == Spec => CalibrationStopsTools
<1>1. Init => CalibInv
  BY DEF Init, CalibInv
<1>2. Typed /\ CalibInv /\ [Next]_vars => [calib /\ calib' => used' = used]_vars
  BY CalibStep
<1>3. QED
  BY <1>1, <1>2, InitTyped, NextTyped, NextCalib, PTL DEF Spec,
    CalibrationStopsTools

-----------------------------------------------------------------------------
(* AgentLoop implements module Turn.  Most steps of runTurn are invisible to *)
(* Turn; the ones that are not are mapped one to one.  The only              *)
(* strengthening needed is that no tool is counted between turns.            *)

IdleRan == pc = "idle" => used = 0

\* Inside a turn and away from the model.
Inside(p) == p \notin {"idle", "ended", "stream"}

\* A step that stays inside a turn, and neither cancels it nor counts a tool,
\* is a stutter of Turn.
LEMMA QuietStep ==
    ASSUME Inside(pc), Inside(pc'), UNCHANGED <<cancelled, used>>
    PROVE  UNCHANGED T!tvars
BY DEF Inside, T!tvars, TurnOf

\* A tool call, rejected or dispatched, is RunTool.
LEMMA ToolStep ==
    ASSUME Typed, RunsTool, Inside(pc'), used' = used + 1, UNCHANGED cancelled
    PROVE  T!RunTool
<1>1. used < MaxToolCalls
  BY LoopAssumption DEF RunsTool, ToolBudgetSpent, Typed, TypeOK
<1>2. QED
  BY <1>1 DEF RunsTool, T!RunTool, TurnOf, Inside

\* Every step of the loop is a step of Turn or a stutter.
LEMMA StepImplements ==
    Typed /\ IdleRan /\ [Next]_vars => [T!TNext]_T!tvars
<1> SUFFICES ASSUME Typed, IdleRan, [Next]_vars PROVE [T!TNext]_T!tvars
  OBVIOUS
<1> USE DEF Inside
<1>1. CASE SendUser
  <2>1. T!Accept
    BY <1>1 DEF IdleRan, SendUser, FreshTurn, T!Accept, TurnOf
  <2>2. QED
    BY <2>1 DEF T!TNext
<1>2. CASE Cancel
  <2>1. CASE pc = "ended"
    BY <1>2, <2>1 DEF Cancel, T!tvars, TurnOf, budgetVars
  <2>2. CASE pc # "ended"
    <3>1. T!CancelTurn
      BY <1>2, <2>2 DEF Cancel, T!CancelTurn, TurnOf, budgetVars
    <3>2. QED
      BY <3>1 DEF T!TNext
  <2>3. QED
    BY <2>1, <2>2
<1>3. CASE Reload
  <2>1. CASE pc = "idle"
    BY <1>3, <2>1 DEF IdleRan, Reload, FreshTurn, T!tvars, TurnOf
  <2>2. CASE pc # "idle"
    <3>1. T!Die
      BY <1>3, <2>2 DEF Reload, FreshTurn, T!Die, TurnOf
    <3>2. QED
      BY <3>1 DEF T!TNext
  <2>3. QED
    BY <2>1, <2>2
<1>4. CASE LoopTop
  BY <1>4, QuietStep DEF LoopTop, LoopCancelled, ProjectedOverBudget,
    ForcedFinal, MainStep, BudgetFinal, EnterStep, Go, End, budgetVars
<1>5. CASE Prompting
  BY <1>5, QuietStep DEF Prompting, FinalPrompt, FinalPromptFails, EnterStep,
    Go, End, budgetVars
<1>6. CASE CallModel
  <2>1. T!Ask
    BY <1>6 DEF CallModel, Go, T!Ask, TurnOf, budgetVars
  <2>2. QED
    BY <2>1 DEF T!TNext
<1>7. CASE StreamFinish \/ StreamFails
  <2>1. T!Answer
    BY <1>7 DEF StreamFinish, StreamFails, Go, T!Answer, T!Open, TurnOf,
      budgetVars
  <2>2. QED
    BY <2>1 DEF T!TNext
<1>8. CASE StepCancelled \/ RetryCompacted \/ RetryOrGiveUp \/ BackoffOver
             \/ PersistedCancelled \/ StepReturns
  BY <1>8, QuietStep DEF StepCancelled, RetryCompacted, RetryOrGiveUp,
    BackoffOver, PersistedCancelled, StepReturns, Go, End, budgetVars
<1>9. CASE MainReply
  BY <1>9, QuietStep DEF MainReply, AskAgain, Accept, FinalReply, GuardBlocks,
    InputBudgetSpent, StepBudgetSpent, StartBatch, ToolReply, BudgetFinal, Go,
    End, budgetVars
<1>10. CASE FinalStepReply
  BY <1>10, QuietStep DEF FinalStepReply, RecoveryReply, BudgetFinalRetry,
    BudgetFinalReply, Go, End, budgetVars
<1>11. CASE SkipOverBudget \/ SkipCancelled \/ BatchCancelled \/ AskCalibration
              \/ BatchOverBudget \/ NextRound
  BY <1>11, QuietStep DEF SkipOverBudget, SkipCancelled, BatchCancelled,
    AskCalibration, BatchOverBudget, NextRound, BudgetFinal, AllDone, Go, End,
    budgetVars
<1>12. CASE ToolCall \/ ToolActivates \/ ToolCalibrates
  <2>1. T!RunTool
    BY <1>12, ToolStep DEF ToolCall, ToolActivates, ToolCalibrates, AllDone,
      Go
  <2>2. QED
    BY <2>1 DEF T!TNext
<1>13. CASE PublishEnd
  <2>1. T!Finish
    BY <1>13 DEF PublishEnd, Go, T!Finish, T!Open, TurnOf, budgetVars
  <2>2. QED
    BY <2>1 DEF T!TNext
<1>14. CASE TakeTurn
  <2>1. T!Take
    BY <1>14 DEF TakeTurn, FreshTurn, T!Take, TurnOf
  <2>2. QED
    BY <2>1 DEF T!TNext
<1>15. CASE UNCHANGED vars
  BY <1>15 DEF vars, T!tvars, TurnOf
<1>16. QED
  BY <1>1, <1>2, <1>3, <1>4, <1>5, <1>6, <1>7, <1>8, <1>9, <1>10, <1>11,
    <1>12, <1>13, <1>14, <1>15 DEF Next, TurnStep, RunStep, Batch, Ending

\* No step but TakeTurn and Reload makes the loop idle.
LEMMA NextIdleRan == Typed /\ IdleRan /\ [Next]_vars => IdleRan'
<1> SUFFICES ASSUME Typed, IdleRan, [Next]_vars PROVE IdleRan'
  OBVIOUS
<1>1. CASE T!TNext
  BY <1>1 DEF IdleRan, TurnOf, T!TNext, T!Accept, T!Ask, T!Answer, T!RunTool,
    T!CancelTurn, T!Finish, T!Take, T!Die, T!Open
<1>2. CASE UNCHANGED T!tvars
  BY <1>2 DEF IdleRan, TurnOf, T!tvars
<1>3. QED
  BY <1>1, <1>2, StepImplements

\* For all budgets and batch sizes, the turn loop implements Turn: a cancelled
\* turn starts neither a model call nor a tool, the tool budget holds, and
\* turn.end is published once, with nothing in flight.
THEOREM TurnRefinement == Spec => ImplementsTurn
<1>1. Init => T!TInit /\ IdleRan
  BY DEF Init, T!TInit, TurnOf, IdleRan
<1>2. QED
  BY <1>1, InitTyped, NextTyped, NextIdleRan, StepImplements, PTL
  DEF Spec, ImplementsTurn, T!TurnSpec
=============================================================================
