------------------------------ MODULE Subagent ------------------------------
(***************************************************************************)
(* Delegation: subagent_run and run_task.  A tool call of the turn at      *)
(* depth d - 1 builds a child Loop at depth d, sends it one message and    *)
(* drains its event channel until turn.end or until the calling turn is    *)
(* cancelled (subagent.go, focusedtask.go, child_loop.go).  The child's    *)
(* turn runs in a goroutine of its own, under a context that is NOT        *)
(* derived from the caller's: only loop.Cancel() reaches it.               *)
(*                                                                         *)
(* Level 0 is the session's turn; the others form a chain, for a turn runs *)
(* its tool calls one after the other.  Texts are numbered in the order    *)
(* the child says them; 0 is no text.                                      *)
(***************************************************************************)
EXTENDS Naturals, Sequences

CONSTANTS MaxDepth,    \* SubagentDeps.MaxDepth as configured
          Levels,      \* depths 1..Levels are looked at (one past the bound)
          Capacity,    \* slots of the child's event channel, 128 in the code
          MaxCalls,    \* delegations per level
          MaxSaid      \* events one child turn publishes before it ends

DefaultSubagentMaxDepth == 2

MaxSubagentDepth == 4

SubagentAssumption ==
    /\ MaxDepth \in Nat /\ Levels \in Nat /\ Capacity \in Nat
    /\ MaxCalls \in Nat /\ MaxSaid \in Nat

VARIABLES kind,      \* which tool launched the child of a level
          call,      \* the delegating call: idle, setup, draining, returned
          turn,      \* the child's goroutine: none, running, ended
          reason,    \* how the child's turn ended, none while it runs
          stop,      \* the turn's context is cancelled
          chan,      \* the child's event channel
          said,      \* events the child published or dropped so far
          last,      \* the last text the child said
          heard,     \* finalText of drainSubagent
          result,    \* what the call returned
          held,      \* the child's tools and temporary transcript
          calls      \* delegations so far

vars == <<kind, call, turn, reason, stop, chan, said, last, heard, result, held, calls>>

Depths == 1..Levels

None == [ok |-> FALSE, err |-> FALSE, report |-> 0]
Failed == [ok |-> FALSE, err |-> TRUE, report |-> 0]

Init ==
    /\ kind = [d \in Depths |-> "subagent"]
    /\ call = [d \in Depths |-> "idle"]
    /\ turn = [d \in 0..Levels |-> IF d = 0 THEN "running" ELSE "none"]
    /\ reason = [d \in Depths |-> "none"]
    /\ stop = [d \in 0..Levels |-> FALSE]
    /\ chan = [d \in Depths |-> <<>>]
    /\ said = [d \in Depths |-> 0]
    /\ last = [d \in Depths |-> 0]
    /\ heard = [d \in Depths |-> 0]
    /\ result = [d \in Depths |-> None]
    /\ held = [d \in Depths |-> FALSE]
    /\ calls = [d \in Depths |-> 0]

resolvedMaxDepth ==
    IF MaxDepth = 0 THEN DefaultSubagentMaxDepth
    ELSE IF MaxDepth > MaxSubagentDepth THEN MaxSubagentDepth ELSE MaxDepth

\* deps.Depth = depth: may the child this owner launches delegate in turn?
childMayDelegate(depth) == depth + 1 < resolvedMaxDepth

\* The delegating tools in the registry of a focused task's child.
buildFocusedTaskRegistry == {}

\* The delegating tools the turn at depth d has.  The session registers
\* both; buildSubagentRegistry adds subagent_run alone, below the bound.
Delegates(d) ==
    IF d = 0 THEN {"subagent", "focused"}
    ELSE IF kind[d] = "focused" THEN buildFocusedTaskRegistry
    ELSE IF childMayDelegate(d - 1) THEN {"subagent"} ELSE {}

\* The turn at depth d is executing a delegating call.
Delegating(d) == d + 1 \in Depths /\ call[d + 1] \in {"setup", "draining"}

Free(d) == turn[d] = "running" /\ ~Delegating(d)

(***************************************************************************)
(* The call.  The registrar of the extra tools may fail, in which case     *)
(* what was registered is cleaned up; SendUser looks at the caller's       *)
(* context once, before the child's goroutine is started.                  *)
(***************************************************************************)
Launch(d, k) ==
    /\ Free(d - 1) /\ k \in Delegates(d - 1)
    /\ calls[d] < MaxCalls /\ turn[d] # "running"
    /\ calls' = [calls EXCEPT ![d] = @ + 1]
    /\ kind' = [kind EXCEPT ![d] = k]
    /\ \/ /\ call' = [call EXCEPT ![d] = "setup"]
          /\ held' = [held EXCEPT ![d] = TRUE]
          /\ result' = [result EXCEPT ![d] = None]
       \/ /\ call' = [call EXCEPT ![d] = "returned"]
          /\ result' = [result EXCEPT ![d] = Failed]
          /\ UNCHANGED held
    /\ turn' = [turn EXCEPT ![d] = "none"]
    /\ stop' = [stop EXCEPT ![d] = FALSE]
    /\ UNCHANGED <<reason, chan, said, last, heard>>

runSubagent(d) == Launch(d, "subagent")

runFocusedTask(d) == Launch(d, "focused")

SendUser(d) ==
    /\ call[d] = "setup"
    /\ IF stop[d - 1]
         THEN /\ call' = [call EXCEPT ![d] = "returned"]
              /\ result' = [result EXCEPT ![d] = Failed]
              /\ held' = [held EXCEPT ![d] = FALSE]
              /\ UNCHANGED <<turn, reason, chan, said, last, heard>>
         ELSE /\ call' = [call EXCEPT ![d] = "draining"]
              /\ turn' = [turn EXCEPT ![d] = "running"]
              /\ reason' = [reason EXCEPT ![d] = "none"]
              /\ chan' = [chan EXCEPT ![d] = <<>>]
              /\ said' = [said EXCEPT ![d] = 0]
              /\ last' = [last EXCEPT ![d] = 0]
              /\ heard' = [heard EXCEPT ![d] = 0]
              /\ UNCHANGED <<result, held>>
    /\ UNCHANGED <<kind, stop, calls>>

(***************************************************************************)
(* The child's turn.  publish drops the event when the channel is full,    *)
(* whatever the event is.                                                  *)
(***************************************************************************)
publish(d, ev) ==
    chan' = [chan EXCEPT ![d] = IF Len(@) < Capacity THEN Append(@, ev) ELSE @]

\* message.done of one assistant step, or a delta (text 0) of it.
Say(d, text) ==
    /\ Free(d) /\ said[d] < MaxSaid
    /\ said' = [said EXCEPT ![d] = @ + 1]
    /\ last' = [last EXCEPT ![d] = IF text THEN said'[d] ELSE @]
    /\ publish(d, [type |-> IF text THEN "message" ELSE "delta",
                   value |-> IF text THEN said'[d] ELSE 0])
    /\ UNCHANGED <<kind, call, turn, reason, stop, heard, result, held, calls>>

EndTurnMutant(d, why) ==
    /\ Free(d)
    /\ why \in {"completed", "max_turns"} \/ stop[d]
    /\ turn' = [turn EXCEPT ![d] = "ended"]
    /\ reason' = [reason EXCEPT ![d] = why]
    /\ IF why = "completed" THEN publish(d, [type |-> "end", value |-> 1])
                            ELSE UNCHANGED chan
    /\ UNCHANGED <<kind, call, stop, said, last, heard, result, held, calls>>

\* runTurn ends: turn.end is its last event.  A cancelled turn may still
\* have completed.
EndTurn(d, why) ==
    /\ Free(d)
    /\ why \in {"completed", "max_turns"} \/ stop[d]
    /\ turn' = [turn EXCEPT ![d] = "ended"]
    /\ reason' = [reason EXCEPT ![d] = why]
    /\ publish(d, [type |-> "end", value |-> IF why = "completed" THEN 1 ELSE 0])
    /\ UNCHANGED <<kind, call, stop, said, last, heard, result, held, calls>>

\* The session's own turn ends or is cancelled by its user.
CancelRoot ==
    /\ ~stop[0] /\ stop' = [stop EXCEPT ![0] = TRUE]
    /\ UNCHANGED <<kind, call, turn, reason, chan, said, last, heard, result, held, calls>>

EndRoot ==
    /\ Free(0) /\ turn' = [turn EXCEPT ![0] = "ended"]
    /\ UNCHANGED <<kind, call, reason, stop, chan, said, last, heard, result, held, calls>>

(***************************************************************************)
(* drainSubagent and what runSubagent makes of its result: ok only for a   *)
(* completed turn with a report without open gaps (gaps are a property of  *)
(* the text: a choice here).  A focused task that completed is ok unless   *)
(* its own JSON says otherwise or lists only findings without evidence; an *)
(* answer that does not parse, the empty one too, is ok with a warning.    *)
(***************************************************************************)
Return(d, res) ==
    /\ call' = [call EXCEPT ![d] = "returned"]
    /\ result' = [result EXCEPT ![d] = res]
    /\ held' = [held EXCEPT ![d] = FALSE]

runSubagentOk(why, report) == {why = 1 /\ report > 0, FALSE}

buildFocusedTaskResult(why) == {why = 1, FALSE}

Verdicts(d, why) ==
    IF kind[d] = "focused" THEN buildFocusedTaskResult(why)
                           ELSE runSubagentOk(why, heard[d])

drainSubagent(d) ==
    /\ call[d] = "draining" /\ chan[d] # <<>>
    /\ LET ev == Head(chan[d]) IN
         /\ chan' = [chan EXCEPT ![d] = Tail(@)]
         /\ heard' = [heard EXCEPT ![d] = IF ev.type = "message" THEN ev.value ELSE @]
         /\ IF ev.type = "end"
              THEN \E ok \in Verdicts(d, ev.value) :
                     Return(d, [ok |-> ok, err |-> FALSE, report |-> heard[d]])
              ELSE UNCHANGED <<call, result, held>>
    /\ UNCHANGED <<kind, turn, reason, stop, said, last, calls>>

drainCancelledMutant(d) ==
    /\ call[d] = "draining" /\ stop[d - 1]
    /\ Return(d, [ok |-> FALSE, err |-> TRUE, report |-> heard[d]])
    /\ UNCHANGED <<kind, turn, reason, stop, chan, said, last, heard, calls>>

\* ctx.Done() wins the select: runChildLoop cancels the child and returns,
\* and the deferred cleanups run.
drainCancelled(d) ==
    /\ call[d] = "draining" /\ stop[d - 1]
    /\ stop' = [stop EXCEPT ![d] = TRUE]
    /\ Return(d, [ok |-> FALSE, err |-> TRUE, report |-> heard[d]])
    /\ UNCHANGED <<kind, turn, reason, chan, said, last, heard, calls>>

Reasons == {"completed", "max_turns", "cancelled"}

\* Everything has ended: the run stays as it is.
Done ==
    /\ \A d \in 0..Levels : turn[d] # "running"
    /\ UNCHANGED vars

Next ==
    \/ \E d \in Depths :
         \/ runSubagent(d)
         \/ runFocusedTask(d)
         \/ SendUser(d)
         \/ \E text \in BOOLEAN : Say(d, text)
         \/ \E why \in Reasons : EndTurn(d, why)
         \/ drainSubagent(d)
         \/ drainCancelled(d)
    \/ CancelRoot
    \/ EndRoot
    \/ Done

Spec == Init /\ [][Next]_vars

(***************************************************************************)
(* Every goroutine that can run runs.  A child's turn ends at the next     *)
(* step it takes once its context is cancelled; its step budget            *)
(* (MaxTurnSteps) ends it otherwise.  Cancelling is never forced.          *)
(* StopSpec leaves the budget out: only a cancellation ends a child.       *)
(***************************************************************************)
Fairness ==
    \A d \in Depths :
      /\ WF_vars(SendUser(d))
      /\ WF_vars(drainSubagent(d))
      /\ WF_vars(drainCancelled(d))

TurnEnds(d) == \E why \in Reasons : EndTurn(d, why)

StopEnds(d) == stop[d] /\ TurnEnds(d)

StopSpec == Spec /\ Fairness /\ \A d \in Depths : WF_vars(StopEnds(d))

FairSpec == Spec /\ Fairness /\ \A d \in Depths : WF_vars(TurnEnds(d))

-----------------------------------------------------------------------------
TypeOK ==
    /\ kind \in [Depths -> {"subagent", "focused"}]
    /\ call \in [Depths -> {"idle", "setup", "draining", "returned"}]
    /\ turn \in [0..Levels -> {"none", "running", "ended"}]
    /\ reason \in [Depths -> Reasons \union {"none"}]
    /\ stop \in [0..Levels -> BOOLEAN]
    /\ \A d \in Depths : Len(chan[d]) <= Capacity
    /\ held \in [Depths -> BOOLEAN]

\* Delegation is bounded: no child runs deeper than the resolved MaxDepth
\* (buildSubagentRegistry: "bounded nested subagent tool while MaxDepth
\* allows it"), and a focused task's child never delegates at all.
DepthBounded ==
    \A d \in Depths :
      turn[d] = "running" =>
        /\ d <= resolvedMaxDepth
        /\ d > 1 /\ turn[d - 1] = "running" => kind[d - 1] # "focused"

\* No orphan: a child whose call is over has been told to stop, so nobody
\* burns model calls for a caller that has gone (runChildLoop cancels the
\* child on every error path of the drain).
NoOrphan ==
    \A d \in Depths :
      turn[d] = "running" /\ ~stop[d] => call[d] = "draining"

\* What a child is reported to have achieved it achieved: ok=true only when
\* the child's turn ended as completed, and a subagent also said something.
OkIsEarned ==
    \A d \in Depths :
      call[d] = "returned" /\ result[d].ok =>
        reason[d] = "completed" /\ (kind[d] = "subagent" => last[d] > 0)

\* Delegation stays within its bounds and tells the truth.
SubagentsContained == DepthBounded /\ NoOrphan /\ OkIsEarned

\* childRunResult.Report is the "last message.done text from the child"
\* (child_loop.go:64): a report handed up as ok is the child's last word.
ReportIsLast ==
    \A d \in Depths :
      call[d] = "returned" /\ result[d].ok => result[d].report = last[d]

\* child_loop.go:34: the temporary transcript directory "is removed after
\* the run": the child's files and tools outlive its turn.
ReleasedAfterRun ==
    \A d \in Depths : turn[d] = "running" => held[d]

\* A cancelled session stops the whole chain below it, level by level, also
\* children that would not have ended by themselves.
AllStopped == \A d \in Depths : turn[d] # "running"

Stopping == stop[0]

CancelReachesAll == Stopping ~> AllStopped

\* A delegating call comes back: drainSubagent returns once the child's
\* turn has ended ("we'd rather drop a delta than deadlock", loop.go:3122).
Draining(d) == call[d] = "draining"

Drained(d) == call[d] = "returned"

DrainEnds == \A d \in Depths : Draining(d) ~> Drained(d)
=============================================================================
