-------------------------------- MODULE Plan --------------------------------
(***************************************************************************)
(* The persisted task plan of a session (plan.json): the plan tool the     *)
(* model calls during a turn, the three kinds of turn that may call it,    *)
(* the HTTP handler that prepares an execute_plan turn from a summary of   *)
(* the file, and the HTTP DELETE that removes the file.                    *)
(*                                                                         *)
(* The tool reads the file, decides, and renames a new file into place     *)
(* under a mutex of its own, which the HTTP handlers do not take: the read *)
(* and the write are two steps.  A step of a plan is its canonical text    *)
(* and its status; evidence and notes decide nothing.  No file and a file  *)
(* without steps are both <<>>.                                            *)
(***************************************************************************)
EXTENDS Naturals, Sequences, FiniteSets, SequencesExt

CONSTANTS
    Texts,          \* canonical step texts
    MaxSteps,       \* maxPlanSteps
    HandEdited,     \* may the file have been edited by hand before
    Modes,          \* the kinds of turn in use
    Batches,        \* may an update carry several step updates
    Deletes         \* may a client DELETE the plan

PlanBounds == MaxSteps \in Nat \ {0}

VARIABLES
    file,       \* the steps in plan.json
    turn,       \* the turn in flight: its mode and the step it may update
    call,       \* the plan call in progress: what it will write
    request     \* execute_plan handler: the step index it has read, or 0

vars == <<file, turn, call, request>>

Statuses == {"pending", "in_progress", "completed", "blocked"}
Step == [text : Texts, status : Statuses]
Plans == SeqOf(Step, MaxSteps)
Left == SeqOf(Step, MaxSteps + 1)    \* what a person may leave in the file

NoTurn == [mode |-> "none", step |-> 0]
NoCall == [action |-> "none", indexes |-> {}, new |-> <<>>]

-----------------------------------------------------------------------------
(* What is read from and written to the file.                              *)

InProgress(steps) == {i \in DOMAIN steps : steps[i].status = "in_progress"}

\* normalizePlanSteps: a plan with a repeated text or two active steps is
\* refused, and so is an empty or an overlong one.
normalizePlanSteps(steps) ==
    /\ steps # <<>> /\ Len(steps) <= MaxSteps
    /\ \A i, j \in DOMAIN steps : steps[i].text = steps[j].text => i = j
    /\ Cardinality(InProgress(steps)) <= 1

\* normalizePersistedPlanSteps: the first step of each text is kept, and all
\* active steps but the first go back to pending.
normalizePersistedPlanSteps(steps) ==
    FoldLeft(LAMBDA out, s :
                 IF \E i \in DOMAIN out : out[i].text = s.text THEN out
                 ELSE out \o << IF s.status = "in_progress" /\ InProgress(out) # {}
                                THEN [s EXCEPT !.status = "pending"] ELSE s >>,
             <<>>, steps)

\* readPlanState fails on a file that is still too long once normalised.
Readable(steps) == Len(normalizePersistedPlanSteps(steps)) <= MaxSteps

planHasOpenWork(steps) == \E i \in DOMAIN steps : steps[i].status # "completed"

First(steps, S) ==
    LET idx == {i \in DOMAIN steps : steps[i].status \in S}
    IN  IF idx = {} THEN 0 ELSE CHOOSE i \in idx : \A j \in idx : i <= j

\* activePlanCurrentStepIndex: what the tool and the prompt call current.
activePlanCurrentStepIndex(steps) ==
    IF First(steps, {"in_progress"}) # 0 THEN First(steps, {"in_progress"})
    ELSE IF First(steps, {"pending"}) # 0 THEN First(steps, {"pending"})
    ELSE First(steps, {"blocked"})

\* Mutant: only the step after the updated one, if any, may start.
autoAdvancePlanMutant(steps) ==
    LET done == {i \in DOMAIN steps : steps[i].status = "completed"}
        next == {i \in DOMAIN steps : i - 1 \in done /\ steps[i].status = "pending"}
    IN  IF InProgress(steps) # {} \/ next = {} THEN steps
        ELSE [steps EXCEPT ![CHOOSE i \in next : \A j \in next : i <= j].status = "in_progress"]

\* autoAdvancePlan: without an active step the first pending one starts.
autoAdvancePlan(steps) ==
    IF InProgress(steps) # {} \/ First(steps, {"pending"}) = 0 THEN steps
    ELSE [steps EXCEPT ![First(steps, {"pending"})].status = "in_progress"]

\* SummarizeJSON, over the file as it is: a step is dropped only when both
\* its text and its status were seen, and a blocked step ranks above a
\* pending one.
Summarized(steps) ==
    FoldLeft(LAMBDA out, s : IF \E i \in DOMAIN out : out[i] = s THEN out ELSE out \o <<s>>,
             <<>>, steps)

currentStepPriority == [in_progress |-> 3, blocked |-> 2, pending |-> 1, completed |-> 0]

SummaryIndex(steps) ==
    LET s    == Summarized(steps)
        rank == [i \in DOMAIN s |-> currentStepPriority[s[i].status]]
        best == {i \in DOMAIN s : rank[i] > 0 /\ \A j \in DOMAIN s : rank[j] <= rank[i]}
    IN  IF best = {} THEN 0 ELSE CHOOSE i \in best : \A j \in best : i <= j

\* prepareSessionExecutePlan accepts a plan that exists, is not done and has
\* no blocked step.
Executable(steps) ==
    /\ SummaryIndex(steps) # 0
    /\ \A i \in DOMAIN steps : steps[i].status # "blocked"

-----------------------------------------------------------------------------
(* Turns.                                                                  *)

StartTurn(mode) ==
    /\ turn = NoTurn
    /\ mode \in Modes \cap {"normal", "plan_only"}
    /\ turn' = [mode |-> mode, step |-> 0]
    /\ UNCHANGED <<file, call, request>>

\* The handler of an execute_plan message reads the summary first ...
PrepareExecute ==
    /\ "execute_plan" \in Modes
    /\ request = 0 /\ Executable(file)
    /\ request' = SummaryIndex(file)
    /\ UNCHANGED <<file, turn, call>>

\* ... and starts the turn with the index it read, or answers 409.
StartExecute ==
    /\ request # 0
    /\ turn' = IF turn = NoTurn THEN [mode |-> "execute_plan", step |-> request] ELSE turn
    /\ request' = 0
    /\ UNCHANGED <<file, call>>

EndTurn ==
    /\ turn # NoTurn /\ call = NoCall
    /\ turn' = NoTurn
    /\ UNCHANGED <<file, call, request>>

-----------------------------------------------------------------------------
(* The plan tool.  An update is a partial function from step indexes to    *)
(* the replaced text and status.                                           *)

Updates(steps) ==
    LET n == IF Batches THEN 2 ELSE 1
    IN  UNION {[S -> Step] : S \in {T \in SUBSET DOMAIN steps : T # {} /\ Cardinality(T) <= n}}

\* PlanExecuteToolCallPolicyForStep: an execute turn may not set or clear,
\* and a single update must name its step.  A batch has no top-level index,
\* so planIndexFromRawArgs reads 0 and the policy lets it through.
Permitted(action, indexes) ==
    turn.mode = "execute_plan" =>
        /\ action = "update"
        /\ Cardinality(indexes) = 1 => indexes = {turn.step}

Calling(action, indexes, new) ==
    call' = [action |-> action, indexes |-> indexes, new |-> new]

ReadForSet(steps) ==
    /\ turn # NoTurn /\ call = NoCall
    /\ Permitted("set", {})
    /\ Readable(file) /\ ~planHasOpenWork(normalizePersistedPlanSteps(file))
    /\ normalizePlanSteps(steps)
    /\ Calling("set", {}, steps)
    /\ UNCHANGED <<file, turn, request>>

\* applyPlanToolUpdate, autoAdvancePlan, then the checks of a new plan.
Updated(st, u) ==
    autoAdvancePlan([i \in DOMAIN st |-> IF i \in DOMAIN u THEN u[i] ELSE st[i]])

ReadForUpdate ==
    LET st == normalizePersistedPlanSteps(file)
    IN  /\ turn # NoTurn /\ call = NoCall
        /\ Readable(file) /\ st # <<>>
        /\ \E u \in Updates(st) :
               /\ Permitted("update", DOMAIN u)
               /\ normalizePlanSteps(Updated(st, u))
               /\ Calling("update", DOMAIN u, Updated(st, u))
        /\ UNCHANGED <<file, turn, request>>

\* writePlanState renames the new file into place, whatever is there now.
WritePlan ==
    /\ call # NoCall
    /\ file' = call.new
    /\ call' = NoCall
    /\ UNCHANGED <<turn, request>>

\* A failed write leaves the old file.
WriteFails ==
    /\ call # NoCall
    /\ call' = NoCall
    /\ UNCHANGED <<file, turn, request>>

ClearPlan ==
    /\ turn # NoTurn /\ call = NoCall
    /\ Permitted("clear", {})
    /\ file' = <<>>
    /\ UNCHANGED <<turn, call, request>>

\* clearSessionPlan, from any client at any time.
DeletePlan ==
    /\ Deletes /\ file # <<>>
    /\ file' = <<>>
    /\ UNCHANGED <<turn, call, request>>

Init ==
    /\ file \in IF HandEdited THEN Left ELSE {<<>>}
    /\ turn = NoTurn
    /\ call = NoCall
    /\ request = 0

Next ==
    \/ \E m \in Modes : StartTurn(m)
    \/ PrepareExecute \/ StartExecute \/ EndTurn
    \/ \E steps \in Plans : ReadForSet(steps)
    \/ ReadForUpdate
    \/ WritePlan \/ WriteFails \/ ClearPlan \/ DeletePlan

Spec == Init /\ [][Next]_vars

-----------------------------------------------------------------------------
Tidy(steps) ==
    /\ \A i, j \in DOMAIN steps : steps[i].text = steps[j].text => i = j
    /\ Cardinality(InProgress(steps)) <= 1

\* The plan a call writes has distinct steps and at most one active step,
\* also when the file it started from was edited by hand.
WritesTidy == file' # file => Tidy(file')

\* Unfinished work is never replaced: while a plan has an unfinished step,
\* the number of its steps only changes because the plan is removed.
OpenWorkKept ==
    LET was == normalizePersistedPlanSteps(file)
    IN  (\E i \in DOMAIN was : was[i].status # "completed") /\ file' \notin {<<>>, file} =>
            Len(file') = Len(was)

\* After an update there is an active step whenever a step is waiting.
AlwaysAdvances ==
    call.action = "update" /\ file' # file /\ (\E i \in DOMAIN file' : file'[i].status = "pending")
        => InProgress(file') # {}

\* On a plan the tool wrote, the step the HTTP summary calls current is the
\* step the tool calls current, so an execute turn is prepared for the step
\* the prompt will name.
SummaryAgrees ==
    Tidy(file) /\ Executable(file) =>
        SummaryIndex(file) = activePlanCurrentStepIndex(normalizePersistedPlanSteps(file))

\* An execute turn changes the step it was started for; another step may at
\* most be advanced from pending to in_progress.
ExecuteOnlyCurrent ==
    turn.mode = "execute_plan" /\ call.action = "update" /\ file' # file /\ file # <<>> =>
        \A i \in DOMAIN file' \ {turn.step} :
            LET was == normalizePersistedPlanSteps(file)
            IN  \/ file'[i] = was[i]
                \/ was[i].status = "pending" /\ file'[i] = [was[i] EXCEPT !.status = "in_progress"]

\* The step an execute turn is bound to is the current step of the plan when
\* the turn starts.
ExecutesCurrent ==
    [][turn = NoTurn /\ turn'.mode = "execute_plan" =>
           turn'.step = activePlanCurrentStepIndex(normalizePersistedPlanSteps(file))]_vars

\* A plan that was removed stays removed until a call that began afterwards
\* sets a new one: an update never brings a plan back.
RemovedStaysRemoved == [][call.action = "update" /\ file = <<>> => file' = <<>>]_vars
=============================================================================
