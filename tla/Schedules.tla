----------------------------- MODULE Schedules -----------------------------
(***************************************************************************)
(* The scheduled turns of one session (cmd/affentserve/                    *)
(* session_schedules.go, session_schedule_tool.go): schedules.json, the    *)
(* API and the tool that edit it, the goroutine that claims and starts due *)
(* schedules, and the session's fanout goroutine, which sees the events of *)
(* a turn and records its outcome.                                         *)
(*                                                                         *)
(* Every read-modify-write of the file happens under schedulesMu and is    *)
(* one step.  What is not: the check that the session is idle, the claim,  *)
(* the start of the turn, and the handling of each of its events.          *)
(***************************************************************************)
EXTENDS Integers, Sequences, FiniteSets

CONSTANTS
    MaxCreated,    \* bound: schedules ever created
    MaxSchedules,  \* maxSessionSchedules
    Intervals,     \* repeat intervals of new schedules; 0 for a one-shot
    RetryDelay,    \* sessionScheduleRetryDelay
    Horizon,       \* bound: the last instant
    MaxTurns,      \* bound: turns started
    MaxEdits       \* bound: updates and deletes

ScheduleAssumption ==
    /\ MaxCreated \in Nat /\ MaxSchedules \in Nat /\ Horizon \in Nat
    /\ MaxTurns \in Nat /\ MaxEdits \in Nat
    /\ RetryDelay \in Nat \ {0}
    /\ Intervals \subseteq Nat

VARIABLES
    file,     \* schedules.json: a sequence of schedules
    created,  \* the number of schedules created so far, their ids
    now,
    sweep,    \* the schedule loop: what it is about to do
    claims,   \* SessionPool.scheduleClaims: id -> the time of the claim
    turn,     \* Loop.current: the turn in flight
    events,   \* the session's event channel
    active,   \* Session.activeTurns
    seen,     \* Session.scheduleTurns: turn -> the run it belongs to
    ending,   \* the fanout has recorded a turn.end and has yet to count it
    loopOn,   \* is LOOP.md running (loop_tick schedules need it)
    turns, edits,
    done      \* history: the slots whose turn completed

vars == <<file, created, now, sweep, claims, turn, events, active, seen, ending,
          loopOn, turns, edits, done>>
\* What the schedule loop, and what the turn and the fanout, leave alone.
editVars == <<created, now, loopOn, edits>>

Kinds == {"custom", "loop_tick"}
Schedule == [id : 1..MaxCreated, kind : Kinds, enabled : BOOLEAN, next : Nat,
             every : Intervals]
NoRun == [id |-> 0, at |-> 0]
NoTurn == [n |-> 0, id |-> 0, slot |-> 0, told |-> FALSE]

TypeOK ==
    /\ file \in Seq(Schedule) /\ Len(file) <= MaxSchedules
    /\ created \in 0..MaxCreated /\ now \in 0..Horizon
    /\ sweep \in [at : {"idle", "look", "claim", "start"}, id : Nat, time : Nat, slot : Nat]
    /\ DOMAIN claims \subseteq 1..MaxCreated
    /\ turn \in [n : Nat, id : Nat, slot : Nat, told : BOOLEAN]
    /\ active \in Nat /\ ending \in BOOLEAN /\ loopOn \in BOOLEAN

SweepIdle == [at |-> "idle", id |-> 0, time |-> 0, slot |-> 0]
Nothing == [x \in {} |-> 0]

Init ==
    /\ file = <<>> /\ created = 0 /\ now = 0
    /\ sweep = SweepIdle
    /\ claims = Nothing
    /\ turn = NoTurn /\ events = <<>> /\ active = 0
    /\ seen = Nothing /\ ending = FALSE
    /\ loopOn \in BOOLEAN
    /\ turns = 0 /\ edits = 0 /\ done = {}

Ids == {file[i].id : i \in 1..Len(file)}
\* The file with the schedule id, if it is still there, as in new.
Change(id, new) ==
    [i \in 1..Len(file) |-> IF file[i].id = id THEN new[i] ELSE file[i]]
Forget(fun, x) == [y \in DOMAIN fun \ {x} |-> fun[y]]
Remember(fun, x, v) == [y \in DOMAIN fun \cup {x} |-> IF y = x THEN v ELSE fun[y]]
-----------------------------------------------------------------------------
(* The API and the session_schedule tool. *)

\* createSessionSchedule, sessionScheduleToolCreate.
Create(kind, every) ==
    /\ created < MaxCreated /\ Len(file) < MaxSchedules
    /\ kind = "loop_tick" => loopOn
    /\ \E start \in {now, now + 1}, on \in BOOLEAN :
          file' = Append(file, [id |-> created + 1, kind |-> kind, enabled |-> on,
                                next |-> start, every |-> every])
    /\ created' = created + 1
    /\ UNCHANGED <<now, sweep, claims, turn, events, active, seen, ending, loopOn,
                   turns, edits, done>>

\* handleSessionScheduleUpdate, sessionScheduleToolUpdate: pause or resume.
Update(id, on) ==
    /\ edits < MaxEdits
    /\ id \in Ids
    /\ on => \A i \in 1..Len(file) : file[i].id = id /\ file[i].kind = "loop_tick" => loopOn
    /\ file' = Change(id, [i \in 1..Len(file) |-> [file[i] EXCEPT !.enabled = on]])
    /\ edits' = edits + 1
    \* Resuming by hand asks for the slot again.
    /\ done' = IF on THEN {d \in done : d[1] # id} ELSE done
    /\ UNCHANGED <<created, now, sweep, claims, turn, events, active, seen, ending,
                   loopOn, turns>>

\* handleSessionScheduleDelete, sessionScheduleToolDelete; ids are distinct.
Delete(id) ==
    /\ edits < MaxEdits
    /\ \E i \in 1..Len(file) :
          /\ file[i].id = id
          /\ file' = [j \in 1..(Len(file) - 1) |-> file[IF j < i THEN j ELSE j + 1]]
    /\ edits' = edits + 1
    /\ UNCHANGED <<created, now, sweep, claims, turn, events, active, seen, ending,
                   loopOn, turns, done>>

\* The loop protocol starts or stops running (another component).
LoopSwitch ==
    /\ edits < MaxEdits
    /\ loopOn' = ~loopOn
    /\ edits' = edits + 1
    /\ UNCHANGED <<file, created, now, sweep, claims, turn, events, active, seen,
                   ending, turns, done>>

Tick ==
    /\ now < Horizon
    /\ now' = now + 1
    /\ UNCHANGED <<file, created, sweep, claims, turn, events, active, seen, ending,
                   loopOn, turns, edits, done>>
-----------------------------------------------------------------------------
(* scheduleLoop and runDueSessionSchedulesOnce.  The instant of a sweep is     *)
(* taken once, before the first look.                                         *)

SweepBegins ==
    /\ sweep.at = "idle"
    /\ sweep' = [SweepIdle EXCEPT !.at = "look", !.time = now]
    /\ UNCHANGED <<file, claims, turn, events, active, seen, ending, turns, done>>
    /\ UNCHANGED editVars

SweepLooksMutant ==
    /\ sweep.at = "look"
    /\ sweep' = [sweep EXCEPT !.at = "claim"]
    /\ UNCHANGED <<file, claims, turn, events, active, seen, ending, turns, done>>
    /\ UNCHANGED editVars
\* A session with an active turn is skipped.
SweepLooks ==
    /\ sweep.at = "look"
    /\ sweep' = IF active > 0 THEN SweepIdle ELSE [sweep EXCEPT !.at = "claim"]
    /\ UNCHANGED <<file, claims, turn, events, active, seen, ending, turns, done>>
    /\ UNCHANGED editVars

Due(s) == s.enabled /\ s.next <= sweep.time
Unavailable(s) == s.kind = "loop_tick" /\ ~loopOn

\* claimNextDueSessionSchedule: the first due schedule; the loop_tick schedules in
\* front of it that cannot run are paused.  The claim itself is not in the file.
SweepClaims ==
    LET runnable == {i \in 1..Len(file) : Due(file[i]) /\ ~Unavailable(file[i])}
        PauseBefore(first) ==
            file' = [i \in 1..Len(file) |->
                       [file[i] EXCEPT !.enabled =
                           @ /\ ~(i < first /\ Due(file[i]) /\ Unavailable(file[i]))]]
    IN  /\ sweep.at = "claim"
        /\ \/ /\ runnable = {}
              /\ PauseBefore(Len(file) + 1)
              /\ sweep' = SweepIdle
           \/ \E first \in runnable :
                 /\ \A i \in runnable : first <= i
                 /\ PauseBefore(first)
                 /\ sweep' = [at |-> "start", id |-> file[first].id, time |-> sweep.time,
                              slot |-> file[first].next]
        /\ UNCHANGED <<claims, turn, events, active, seen, ending, turns, done>>
        /\ UNCHANGED editVars

\* recordSessionScheduleFailure: retry later, except after a cancellation.
Failed(id, at, reason) ==
    LET retry(s) == IF reason = "cancelled" THEN [s EXCEPT !.enabled = FALSE]
                    ELSE [s EXCEPT !.enabled = TRUE, !.next = at + RetryDelay]
    IN  file' = Change(id, [i \in 1..Len(file) |-> retry(file[i])])

NewTurn(id, slot) == [n |-> turns + 1, id |-> id, slot |-> slot, told |-> FALSE]

\* executeClaimedSessionSchedule, when the loop is free: the claim is remembered
\* and Session.SendUserWithOptions starts the turn.
SweepStarts ==
    /\ sweep.at = "start" /\ turn = NoTurn /\ turns < MaxTurns
    /\ claims' = Remember(claims, sweep.id, sweep.time)
    /\ turn' = NewTurn(sweep.id, sweep.slot)
    /\ turns' = turns + 1
    /\ active' = active + 1
    /\ sweep' = SweepIdle
    /\ UNCHANGED <<file, events, seen, ending, done>>
    /\ UNCHANGED editVars

\* A claim whose turn could not start is forgotten.
ForgetFailed(id) == claims' = Forget(claims, id)

\* The session cannot be built, or a turn is in flight: SendUserWithOptions fails.
SweepFails ==
    /\ sweep.at = "start"
    /\ Failed(sweep.id, sweep.time, "error")
    /\ ForgetFailed(sweep.id)
    /\ sweep' = SweepIdle
    /\ UNCHANGED <<turn, events, active, seen, ending, turns, done>>
    /\ UNCHANGED editVars
-----------------------------------------------------------------------------
(* The turn and the fanout. *)

\* A user's message.
UserTurn ==
    /\ turn = NoTurn /\ turns < MaxTurns
    /\ turn' = NewTurn(0, 0)
    /\ turns' = turns + 1
    /\ active' = active + 1
    /\ UNCHANGED <<file, sweep, claims, events, seen, ending, done>>
    /\ UNCHANGED editVars

\* runTurn publishes user.message first...
PublishUserMessage ==
    /\ turn # NoTurn /\ ~turn.told
    /\ turn' = [turn EXCEPT !.told = TRUE]
    /\ events' = Append(events, [type |-> "user.message", n |-> turn.n, id |-> turn.id,
                                 reason |-> ""])
    /\ UNCHANGED <<file, sweep, claims, active, seen, ending, turns, done>>
    /\ UNCHANGED editVars

\* ...and turn.end last.  Then the loop takes a new turn.
PublishTurnEnd(reason) ==
    /\ turn # NoTurn /\ turn.told
    /\ events' = Append(events, [type |-> "turn.end", n |-> turn.n, id |-> turn.id,
                                 reason |-> reason])
    /\ turn' = NoTurn
    /\ done' = IF turn.id > 0 /\ reason = "completed"
               THEN done \cup {<<turn.id, turn.slot>>} ELSE done
    /\ UNCHANGED <<file, sweep, claims, active, seen, ending, turns>>
    /\ UNCHANGED editVars

\* observeScheduledTurn.
ObserveUserMessage ==
    /\ events # <<>> /\ ~ending
    /\ LET ev == Head(events)
       IN  /\ ev.type = "user.message"
           /\ seen' = IF ev.id = 0 THEN seen
                      ELSE Remember(seen, ev.n,
                             [id |-> ev.id,
                              at |-> IF ev.id \in DOMAIN claims THEN claims[ev.id] ELSE -1])
    /\ events' = Tail(events)
    /\ UNCHANGED <<file, sweep, claims, turn, active, ending, turns, done>>
    /\ UNCHANGED editVars

\* nextSessionScheduleRunAt: the first slot after the claim, in step with the
\* slots so far.
nextSessionScheduleRunAt(current, every, at) ==
    LET next == current + every
    IN  IF next > at THEN next ELSE next + ((at - next) \div every + 1) * every

\* recordSessionScheduleSuccess: a repeating schedule moves on, a one-shot is over.
Succeeded(id, at) ==
    LET advance(s) == IF s.every > 0
                      THEN [s EXCEPT !.next = nextSessionScheduleRunAt(s.next, s.every, at),
                                     !.enabled = TRUE]
                      ELSE [s EXCEPT !.enabled = FALSE]
    IN  file' = Change(id, [i \in 1..Len(file) |-> advance(file[i])])

\* completeScheduledTurn: the outcome is recorded...
CompleteTurn ==
    /\ events # <<>> /\ ~ending
    /\ LET ev == Head(events)
       IN  /\ ev.type = "turn.end"
           /\ seen' = Forget(seen, ev.n)
           /\ IF ev.n \notin DOMAIN seen THEN UNCHANGED <<file, claims>>
              ELSE LET run == seen[ev.n]
                   IN  /\ claims' = Forget(claims, run.id)
                       /\ IF ev.reason = "completed"
                          THEN Succeeded(run.id, IF run.at < 0 THEN now ELSE run.at)
                          ELSE Failed(run.id, now, ev.reason)
    /\ events' = Tail(events)
    /\ ending' = TRUE
    /\ UNCHANGED <<sweep, turn, active, turns, done>>
    /\ UNCHANGED editVars

\* ...before endTurn lets the schedule loop see the session idle.
EndTurn ==
    /\ ending
    /\ ending' = FALSE
    /\ active' = active - 1
    /\ UNCHANGED <<file, sweep, claims, turn, events, seen, turns, done>>
    /\ UNCHANGED editVars

\* The server dies and starts again: the file is all that is left.  Slots whose
\* outcome was not recorded will run again; the history starts afresh.
Restart ==
    /\ edits < MaxEdits
    /\ edits' = edits + 1
    /\ sweep' = SweepIdle /\ claims' = Nothing
    /\ turn' = NoTurn /\ events' = <<>> /\ active' = 0
    /\ seen' = Nothing /\ ending' = FALSE
    /\ done' = {}
    /\ UNCHANGED <<file, created, now, loopOn, turns>>

Sweep == SweepBegins \/ SweepLooks \/ SweepClaims \/ SweepStarts \/ SweepFails
Work ==
    \/ PublishUserMessage
    \/ \E reason \in {"completed", "cancelled", "error"} : PublishTurnEnd(reason)
    \/ ObserveUserMessage \/ CompleteTurn \/ EndTurn

Next ==
    \/ \E kind \in Kinds, every \in Intervals : Create(kind, every)
    \/ \E id \in Ids : Delete(id) \/ \E on \in BOOLEAN : Update(id, on)
    \/ LoopSwitch \/ Tick \/ UserTurn \/ Restart
    \/ Sweep \/ Work

Spec == Init /\ [][Next]_vars
\* The two goroutines keep running, the model and the tools answer, time passes.
FairSpec == Spec /\ WF_vars(Sweep) /\ WF_vars(Work) /\ WF_vars(Tick)
-----------------------------------------------------------------------------
(* Properties. *)

\* A slot whose turn completed does not run again in the same process, unless the
\* schedule is resumed by hand: no sweep slips in between the end of a turn
\* and the record of its outcome (completeScheduledTurn before endTurn).
SlotRunsOnce ==
    turn' # turn /\ turn' # NoTurn /\ turn'.n # turn.n /\ turn'.id > 0
      => <<turn'.id, turn'.slot>> \notin done

\* When nothing is going on, no claim and no half-observed turn is left behind,
\* whichever way the attempts ended (scheduleClaims, scheduleTurns).
QuietIsClean ==
    turn = NoTurn /\ events = <<>> /\ ~ending /\ sweep.at # "start"
        => claims = Nothing /\ seen = Nothing

\* A schedule that ran is not due again for the instant it was claimed at: it moved
\* past it, however late it was and however many slots were missed.
MovesPastClaim ==
    \A i \in 1..Len(file) :
       /\ file' # file /\ i \in 1..Len(file') /\ file'[i].id = file[i].id
       /\ file'[i].next # file[i].next
       => \A x \in {c \in DOMAIN claims : c = file[i].id} : file'[i].next > claims[x]

\* pause/resume (session_schedule_tool.go): a paused schedule stays paused until it
\* is resumed.
PausedStaysPaused ==
    [][\A i \in 1..Len(file) : ~file[i].enabled /\ edits' = edits
          => ~\E j \in 1..Len(file') : file'[j].id = file[i].id /\ file'[j].enabled]_vars

\* A due schedule gets its turn, or is paused, deleted or moved, once the session
\* is left to itself.
Waiting(id) ==
    \E i \in 1..Len(file) : file[i].id = id /\ file[i].enabled /\ file[i].next <= now

Served(id) == turns = MaxTurns \/ turn.id = id \/ ~Waiting(id)

DueRuns == \A id \in 1..MaxCreated : Waiting(id) ~> Served(id)
=============================================================================
