---------------------------- MODULE SessionPool ----------------------------
(***************************************************************************)
(* The in-memory session pool of affentserve (cmd/affentserve/sessions.go) *)
(* and the life of the sessions in it: lookup and creation with LRU        *)
(* eviction, idle GC, DELETE, message edit, workbench commands, turns,     *)
(* the fanout goroutine that retires a turn when it dispatches its         *)
(* turn.end, close, and shutdown.                                          *)
(*                                                                         *)
(* Handlers are the HTTP request goroutines and the schedule loop.  Every  *)
(* buildSession makes a new Session object: Sessions numbers them, so that *)
(* a handler can still hold a session the pool has dropped while another   *)
(* object serves the same id.                                              *)
(*                                                                         *)
(* pool.mu does not stop turns: SendUserWithOptions and endTurn change the *)
(* lock-free activeTurns counter without it.  So an operation that first   *)
(* looks for idle sessions and then evicts them (GetOrCreate, gcOnce, the  *)
(* message edit) is two steps, with poolHolder set in between; DELETE and  *)
(* Shutdown, which ask no question, are one.  s.mu is held over two steps  *)
(* by SendUserWithOptions, because endTurn does not take it to decrement.  *)
(* The touch inside endTurn is taken together with its decrement.          *)
(***************************************************************************)
EXTENDS Integers, Sequences, FiniteSets, TLC

CONSTANTS
    Ids,            \* session ids clients may name
    Handlers,       \* request goroutines and the schedule loop
    MaxSessions,    \* Config.MaxSessions, the pool's capacity
    EventCap,       \* capacity of Session.events (1024 in buildSession)
    ShellEnabled,   \* does the registry hold the shell tool (EnableBuiltins)
    MaxBuilt,       \* bound: sessions ever built
    MaxTurns,       \* bound: turns ever accepted by a Loop
    Collector,      \* the gcLoop goroutine, as a holder of pool.mu
    NoId, NoHandler

ASSUME PoolAssumption ==
    /\ IsFiniteSet(Ids) /\ NoId \notin Ids
    /\ IsFiniteSet(Handlers) /\ NoHandler \notin Handlers
    /\ Collector \notin Handlers \cup {NoHandler}
    /\ MaxSessions \in Nat \ {0}
    /\ EventCap \in Nat \ {0}
    /\ ShellEnabled \in BOOLEAN
    /\ MaxBuilt \in Nat
    /\ MaxTurns \in Nat

Sessions == 1..MaxBuilt
NoSession == 0

VARIABLES
    pool,       \* SessionPool.sessions: id -> the session it maps to
    shutdown,   \* "up", "signalled" (shuttingDown set), "drained" (Shutdown ran)
    poolHolder, \* who holds pool.mu over several steps
    victims,    \* ids the holder of pool.mu found idle and is about to evict
    target,     \* the id GetOrCreate is about to build
    sid,        \* Session.ID
    life,       \* of a Session object, see Life
    active,     \* Session.activeTurns
    lastUsed,   \* Session.lastUsed as its rank: 1 is the least recent
    muHolder,   \* holder of Session.mu
    turn,       \* the Loop's current turn, see Turn
    chan,       \* Session.events
    fan,        \* the fanout goroutine
    pc,         \* where a handler is
    held,       \* the session a handler obtained from the pool
    started     \* turns accepted so far (only bounds the model)

lockVars == <<poolHolder, victims, target>>
poolVars == <<pool, shutdown, lockVars>>
sessVars == <<sid, life>>
turnVars == <<turn, started>>
handlerVars == <<pc, held>>
vars == <<pool, shutdown, poolHolder, victims, target, sid, life, active, lastUsed,
          muHolder, turn, chan, fan, pc, held, started>>

\* unborn -> open -> evicted (out of the pool, Close not begun)
\* -> closed (closedCh closed, turn cancelled) -> done (Close returned)
Life == {"unborn", "open", "evicted", "closed", "done"}
\* idle -> running -> (cancelled ->) ended (turn.end published) -> idle (takeTurn)
Turn == {"idle", "running", "cancelled", "ended"}
Events == {"turn.end", "other"}

TypeOK ==
    /\ pool \in [Ids -> Sessions \cup {NoSession}]
    /\ shutdown \in {"up", "signalled", "drained"}
    /\ poolHolder \in Handlers \cup {Collector, NoHandler}
    /\ victims \in SUBSET Ids
    /\ target \in Ids \cup {NoId}
    /\ sid \in [Sessions -> Ids \cup {NoId}]
    /\ life \in [Sessions -> Life]
    /\ active \in [Sessions -> Int]
    /\ lastUsed \in [Sessions -> Sessions]
    /\ muHolder \in [Sessions -> Handlers \cup {NoHandler}]
    /\ turn \in [Sessions -> Turn]
    /\ chan \in [Sessions -> Seq(Events)]
    /\ fan \in [Sessions -> {"select", "ending", "exited"}]
    /\ pc \in [Handlers -> {"idle", "creating", "held", "sending", "command",
                            "commandEnd", "editing", "editWait"}]
    /\ held \in [Handlers -> Sessions \cup {NoSession}]
    /\ started \in Nat

Init ==
    /\ pool = [i \in Ids |-> NoSession]
    /\ shutdown = "up"
    /\ poolHolder = NoHandler /\ victims = {} /\ target = NoId
    /\ sid = [s \in Sessions |-> NoId]
    /\ life = [s \in Sessions |-> "unborn"]
    /\ active = [s \in Sessions |-> 0]
    /\ lastUsed = [s \in Sessions |-> s]
    /\ muHolder = [s \in Sessions |-> NoHandler]
    /\ turn = [s \in Sessions |-> "idle"]
    /\ chan = [s \in Sessions |-> <<>>]
    /\ fan = [s \in Sessions |-> "select"]
    /\ pc = [h \in Handlers |-> "idle"]
    /\ held = [h \in Handlers |-> NoSession]
    /\ started = 0
-----------------------------------------------------------------------------
Pooled == {i \in Ids : pool[i] # NoSession}
PoolLockFree == poolHolder = NoHandler
LockPool(who, ids) == poolHolder' = who /\ victims' = ids
UnlockPool == poolHolder' = NoHandler /\ victims' = {} /\ target' = NoId
MuFree(s) == muHolder[s] = NoHandler
IsActiveTurn(s) == active[s] > 0

AcceptingMutant == TRUE
\* GetOrCreate returns ErrShuttingDown once the flag is set.
Accepting == shutdown = "up"

TouchedMutant(s) ==
    [t \in Sessions |-> IF t = s THEN MaxBuilt ELSE lastUsed[t] - 1]
\* lastUsed = time.Now(): s becomes the most recent, the others keep their order.
Touched(s) ==
    [t \in Sessions |->
        IF t = s THEN MaxBuilt
        ELSE IF lastUsed[t] > lastUsed[s] THEN lastUsed[t] - 1
        ELSE lastUsed[t]]
Touch(s) == lastUsed' = Touched(s)

\* The non-blocking send of Loop.publish and publishSessionEvent.
Published(s, ev) ==
    IF Len(chan[s]) < EventCap THEN Append(chan[s], ev) ELSE chan[s]
Publish(s, ev) == chan' = [chan EXCEPT ![s] = Published(s, ev)]

\* endTurn: the compare-and-swap decrement that stops at zero, then touch.
EndTurn(s) ==
    /\ active' = [active EXCEPT ![s] = IF @ > 0 THEN @ - 1 ELSE @]
    /\ lastUsed' = IF active[s] > 0 THEN Touched(s) ELSE lastUsed

\* evictLocked of the ids in E: out of the map, a goroutine will Close them.
EvictedPool(E) == [i \in Ids |-> IF i \in E THEN NoSession ELSE pool[i]]
EvictedLife(E) ==
    [s \in Sessions |->
        IF \E i \in E : pool[i] = s THEN "evicted" ELSE life[s]]

\* Close up to the wait for the fanout: close(closedCh), then loop.Cancel.
CancelledTurn(s) ==
    [turn EXCEPT ![s] = IF @ = "running" THEN "cancelled" ELSE @]
-----------------------------------------------------------------------------
(* Lookup and creation. *)

\* GetOrCreate finds the id in the map.
GetExisting(h, i) ==
    /\ pc[h] = "idle"
    /\ PoolLockFree
    /\ Accepting
    /\ i \in Pooled
    /\ MuFree(pool[i])
    /\ Touch(pool[i])
    /\ pc' = [pc EXCEPT ![h] = "held"]
    /\ held' = [held EXCEPT ![h] = pool[i]]
    /\ UNCHANGED <<poolVars, sessVars, turnVars, active, muHolder, chan, fan>>

\* SessionPool.Get: no shutdown check, and no turn follows.
Get(h, i) ==
    /\ pc[h] = "idle"
    /\ PoolLockFree
    /\ i \in Pooled
    /\ MuFree(pool[i])
    /\ Touch(pool[i])
    /\ UNCHANGED <<poolVars, sessVars, turnVars, handlerVars, active, muHolder,
                   chan, fan>>

EvictableMutant == Pooled
\* The sessions GetOrCreate may evict, and the least recently used of them.
Evictable == {i \in Pooled : ~IsActiveTurn(pool[i])}
LRU == {i \in Evictable :
            \A j \in Evictable : lastUsed[pool[i]] <= lastUsed[pool[j]]}

EvictionsForInsertMutant ==
    IF Cardinality(Pooled) <= MaxSessions THEN {{}} ELSE {{i} : i \in LRU}
\* What GetOrCreate evicts before it inserts.  With no evictable session in a
\* full pool there is no such set: the call returns ErrNoIdleSession.
EvictionsForInsert ==
    IF Cardinality(Pooled) < MaxSessions THEN {{}} ELSE {{i} : i \in LRU}

NextUnborn(s) == life[s] = "unborn" /\ \A t \in Sessions : t < s => life[t] # "unborn"

\* GetOrCreate does not find the id and looks for a session to evict...
GetScan(h, i) ==
    /\ pc[h] = "idle"
    /\ PoolLockFree
    /\ Accepting
    /\ i \notin Pooled
    /\ \E E \in EvictionsForInsert : LockPool(h, E)
    /\ target' = i
    /\ pc' = [pc EXCEPT ![h] = "creating"]
    /\ UNCHANGED <<pool, shutdown, sessVars, turnVars, held, active, lastUsed,
                   muHolder, chan, fan>>

\* ...evicts it, builds the new session and inserts it...
GetNew(h) ==
    /\ pc[h] = "creating"
    /\ \E s \in Sessions :
        /\ NextUnborn(s)
        /\ pool' = [EvictedPool(victims) EXCEPT ![target] = s]
        /\ life' = [EvictedLife(victims) EXCEPT ![s] = "open"]
        /\ sid' = [sid EXCEPT ![s] = target]
        /\ Touch(s)
        /\ held' = [held EXCEPT ![h] = s]
    /\ UnlockPool
    /\ pc' = [pc EXCEPT ![h] = "held"]
    /\ UNCHANGED <<shutdown, turnVars, active, muHolder, chan, fan>>

\* ...or buildSession fails: the victim is gone, nothing is inserted.
GetBuildFails(h) ==
    /\ pc[h] = "creating"
    /\ pool' = EvictedPool(victims)
    /\ life' = EvictedLife(victims)
    /\ UnlockPool
    /\ pc' = [pc EXCEPT ![h] = "idle"]
    /\ UNCHANGED <<shutdown, sid, turnVars, held, active, lastUsed, muHolder,
                   chan, fan>>

\* gcOnce collects the idle sessions not used since the cutoff...
GcScan ==
    /\ PoolLockFree
    /\ shutdown # "drained"
    /\ \A i \in Pooled : MuFree(pool[i])
    /\ \E cutoff \in Sessions :
        LET stale == {i \in Evictable : lastUsed[pool[i]] <= cutoff}
        IN  stale # {} /\ LockPool(Collector, stale)
    /\ UNCHANGED <<pool, shutdown, target, sessVars, turnVars, handlerVars,
                   active, lastUsed, muHolder, chan, fan>>

\* ...and then evicts them.
GcEvict ==
    /\ poolHolder = Collector
    /\ pool' = EvictedPool(victims)
    /\ life' = EvictedLife(victims)
    /\ UnlockPool
    /\ UNCHANGED <<shutdown, sid, turnVars, handlerVars, active, lastUsed,
                   muHolder, chan, fan>>

\* DELETE: evicts whether or not a turn is running.
Delete(i) ==
    /\ PoolLockFree
    /\ i \in Pooled
    /\ pool' = EvictedPool({i})
    /\ life' = EvictedLife({i})
    /\ UNCHANGED <<shutdown, lockVars, sid, turnVars, handlerVars, active,
                   lastUsed, muHolder, chan, fan>>
-----------------------------------------------------------------------------
(* Turns. *)

\* SendUserWithOptions takes s.mu and counts the turn before the Loop accepts it.
SendBegin(h) ==
    LET s == held[h] IN
    /\ pc[h] = "held"
    /\ MuFree(s)
    /\ muHolder' = [muHolder EXCEPT ![s] = h]
    /\ active' = [active EXCEPT ![s] = @ + 1]
    /\ Touch(s)
    /\ pc' = [pc EXCEPT ![h] = "sending"]
    /\ UNCHANGED <<poolVars, sessVars, turnVars, held, chan, fan>>

HandlerDone(h) ==
    /\ pc' = [pc EXCEPT ![h] = "idle"]
    /\ held' = [held EXCEPT ![h] = NoSession]

\* Loop.SendUserWithOptions accepts the turn and starts runTurn.
SendAccepted(h) ==
    LET s == held[h] IN
    /\ pc[h] = "sending"
    /\ turn[s] = "idle"
    /\ started < MaxTurns
    /\ turn' = [turn EXCEPT ![s] = "running"]
    /\ started' = started + 1
    /\ muHolder' = [muHolder EXCEPT ![s] = NoHandler]
    /\ HandlerDone(h)
    /\ UNCHANGED <<poolVars, sessVars, active, lastUsed, chan, fan>>

SendRefusedMutant(h) ==
    LET s == held[h] IN
    /\ pc[h] = "sending"
    /\ active' = [active EXCEPT ![s] = 0]
    /\ muHolder' = [muHolder EXCEPT ![s] = NoHandler]
    /\ HandlerDone(h)
    /\ UNCHANGED <<poolVars, sessVars, turnVars, lastUsed, chan, fan>>
\* It refuses: a turn is in flight, the request is already cancelled, or the
\* user message cannot be persisted.
SendRefused(h) ==
    LET s == held[h] IN
    /\ pc[h] = "sending"
    /\ active' = [active EXCEPT ![s] = @ - 1]
    /\ muHolder' = [muHolder EXCEPT ![s] = NoHandler]
    /\ HandlerDone(h)
    /\ UNCHANGED <<poolVars, sessVars, turnVars, lastUsed, chan, fan>>

\* A handler gives its session up without sending (bad mode, events stream over).
Release(h) ==
    /\ pc[h] = "held"
    /\ HandlerDone(h)
    /\ UNCHANGED <<poolVars, sessVars, turnVars, active, lastUsed, muHolder,
                   chan, fan>>

TurnRuns(s) == turn[s] \in {"running", "cancelled"}

\* Any event but turn.end, of the Loop, of SendUserWithOptions (calibration) or
\* of a command.
EmitOther(s) ==
    /\ \/ TurnRuns(s)
       \/ \E h \in Handlers : held[h] = s /\ pc[h] \in {"sending", "command"}
    /\ Len(chan[s]) < EventCap
    /\ Publish(s, "other")
    /\ UNCHANGED <<poolVars, sessVars, turnVars, handlerVars, active, lastUsed,
                   muHolder, fan>>

\* runTurn publishes turn.end, dropped when the channel is full...
FinishTurn(s) ==
    /\ TurnRuns(s)
    /\ Publish(s, "turn.end")
    /\ turn' = [turn EXCEPT ![s] = "ended"]
    /\ UNCHANGED <<poolVars, sessVars, handlerVars, active, lastUsed, muHolder,
                   fan, started>>

\* ...and only then gives up l.current.
TakeTurn(s) ==
    /\ turn[s] = "ended"
    /\ turn' = [turn EXCEPT ![s] = "idle"]
    /\ UNCHANGED <<poolVars, sessVars, handlerVars, active, lastUsed, muHolder,
                   chan, fan, started>>

\* CancelTurn: POST .../cancel, or a chat client that disconnects.
CancelTurn(s) ==
    /\ turn[s] = "running"
    /\ turn' = CancelledTurn(s)
    /\ UNCHANGED <<poolVars, sessVars, handlerVars, active, lastUsed, muHolder,
                   chan, fan, started>>
-----------------------------------------------------------------------------
(* Workbench commands: RunWorkbenchCommand. *)

CommandBegin(h) ==
    LET s == held[h] IN
    /\ pc[h] = "held"
    /\ MuFree(s)
    /\ ~IsActiveTurn(s)
    /\ active' = [active EXCEPT ![s] = @ + 1]
    /\ Touch(s)
    /\ pc' = [pc EXCEPT ![h] = "command"]
    /\ UNCHANGED <<poolVars, sessVars, turnVars, held, muHolder, chan, fan>>

\* Without a shell tool, or when the arguments cannot be encoded, the command
\* ends its turn and nothing is published.
CommandUnavailable(h) ==
    /\ pc[h] = "command"
    /\ EndTurn(held[h])
    /\ HandlerDone(h)
    /\ UNCHANGED <<poolVars, sessVars, turnVars, muHolder, chan, fan>>

\* The command ran: its turn.end is published to the fanout...
CommandPublishEnd(h) ==
    /\ pc[h] = "command"
    /\ ShellEnabled
    /\ Publish(held[h], "turn.end")
    /\ pc' = [pc EXCEPT ![h] = "commandEnd"]
    /\ UNCHANGED <<poolVars, sessVars, turnVars, held, active, lastUsed,
                   muHolder, fan>>

\* ...and the handler ends the turn as well.
CommandEndTurn(h) ==
    /\ pc[h] = "commandEnd"
    /\ EndTurn(held[h])
    /\ HandlerDone(h)
    /\ UNCHANGED <<poolVars, sessVars, turnVars, muHolder, chan, fan>>
-----------------------------------------------------------------------------
(* Fanout and close. *)

\* fanout takes one event; dispatchSessionEvent logs it and touches the session.
FanoutDispatch(s) ==
    /\ fan[s] = "select"
    /\ life[s] # "unborn"
    /\ chan[s] # <<>>
    /\ MuFree(s)
    /\ chan' = [chan EXCEPT ![s] = Tail(@)]
    /\ Touch(s)
    /\ fan' = [fan EXCEPT ![s] = IF Head(chan[s]) = "turn.end" THEN "ending" ELSE @]
    /\ UNCHANGED <<poolVars, sessVars, turnVars, handlerVars, active, muHolder>>

\* A turn.end retires the turn (after completeScheduledTurn).
FanoutEndTurn(s) ==
    /\ fan[s] = "ending"
    /\ EndTurn(s)
    /\ fan' = [fan EXCEPT ![s] = "select"]
    /\ UNCHANGED <<poolVars, sessVars, turnVars, handlerVars, muHolder, chan>>

\* The select sees closedCh, even when events are queued.
FanoutExit(s) ==
    /\ fan[s] = "select"
    /\ life[s] = "closed"
    /\ fan' = [fan EXCEPT ![s] = "exited"]
    /\ UNCHANGED <<poolVars, sessVars, turnVars, handlerVars, active, lastUsed,
                   muHolder, chan>>

\* Close, in the goroutine of evictLocked or of Shutdown.
CloseBegin(s) ==
    /\ life[s] = "evicted"
    /\ life' = [life EXCEPT ![s] = "closed"]
    /\ turn' = CancelledTurn(s)
    /\ UNCHANGED <<poolVars, sid, handlerVars, active, lastUsed, muHolder, chan,
                   fan, started>>

\* fanoutDone is closed: the browser, the trace file and the workspace go.
CloseEnd(s) ==
    /\ life[s] = "closed"
    /\ fan[s] = "exited"
    /\ life' = [life EXCEPT ![s] = "done"]
    /\ UNCHANGED <<poolVars, sid, turnVars, handlerVars, active, lastUsed,
                   muHolder, chan, fan>>
-----------------------------------------------------------------------------
(* Message edit: truncateSessionForMessageEdit, under pool.mu throughout.   *)
(* The files it rewrites are not part of this module.                       *)

\* The edit finds the session idle...
EditCheck(h, i) ==
    /\ pc[h] = "idle"
    /\ PoolLockFree
    /\ i \in Evictable
    /\ LockPool(h, {i})
    /\ pc' = [pc EXCEPT ![h] = "editing"]
    /\ held' = [held EXCEPT ![h] = pool[i]]
    /\ UNCHANGED <<pool, shutdown, target, sessVars, turnVars, active, lastUsed,
                   muHolder, chan, fan>>

\* ...takes it out of the map, begins to Close it...
EditClose(h) ==
    LET s == held[h] IN
    /\ pc[h] = "editing"
    /\ pool' = EvictedPool(victims)
    /\ life' = [life EXCEPT ![s] = "closed"]
    /\ turn' = CancelledTurn(s)
    /\ victims' = {}
    /\ pc' = [pc EXCEPT ![h] = "editWait"]
    /\ UNCHANGED <<shutdown, poolHolder, target, sid, held, active, lastUsed,
                   muHolder, chan, fan, started>>

\* ...and unlocks once Close has returned and the files are rewritten.
EditEnd(h) ==
    /\ pc[h] = "editWait"
    /\ life[held[h]] = "done"
    /\ UnlockPool
    /\ HandlerDone(h)
    /\ UNCHANGED <<pool, shutdown, sessVars, turnVars, active, lastUsed,
                   muHolder, chan, fan>>
-----------------------------------------------------------------------------
(* Shutdown. *)

SignalShutdown ==
    /\ PoolLockFree
    /\ shutdown = "up"
    /\ shutdown' = "signalled"
    /\ UNCHANGED <<pool, lockVars, sessVars, turnVars, handlerVars, active,
                   lastUsed, muHolder, chan, fan>>

\* Shutdown empties the map under the lock; its goroutines then Close each one.
ShutdownDrain ==
    /\ PoolLockFree
    /\ shutdown # "drained"
    /\ shutdown' = "drained"
    /\ pool' = EvictedPool(Ids)
    /\ life' = EvictedLife(Pooled)
    /\ UNCHANGED <<lockVars, sid, turnVars, handlerVars, active, lastUsed,
                   muHolder, chan, fan>>
-----------------------------------------------------------------------------
HandlerStep(h) ==
    \/ \E i \in Ids : \/ GetExisting(h, i) \/ Get(h, i) \/ GetScan(h, i)
                      \/ EditCheck(h, i)
    \/ GetNew(h) \/ GetBuildFails(h) \/ EditClose(h) \/ EditEnd(h)
    \/ SendBegin(h) \/ SendAccepted(h) \/ SendRefused(h) \/ Release(h)
    \/ CommandBegin(h) \/ CommandUnavailable(h) \/ CommandPublishEnd(h)
    \/ CommandEndTurn(h)

SessionStep(s) ==
    \/ EmitOther(s) \/ FinishTurn(s) \/ TakeTurn(s) \/ CancelTurn(s)
    \/ FanoutDispatch(s) \/ FanoutEndTurn(s) \/ FanoutExit(s)
    \/ CloseBegin(s) \/ CloseEnd(s)

Next ==
    \/ \E h \in Handlers : HandlerStep(h)
    \/ \E s \in Sessions : SessionStep(s)
    \/ \E i \in Ids : Delete(i)
    \/ GcScan \/ GcEvict \/ SignalShutdown \/ ShutdownDrain

Spec == Init /\ [][Next]_vars

(***************************************************************************)
(* The goroutines the runtime schedules: the fanout, Close, a handler      *)
(* inside SendUserWithOptions, a command or an edit, the end of a          *)
(* cancelled turn, and Shutdown after SIGTERM.  Mutexes are starvation     *)
(* free and a select with two ready cases picks one at random, hence the   *)
(* strong fairness of steps other goroutines can disable for a while.      *)
(* Clients owe nothing: no request, cancel or turn is fair.                *)
(***************************************************************************)
HandlerReturns(h) ==
    \/ GetNew(h) \/ GetBuildFails(h) \/ EditClose(h) \/ EditEnd(h)
    \/ SendAccepted(h) \/ SendRefused(h) \/ CommandUnavailable(h)
    \/ CommandPublishEnd(h) \/ CommandEndTurn(h)

CancelledEnds(s) == turn[s] = "cancelled" /\ FinishTurn(s)
SignalDrains == shutdown = "signalled" /\ ShutdownDrain

Fairness ==
    /\ \A h \in Handlers : WF_vars(HandlerReturns(h))
    /\ \A s \in Sessions :
        /\ WF_vars(CancelledEnds(s))
        /\ WF_vars(TakeTurn(s))
        /\ SF_vars(FanoutDispatch(s))
        /\ WF_vars(FanoutEndTurn(s))
        /\ SF_vars(FanoutExit(s))
        /\ WF_vars(CloseBegin(s))
        /\ WF_vars(CloseEnd(s))
    /\ WF_vars(GcEvict)
    /\ SF_vars(SignalDrains)

FairSpec == Spec /\ Fairness
-----------------------------------------------------------------------------
(* Properties. *)

\* The pool never holds more than MaxSessions sessions, maps every id to an
\* open session of that id, and no open session is outside it: whatever
\* GetOrCreate built is found, evicted or drained by someone (GetOrCreate,
\* evictLocked, Delete, truncateSessionForMessageEdit, Shutdown).
PoolConsistent ==
    /\ Cardinality(Pooled) <= MaxSessions
    /\ \A i \in Pooled : life[pool[i]] = "open" /\ sid[pool[i]] = i
    /\ \A s \in Sessions : life[s] = "open" => \E i \in Ids : pool[i] = s

EndsQueued(q) == Cardinality({n \in DOMAIN q : q[n] = "turn.end"})
CommandsOn(s) == {h \in Handlers : held[h] = s /\ pc[h] = "command"}
One(b) == IF b THEN 1 ELSE 0

\* What activeTurns owes: the turn being sent, a command, the running turn,
\* and every turn.end on its way to endTurn.
Owed(s) ==
    One(muHolder[s] # NoHandler) + Cardinality(CommandsOn(s)) + One(TurnRuns(s))
      + EndsQueued(chan[s]) + One(fan[s] = "ending")

\* Without the shell tool, the lock-free counter never under-counts, whatever
\* endTurn and SendUserWithOptions interleave: activeTurns covers every turn
\* whose turn.end the fanout has not retired yet.
ActiveCoversTurns == ~ShellEnabled => \A s \in Sessions : active[s] >= Owed(s)

\* Without the shell tool, LRU eviction, idle GC and a message edit pick only
\* sessions whose Loop runs no turn, and what leaves the pool is what was
\* picked, unless DELETE or Shutdown takes it.
VictimsIdle ==
    [][/\ \A i \in victims' \ victims : ~TurnRuns(pool[i])
       /\ \A i \in Ids :
            pool[i] # NoSession /\ pool'[i] # pool[i]
                => i \in victims \/ ShutdownDrain \/ Delete(i)]_vars

\* A session whose Loop runs a turn leaves the pool only through DELETE or
\* Shutdown, never through LRU eviction, idle GC or a message edit.
EvictOnlyIdle ==
    [][\A s \in Sessions :
        (life[s] = "open" /\ TurnRuns(s) /\ life'[s] # "open")
            => (ShutdownDrain \/ \E i \in Ids : Delete(i))]_vars

\* After SIGTERM every session the pool ever built ends up closed: none is
\* created behind Shutdown's back, and no Close waits forever for its fanout.
Signalled == shutdown = "signalled"
AllClosed == \A s \in Sessions : life[s] \in {"unborn", "done"}

ShutdownClosesAll == Signalled ~> []AllClosed

\* isActiveTurn does not stay true on a session with nothing left to run: a
\* session that is not running a turn becomes evictable again.
PinnedWithoutTurn(s) ==
    /\ life[s] = "open" /\ IsActiveTurn(s) /\ turn[s] = "idle"
    /\ MuFree(s) /\ CommandsOn(s) = {}
TurnEndReleases == \A s \in Sessions : []<>~PinnedWithoutTurn(s)
-----------------------------------------------------------------------------
\* Handlers are interchangeable, and so are session ids.
Symmetry == Permutations(Ids) \cup Permutations(Handlers)
=============================================================================
