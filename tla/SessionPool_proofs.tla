------------------------- MODULE SessionPool_proofs -------------------------
(***************************************************************************)
(* Proofs about SessionPool for every set of ids and handlers, every pool  *)
(* capacity and every channel capacity.                                    *)
(***************************************************************************)
EXTENDS SessionPool, FiniteSetTheorems, FunctionTheorems, SequenceTheorems, TLAPS

\* What a handler's position says about the locks and the session it holds.
HandlersOK ==
    /\ \A h \in Handlers : pc[h] \notin {"idle", "creating"} => held[h] \in Sessions
    /\ \A h \in Handlers : pc[h] = "sending" => muHolder[held[h]] = h
    /\ \A s \in Sessions, h \in Handlers :
            muHolder[s] = h => pc[h] = "sending" /\ held[h] = s
    /\ \A h \in Handlers : pc[h] = "commandEnd" => ShellEnabled

Typed == TypeOK /\ HandlersOK
-----------------------------------------------------------------------------
\* Touching a session keeps every rank of lastUsed between 1 and MaxBuilt.
LEMMA TouchedType ==
    ASSUME TypeOK, NEW s \in Sessions
    PROVE  Touched(s) \in [Sessions -> Sessions]
<1>1. MaxBuilt \in Nat
  BY PoolAssumption
<1>2. ASSUME NEW t \in Sessions
      PROVE  (IF t = s THEN MaxBuilt
              ELSE IF lastUsed[t] > lastUsed[s] THEN lastUsed[t] - 1
              ELSE lastUsed[t]) \in Sessions
  <2>1. lastUsed[t] \in 1..MaxBuilt /\ lastUsed[s] \in 1..MaxBuilt
    BY DEF TypeOK, Sessions
  <2>2. MaxBuilt \in 1..MaxBuilt
    BY <1>1 DEF Sessions
  <2>3. QED
    BY <1>1, <2>1, <2>2 DEF Sessions
<1>3. QED
  BY <1>2 DEF Touched

\* endTurn keeps the counter an integer and the ranks in range.
LEMMA EndTurnType ==
    ASSUME TypeOK, NEW s \in Sessions, EndTurn(s)
    PROVE  active' \in [Sessions -> Int] /\ lastUsed' \in [Sessions -> Sessions]
BY TouchedType DEF EndTurn, TypeOK

\* Evicting a set of ids keeps the pool map and the lives well typed.
LEMMA EvictionType ==
    ASSUME TypeOK, NEW E
    PROVE  /\ EvictedPool(E) \in [Ids -> Sessions \cup {NoSession}]
           /\ EvictedLife(E) \in [Sessions -> Life]
BY DEF EvictedPool, EvictedLife, TypeOK, Life

\* Publishing keeps the channel a sequence of events.
LEMMA PublishedType ==
    ASSUME TypeOK, NEW s \in Sessions, NEW ev \in Events
    PROVE  Published(s, ev) \in Seq(Events)
<1>1. chan[s] \in Seq(Events)
  BY DEF TypeOK
<1>2. Append(chan[s], ev) \in Seq(Events)
  BY <1>1, AppendProperties
<1>3. QED
  BY <1>1, <1>2 DEF Published

\* A pooled id maps to a session.
LEMMA PooledSession ==
    ASSUME TypeOK, NEW i \in Pooled
    PROVE  i \in Ids /\ pool[i] \in Sessions
BY DEF TypeOK, Pooled

\* The initial state is well typed and holds no lock.
LEMMA InitTyped == Init => Typed
<1> SUFFICES ASSUME Init PROVE Typed
  OBVIOUS
<1>1. \A s \in Sessions : chan[s] = <<>>
  BY DEF Init
<1>2. <<>> \in Seq(Events)
  OBVIOUS
<1>3. TypeOK
  BY <1>2 DEF Init, TypeOK, Sessions, Life, Turn
<1>4. HandlersOK
  BY PoolAssumption DEF Init, HandlersOK
<1>5. QED
  BY <1>3, <1>4 DEF Typed

\* What GetOrCreate evicts are idle ids of the pool.
LEMMA EvictionsAreEvictable ==
    ASSUME NEW E \in EvictionsForInsert
    PROVE  E \subseteq Evictable
BY DEF EvictionsForInsert, LRU

\* The ids GetOrCreate is about to evict are ids.
LEMMA VictimsTyped ==
    ASSUME NEW E \in EvictionsForInsert
    PROVE  E \in SUBSET Ids
BY EvictionsAreEvictable DEF Evictable, Pooled

\* Every step keeps the types and what HandlersOK says of the handlers.
LEMMA TypedStep == Typed /\ [Next]_vars => Typed'
<1> SUFFICES ASSUME TypeOK, HandlersOK, [Next]_vars PROVE TypeOK' /\ HandlersOK'
  BY DEF Typed
<1> USE PoolAssumption DEF lockVars, poolVars, sessVars, turnVars, handlerVars
<1>1. ASSUME NEW h \in Handlers, NEW i \in Ids, GetExisting(h, i) PROVE TypeOK' /\ HandlersOK'
  <2>1. TypeOK'
    BY <1>1, PooledSession, TouchedType DEF TypeOK, HandlersOK, GetExisting, Touch
  <2>2. HandlersOK'
    BY <1>1, PooledSession DEF TypeOK, HandlersOK, GetExisting, Touch
  <2>3. QED
    BY <2>1, <2>2
<1>2. ASSUME NEW h \in Handlers, NEW i \in Ids, Get(h, i) PROVE TypeOK' /\ HandlersOK'
  <2>1. TypeOK'
    BY <1>2, PooledSession, TouchedType DEF TypeOK, HandlersOK, Get, Touch
  <2>2. HandlersOK'
    BY <1>2 DEF TypeOK, HandlersOK, Get, Touch
  <2>3. QED
    BY <2>1, <2>2
<1>3. ASSUME NEW h \in Handlers, GetNew(h) PROVE TypeOK' /\ HandlersOK'
  <2>1. TypeOK'
    <3>1. PICK s \in Sessions :
            /\ pool' = [EvictedPool(victims) EXCEPT ![target] = s]
            /\ life' = [EvictedLife(victims) EXCEPT ![s] = "open"]
            /\ sid' = [sid EXCEPT ![s] = target]
            /\ Touch(s)
            /\ held' = [held EXCEPT ![h] = s]
      BY <1>3 DEF GetNew
    <3>2. pool' \in [Ids -> Sessions \cup {NoSession}] /\ life' \in [Sessions -> Life]
      BY <3>1, EvictionType DEF Life
    <3>3. lastUsed' \in [Sessions -> Sessions]
      BY <3>1, TouchedType DEF Touch
    <3>4. QED
      BY <1>3, <3>1, <3>2, <3>3 DEF TypeOK, GetNew, UnlockPool
  <2>2. HandlersOK'
    BY <1>3 DEF TypeOK, HandlersOK, GetNew, Touch, Life, NextUnborn, UnlockPool
  <2>3. QED
    BY <2>1, <2>2
<1>4. ASSUME NEW h \in Handlers, GetBuildFails(h) PROVE TypeOK' /\ HandlersOK'
  <2>1. TypeOK'
    BY <1>4, EvictionType DEF TypeOK, HandlersOK, GetBuildFails, UnlockPool
  <2>2. HandlersOK'
    BY <1>4 DEF TypeOK, HandlersOK, GetBuildFails, UnlockPool
  <2>3. QED
    BY <2>1, <2>2
<1>5. ASSUME NEW h \in Handlers, EditClose(h) PROVE TypeOK' /\ HandlersOK'
  <2>1. TypeOK'
    BY <1>5, EvictionType DEF TypeOK, HandlersOK, EditClose, CancelledTurn, Life, Turn
  <2>2. HandlersOK'
    BY <1>5 DEF TypeOK, HandlersOK, EditClose, CancelledTurn, Life, Turn
  <2>3. QED
    BY <2>1, <2>2
<1>6. ASSUME NEW h \in Handlers, SendBegin(h) PROVE TypeOK' /\ HandlersOK'
  <2>0. held[h] \in Sessions
    BY <1>6 DEF HandlersOK, SendBegin
  <2>1. TypeOK'
    BY <1>6, <2>0, TouchedType DEF TypeOK, SendBegin, Touch, MuFree
  <2>2. HandlersOK'
    BY <1>6 DEF TypeOK, HandlersOK, SendBegin, Touch, MuFree
  <2>3. QED
    BY <2>1, <2>2
<1>7. ASSUME NEW h \in Handlers, SendAccepted(h) PROVE TypeOK' /\ HandlersOK'
  <2>0. held[h] \in Sessions
    BY <1>7 DEF HandlersOK, SendAccepted
  <2>1. TypeOK'
    BY <1>7, <2>0 DEF TypeOK, SendAccepted, HandlerDone, Turn
  <2>2. HandlersOK'
    BY <1>7 DEF TypeOK, HandlersOK, SendAccepted, HandlerDone, Turn
  <2>3. QED
    BY <2>1, <2>2
<1>8. ASSUME NEW h \in Handlers, SendRefused(h) PROVE TypeOK' /\ HandlersOK'
  <2>0. held[h] \in Sessions
    BY <1>8 DEF HandlersOK, SendRefused
  <2>1. TypeOK'
    BY <1>8, <2>0 DEF TypeOK, SendRefused, HandlerDone
  <2>2. HandlersOK'
    BY <1>8 DEF TypeOK, HandlersOK, SendRefused, HandlerDone
  <2>3. QED
    BY <2>1, <2>2
<1>9. ASSUME NEW h \in Handlers, Release(h) PROVE TypeOK' /\ HandlersOK'
  <2>1. TypeOK'
    BY <1>9 DEF TypeOK, HandlersOK, Release, HandlerDone
  <2>2. HandlersOK'
    BY <1>9 DEF TypeOK, HandlersOK, Release, HandlerDone
  <2>3. QED
    BY <2>1, <2>2
<1>10. ASSUME NEW h \in Handlers, CommandBegin(h) PROVE TypeOK' /\ HandlersOK'
  <2>0. held[h] \in Sessions
    BY <1>10 DEF HandlersOK, CommandBegin
  <2>1. TypeOK'
    BY <1>10, <2>0, TouchedType DEF TypeOK, CommandBegin, Touch
  <2>2. HandlersOK'
    BY <1>10 DEF TypeOK, HandlersOK, CommandBegin, Touch
  <2>3. QED
    BY <2>1, <2>2
<1>11. ASSUME NEW h \in Handlers, CommandUnavailable(h) PROVE TypeOK' /\ HandlersOK'
  <2>1. TypeOK'
    BY <1>11, EndTurnType DEF TypeOK, HandlersOK, CommandUnavailable, HandlerDone
  <2>2. HandlersOK'
    BY <1>11 DEF TypeOK, HandlersOK, CommandUnavailable, HandlerDone
  <2>3. QED
    BY <2>1, <2>2
<1>12. ASSUME NEW h \in Handlers, CommandPublishEnd(h) PROVE TypeOK' /\ HandlersOK'
  <2>1. TypeOK'
    BY <1>12, PublishedType DEF TypeOK, HandlersOK, CommandPublishEnd, Publish, Events
  <2>2. HandlersOK'
    BY <1>12 DEF TypeOK, HandlersOK, CommandPublishEnd, Publish, Events
  <2>3. QED
    BY <2>1, <2>2
<1>13. ASSUME NEW h \in Handlers, CommandEndTurn(h) PROVE TypeOK' /\ HandlersOK'
  <2>1. TypeOK'
    BY <1>13, EndTurnType DEF TypeOK, HandlersOK, CommandEndTurn, HandlerDone
  <2>2. HandlersOK'
    BY <1>13 DEF TypeOK, HandlersOK, CommandEndTurn, HandlerDone
  <2>3. QED
    BY <2>1, <2>2
<1>14. ASSUME NEW h \in Handlers, EditEnd(h) PROVE TypeOK' /\ HandlersOK'
  <2>1. TypeOK'
    BY <1>14 DEF TypeOK, HandlersOK, EditEnd, HandlerDone, UnlockPool
  <2>2. HandlersOK'
    BY <1>14 DEF TypeOK, HandlersOK, EditEnd, HandlerDone, UnlockPool
  <2>3. QED
    BY <2>1, <2>2
<1>15. ASSUME NEW s \in Sessions, EmitOther(s) PROVE TypeOK' /\ HandlersOK'
  <2>1. TypeOK'
    BY <1>15, PublishedType DEF TypeOK, HandlersOK, EmitOther, Publish, Events
  <2>2. HandlersOK'
    BY <1>15 DEF TypeOK, HandlersOK, EmitOther, Publish, Events
  <2>3. QED
    BY <2>1, <2>2
<1>16. ASSUME NEW s \in Sessions, FinishTurn(s) PROVE TypeOK' /\ HandlersOK'
  <2>1. TypeOK'
    BY <1>16, PublishedType DEF TypeOK, HandlersOK, FinishTurn, Publish, Turn, Events
  <2>2. HandlersOK'
    BY <1>16 DEF TypeOK, HandlersOK, FinishTurn, Publish, Turn, Events
  <2>3. QED
    BY <2>1, <2>2
<1>17. ASSUME NEW s \in Sessions, TakeTurn(s) PROVE TypeOK' /\ HandlersOK'
  <2>1. TypeOK'
    BY <1>17 DEF TypeOK, HandlersOK, TakeTurn, Turn
  <2>2. HandlersOK'
    BY <1>17 DEF TypeOK, HandlersOK, TakeTurn, Turn
  <2>3. QED
    BY <2>1, <2>2
<1>18. ASSUME NEW s \in Sessions, CancelTurn(s) PROVE TypeOK' /\ HandlersOK'
  <2>1. TypeOK'
    BY <1>18 DEF TypeOK, HandlersOK, CancelTurn, CancelledTurn, Turn
  <2>2. HandlersOK'
    BY <1>18 DEF TypeOK, HandlersOK, CancelTurn, CancelledTurn, Turn
  <2>3. QED
    BY <2>1, <2>2
<1>19. ASSUME NEW s \in Sessions, FanoutDispatch(s) PROVE TypeOK' /\ HandlersOK'
  <2>1. TypeOK'
    BY <1>19, TouchedType, HeadTailProperties DEF TypeOK, HandlersOK, FanoutDispatch, Touch
  <2>2. HandlersOK'
    BY <1>19 DEF TypeOK, HandlersOK, FanoutDispatch, Touch
  <2>3. QED
    BY <2>1, <2>2
<1>20. ASSUME NEW s \in Sessions, FanoutEndTurn(s) PROVE TypeOK' /\ HandlersOK'
  <2>1. TypeOK'
    BY <1>20, EndTurnType DEF TypeOK, HandlersOK, FanoutEndTurn
  <2>2. HandlersOK'
    BY <1>20 DEF TypeOK, HandlersOK, FanoutEndTurn
  <2>3. QED
    BY <2>1, <2>2
<1>21. ASSUME NEW s \in Sessions, FanoutExit(s) PROVE TypeOK' /\ HandlersOK'
  <2>1. TypeOK'
    BY <1>21 DEF TypeOK, HandlersOK, FanoutExit
  <2>2. HandlersOK'
    BY <1>21 DEF TypeOK, HandlersOK, FanoutExit
  <2>3. QED
    BY <2>1, <2>2
<1>22. ASSUME NEW s \in Sessions, CloseBegin(s) PROVE TypeOK' /\ HandlersOK'
  <2>1. TypeOK'
    BY <1>22 DEF TypeOK, HandlersOK, CloseBegin, CancelledTurn, Life, Turn
  <2>2. HandlersOK'
    BY <1>22 DEF TypeOK, HandlersOK, CloseBegin, CancelledTurn, Life, Turn
  <2>3. QED
    BY <2>1, <2>2
<1>23. ASSUME NEW s \in Sessions, CloseEnd(s) PROVE TypeOK' /\ HandlersOK'
  <2>1. TypeOK'
    BY <1>23 DEF TypeOK, HandlersOK, CloseEnd, Life
  <2>2. HandlersOK'
    BY <1>23 DEF TypeOK, HandlersOK, CloseEnd, Life
  <2>3. QED
    BY <2>1, <2>2
<1>24. ASSUME NEW i \in Ids, Delete(i) PROVE TypeOK' /\ HandlersOK'
  <2>1. TypeOK'
    BY <1>24, EvictionType DEF TypeOK, HandlersOK, Delete
  <2>2. HandlersOK'
    BY <1>24 DEF TypeOK, HandlersOK, Delete
  <2>3. QED
    BY <2>1, <2>2
<1>25. ASSUME GcEvict PROVE TypeOK' /\ HandlersOK'
  <2>1. TypeOK'
    BY <1>25, EvictionType DEF TypeOK, HandlersOK, GcEvict, UnlockPool
  <2>2. HandlersOK'
    BY <1>25 DEF TypeOK, HandlersOK, GcEvict, UnlockPool
  <2>3. QED
    BY <2>1, <2>2
<1>26. ASSUME SignalShutdown PROVE TypeOK' /\ HandlersOK'
  <2>1. TypeOK'
    BY <1>26 DEF TypeOK, HandlersOK, SignalShutdown
  <2>2. HandlersOK'
    BY <1>26 DEF TypeOK, HandlersOK, SignalShutdown
  <2>3. QED
    BY <2>1, <2>2
<1>27. ASSUME ShutdownDrain PROVE TypeOK' /\ HandlersOK'
  <2>1. TypeOK'
    BY <1>27, EvictionType DEF TypeOK, HandlersOK, ShutdownDrain
  <2>2. HandlersOK'
    BY <1>27 DEF TypeOK, HandlersOK, ShutdownDrain
  <2>3. QED
    BY <2>1, <2>2
<1>28. ASSUME NEW h \in Handlers, NEW i \in Ids, GetScan(h, i) PROVE TypeOK' /\ HandlersOK'
  <2>1. TypeOK'
    BY <1>28, VictimsTyped DEF TypeOK, HandlersOK, GetScan, LockPool
  <2>2. HandlersOK'
    BY <1>28 DEF TypeOK, HandlersOK, GetScan, LockPool
  <2>3. QED
    BY <2>1, <2>2
<1>29. ASSUME NEW h \in Handlers, NEW i \in Ids, EditCheck(h, i) PROVE TypeOK' /\ HandlersOK'
  <2>1. TypeOK'
    BY <1>29, PooledSession DEF TypeOK, HandlersOK, EditCheck, LockPool, Evictable
  <2>2. HandlersOK'
    BY <1>29, PooledSession DEF TypeOK, HandlersOK, EditCheck, LockPool, Evictable
  <2>3. QED
    BY <2>1, <2>2
<1>30. ASSUME GcScan PROVE TypeOK' /\ HandlersOK'
  <2>1. TypeOK'
    BY <1>30 DEF TypeOK, HandlersOK, GcScan, LockPool, Evictable, Pooled
  <2>2. HandlersOK'
    BY <1>30 DEF TypeOK, HandlersOK, GcScan, LockPool, Evictable, Pooled
  <2>3. QED
    BY <2>1, <2>2
<1>31. CASE UNCHANGED vars
  BY <1>31 DEF vars, TypeOK, HandlersOK
<1>32. QED
  BY <1>1, <1>2, <1>3, <1>4, <1>5, <1>6, <1>7, <1>8, <1>9, <1>10, <1>11,
     <1>12, <1>13, <1>14, <1>15, <1>16, <1>17, <1>18, <1>19, <1>20, <1>21,
     <1>22, <1>23, <1>24, <1>25, <1>26, <1>27, <1>28, <1>29, <1>30, <1>31
     DEF Next, HandlerStep, SessionStep

\* Type correctness of the pool model.
THEOREM TypeCorrect == Spec => []TypeOK
<1>1. Init => Typed
  BY InitTyped
<1>2. Typed /\ [Next]_vars => Typed'
  BY TypedStep
<1>3. Typed => TypeOK
  BY DEF Typed
<1>4. QED
  BY <1>1, <1>2, <1>3, PTL DEF Spec
-----------------------------------------------------------------------------
(* Counting: the turn.end events in a channel, the commands on a session.   *)

\* The positions that hold a turn.end are finitely many.
LEMMA EndsQueuedType ==
    ASSUME NEW q \in Seq(Events)
    PROVE  /\ IsFiniteSet({n \in DOMAIN q : q[n] = "turn.end"})
           /\ EndsQueued(q) \in Nat
<1>1. DOMAIN q = 1..Len(q) /\ Len(q) \in Nat
  BY LenProperties
<1>2. IsFiniteSet(DOMAIN q)
  BY <1>1, FS_Interval
<1>3. IsFiniteSet({n \in DOMAIN q : q[n] = "turn.end"})
  BY <1>2, FS_Subset
<1>4. QED
  BY <1>3, FS_CardinalityType DEF EndsQueued

\* Appending an event adds one turn.end or none.
LEMMA EndsQueuedAppend ==
    ASSUME NEW q \in Seq(Events), NEW ev \in Events
    PROVE  EndsQueued(Append(q, ev)) = EndsQueued(q) + One(ev = "turn.end")
<1> DEFINE D == {n \in DOMAIN q : q[n] = "turn.end"}
           A == {n \in DOMAIN Append(q, ev) : Append(q, ev)[n] = "turn.end"}
<1>1. /\ DOMAIN q = 1..Len(q) /\ Len(q) \in Nat
      /\ Append(q, ev) \in Seq(Events)
      /\ DOMAIN Append(q, ev) = 1..(Len(q) + 1)
      /\ \A n \in 1..Len(q) : Append(q, ev)[n] = q[n]
      /\ Append(q, ev)[Len(q) + 1] = ev
  BY LenProperties, AppendProperties
<1>2. IsFiniteSet(D) /\ EndsQueued(q) \in Nat
  BY EndsQueuedType
<1>3. CASE ev = "turn.end"
  <2>1. A = D \cup {Len(q) + 1}
    BY <1>1, <1>3
  <2>2. Len(q) + 1 \notin D
    BY <1>1
  <2>3. Cardinality(A) = Cardinality(D) + 1
    BY <1>2, <2>1, <2>2, FS_AddElement
  <2>4. QED
    BY <1>3, <2>3 DEF EndsQueued, One
<1>4. CASE ev # "turn.end"
  <2>1. A = D
    BY <1>1, <1>4
  <2>2. EndsQueued(Append(q, ev)) = EndsQueued(q)
    BY <2>1 DEF EndsQueued
  <2>3. One(ev = "turn.end") = 0
    BY <1>4 DEF One
  <2>4. QED
    BY <1>2, <2>2, <2>3
<1>5. QED
  BY <1>3, <1>4

\* Taking the head away removes one turn.end or none.
LEMMA EndsQueuedTail ==
    ASSUME NEW q \in Seq(Events), q # <<>>
    PROVE  EndsQueued(q) = EndsQueued(Tail(q)) + One(Head(q) = "turn.end")
<1> DEFINE D == {n \in DOMAIN q : q[n] = "turn.end"}
           T == {n \in DOMAIN Tail(q) : Tail(q)[n] = "turn.end"}
           f == [n \in T |-> n + 1]
<1>1. /\ DOMAIN q = 1..Len(q) /\ Len(q) \in Nat /\ Len(q) >= 1
      /\ Tail(q) \in Seq(Events)
      /\ DOMAIN Tail(q) = 1..(Len(q) - 1)
      /\ \A n \in 1..(Len(q) - 1) : Tail(q)[n] = q[n + 1]
      /\ Head(q) = q[1]
  BY LenProperties, HeadTailProperties
<1>2. IsFiniteSet(D) /\ IsFiniteSet(T) /\ EndsQueued(Tail(q)) \in Nat
  BY <1>1, EndsQueuedType
<1>3. f \in Bijection(T, D \ {1})
  <2>1. f \in [T -> D \ {1}]
    BY <1>1
  <2>2. \A a, b \in T : f[a] = f[b] => a = b
    BY <1>1
  <2>3. ASSUME NEW n \in D \ {1} PROVE \E a \in T : f[a] = n
    <3>1. n - 1 \in T /\ f[n - 1] = n
      BY <1>1
    <3>2. QED
      BY <3>1
  <2>4. QED
    BY <2>1, <2>2, <2>3, Fun_IsBij
<1>4. Cardinality(D \ {1}) = Cardinality(T)
  BY <1>2, <1>3, FS_Bijection DEF ExistsBijection
<1> EndsQueued(q) = Cardinality(D) /\ EndsQueued(Tail(q)) = Cardinality(T)
  BY DEF EndsQueued
<1> HIDE DEF D, T
<1>5. CASE Head(q) = "turn.end"
  <2>1. 1 \in D
    BY <1>1, <1>5 DEF D
  <2>2. Cardinality(D \ {1}) = Cardinality(D) - 1 /\ Cardinality(D) \in Nat
    BY <1>2, <2>1, FS_RemoveElement, FS_CardinalityType
  <2>3. QED
    BY <1>4, <1>5, <2>2 DEF One
<1>6. CASE Head(q) # "turn.end"
  <2>1. D \ {1} = D
    BY <1>1, <1>6 DEF D
  <2>2. Cardinality(D) = Cardinality(T)
    BY <1>4, <2>1
  <2>3. One(Head(q) = "turn.end") = 0
    BY <1>6 DEF One
  <2>4. QED
    BY <1>2, <2>2, <2>3
<1>7. QED
  BY <1>5, <1>6

\* The commands on a session are finitely many.
LEMMA CommandsOnType ==
    ASSUME NEW s \in Sessions
    PROVE  IsFiniteSet(CommandsOn(s)) /\ Cardinality(CommandsOn(s)) \in Nat
<1>1. IsFiniteSet(CommandsOn(s))
  BY PoolAssumption, FS_Subset DEF CommandsOn
<1>2. QED
  BY <1>1, FS_CardinalityType
-----------------------------------------------------------------------------
(* The activeTurns counter covers the turns in flight.                      *)

Covered(s) == active[s] >= Owed(s)

\* Every part of Owed is a natural number.
LEMMA OwedType ==
    ASSUME TypeOK, NEW s \in Sessions
    PROVE  /\ One(muHolder[s] # NoHandler) \in Nat
           /\ Cardinality(CommandsOn(s)) \in Nat
           /\ One(TurnRuns(s)) \in Nat
           /\ EndsQueued(chan[s]) \in Nat
           /\ One(fan[s] = "ending") \in Nat
           /\ active[s] \in Int
<1>1. EndsQueued(chan[s]) \in Nat
  BY EndsQueuedType DEF TypeOK
<1>2. QED
  BY <1>1, CommandsOnType DEF One, TypeOK

\* A step that changes neither the counter nor a part of Owed keeps Covered.
LEMMA CoveredFrame ==
    ASSUME NEW s \in Sessions, Covered(s),
           active'[s] = active[s],
           CommandsOn(s)' = CommandsOn(s),
           muHolder'[s] = muHolder[s],
           TurnRuns(s)' <=> TurnRuns(s),
           chan'[s] = chan[s],
           fan'[s] = "ending" <=> fan[s] = "ending"
    PROVE  Covered(s)'
<1>1. One(TurnRuns(s))' = One(TurnRuns(s))
  BY DEF One
<1>2. One(fan[s] = "ending")' = One(fan[s] = "ending")
  BY DEF One
<1>3. QED
  BY <1>1, <1>2 DEF Covered, Owed

\* Publishing adds at most one turn.end to the channel.
LEMMA EndsPublished ==
    ASSUME TypeOK, NEW s \in Sessions, NEW ev \in Events
    PROVE  /\ EndsQueued(Published(s, ev)) \in Nat
           /\ EndsQueued(Published(s, ev))
                <= EndsQueued(chan[s]) + One(ev = "turn.end")
<1>1. chan[s] \in Seq(Events)
  BY DEF TypeOK
<1>2. One(ev = "turn.end") \in Nat
  BY DEF One
<1>3. EndsQueued(chan[s]) \in Nat
  BY <1>1, EndsQueuedType
<1>4. EndsQueued(Append(chan[s], ev)) = EndsQueued(chan[s]) + One(ev = "turn.end")
  BY <1>1, EndsQueuedAppend
<1>5. CASE Len(chan[s]) < EventCap
  BY <1>2, <1>3, <1>4, <1>5 DEF Published
<1>6. CASE ~(Len(chan[s]) < EventCap)
  BY <1>2, <1>3, <1>6 DEF Published
<1>7. QED
  BY <1>5, <1>6

\* SendUserWithOptions counts the turn it is about to send.
LEMMA SendBeginCovered ==
    ASSUME Typed, NEW h \in Handlers, SendBegin(h), NEW s \in Sessions, Covered(s)
    PROVE  Covered(s)'
<1>1. held[h] \in Sessions /\ pc[h] = "held"
  BY DEF Typed, HandlersOK, SendBegin
<1>2. CommandsOn(s)' = CommandsOn(s)
  BY <1>1 DEF CommandsOn, SendBegin, Typed, TypeOK
<1>3. CASE s # held[h]
  BY <1>1, <1>2, <1>3, CoveredFrame
     DEF SendBegin, TurnRuns, turnVars, Typed, TypeOK
<1>4. CASE s = held[h]
  <2>1. /\ active'[s] = active[s] + 1
        /\ One(muHolder[s] # NoHandler)' = 1 /\ One(muHolder[s] # NoHandler) = 0
        /\ One(TurnRuns(s))' = One(TurnRuns(s))
        /\ chan' = chan /\ fan' = fan
    BY <1>1, <1>4, PoolAssumption
       DEF SendBegin, MuFree, One, TurnRuns, turnVars, Typed, TypeOK
  <2>2. Owed(s)' = Owed(s) + 1
    BY <1>2, <2>1, OwedType DEF Owed, Typed
  <2>3. Owed(s) \in Int
    BY OwedType DEF Owed, Typed
  <2>4. QED
    BY <2>1, <2>2, <2>3, OwedType DEF Covered, Typed
<1>5. QED
  BY <1>3, <1>4

\* An accepted turn moves from the sender to the Loop.
LEMMA SendAcceptedCovered ==
    ASSUME Typed, NEW h \in Handlers, SendAccepted(h), NEW s \in Sessions, Covered(s)
    PROVE  Covered(s)'
<1>1. held[h] \in Sessions /\ pc[h] = "sending" /\ muHolder[held[h]] = h
  BY DEF Typed, HandlersOK, SendAccepted
<1>2. CommandsOn(s)' = CommandsOn(s)
  BY <1>1 DEF CommandsOn, SendAccepted, HandlerDone, Typed, TypeOK
<1>3. CASE s # held[h]
  BY <1>1, <1>2, <1>3, CoveredFrame
     DEF SendAccepted, TurnRuns, Typed, TypeOK
<1>4. CASE s = held[h]
  <2>1. /\ active' = active
        /\ One(muHolder[s] # NoHandler)' = 0 /\ One(muHolder[s] # NoHandler) = 1
        /\ One(TurnRuns(s))' = 1 /\ One(TurnRuns(s)) = 0
        /\ chan' = chan /\ fan' = fan
    BY <1>1, <1>4, PoolAssumption
       DEF SendAccepted, One, TurnRuns, Typed, TypeOK
  <2>2. Owed(s)' = Owed(s)
    BY <1>2, <2>1, OwedType DEF Owed, Typed
  <2>3. QED
    BY <2>1, <2>2 DEF Covered
<1>5. QED
  BY <1>3, <1>4

\* A refused turn gives back the count its sender took.
LEMMA SendRefusedCovered ==
    ASSUME Typed, NEW h \in Handlers, SendRefused(h), NEW s \in Sessions, Covered(s)
    PROVE  Covered(s)'
<1>1. held[h] \in Sessions /\ pc[h] = "sending" /\ muHolder[held[h]] = h
  BY DEF Typed, HandlersOK, SendRefused
<1>2. CommandsOn(s)' = CommandsOn(s)
  BY <1>1 DEF CommandsOn, SendRefused, HandlerDone, Typed, TypeOK
<1>3. CASE s # held[h]
  BY <1>1, <1>2, <1>3, CoveredFrame
     DEF SendRefused, TurnRuns, turnVars, Typed, TypeOK
<1>4. CASE s = held[h]
  <2>1. /\ active'[s] = active[s] - 1
        /\ One(muHolder[s] # NoHandler)' = 0 /\ One(muHolder[s] # NoHandler) = 1
        /\ One(TurnRuns(s))' = One(TurnRuns(s))
        /\ chan' = chan /\ fan' = fan
    BY <1>1, <1>4, PoolAssumption
       DEF SendRefused, One, TurnRuns, turnVars, Typed, TypeOK
  <2>2. Owed(s)' = Owed(s) - 1
    BY <1>2, <2>1, OwedType DEF Owed, Typed
  <2>3. Owed(s) \in Int
    BY OwedType DEF Owed, Typed
  <2>4. QED
    BY <2>1, <2>2, <2>3, OwedType DEF Covered, Typed
<1>5. QED
  BY <1>3, <1>4

\* A command counts itself...
LEMMA CommandBeginCovered ==
    ASSUME Typed, NEW h \in Handlers, CommandBegin(h), NEW s \in Sessions, Covered(s)
    PROVE  Covered(s)'
<1>1. held[h] \in Sessions /\ pc[h] = "held"
  BY DEF Typed, HandlersOK, CommandBegin
<1>2. CASE s # held[h]
  <2>1. CommandsOn(s)' = CommandsOn(s)
    BY <1>1, <1>2 DEF CommandsOn, CommandBegin, Typed, TypeOK
  <2>2. QED
    BY <1>1, <1>2, <2>1, CoveredFrame
       DEF CommandBegin, TurnRuns, turnVars, Typed, TypeOK
<1>3. CASE s = held[h]
  <2>1. CommandsOn(s)' = CommandsOn(s) \cup {h} /\ h \notin CommandsOn(s)
    BY <1>1, <1>3 DEF CommandsOn, CommandBegin, Typed, TypeOK
  <2>2. Cardinality(CommandsOn(s)') = Cardinality(CommandsOn(s)) + 1
    BY <2>1, CommandsOnType, FS_AddElement
  <2>3. /\ active'[s] = active[s] + 1
        /\ muHolder' = muHolder
        /\ One(TurnRuns(s))' = One(TurnRuns(s))
        /\ chan' = chan /\ fan' = fan
    BY <1>1, <1>3 DEF CommandBegin, TurnRuns, turnVars, Typed, TypeOK
  <2>4. Owed(s)' = Owed(s) + 1
    BY <2>2, <2>3, OwedType DEF Owed, Typed
  <2>5. Owed(s) \in Int
    BY OwedType DEF Owed, Typed
  <2>6. QED
    BY <2>3, <2>4, <2>5, OwedType DEF Covered, Typed
<1>4. QED
  BY <1>2, <1>3

\* ...and retires itself when there is no shell tool to run it.
LEMMA CommandUnavailableCovered ==
    ASSUME Typed, NEW h \in Handlers, CommandUnavailable(h),
           NEW s \in Sessions, Covered(s)
    PROVE  Covered(s)'
<1>1. held[h] \in Sessions /\ pc[h] = "command"
  BY DEF Typed, HandlersOK, CommandUnavailable
<1>2. CASE s # held[h]
  <2>1. CommandsOn(s)' = CommandsOn(s)
    BY <1>1, <1>2 DEF CommandsOn, CommandUnavailable, HandlerDone, Typed, TypeOK
  <2>2. QED
    BY <1>1, <1>2, <2>1, CoveredFrame
       DEF CommandUnavailable, EndTurn, TurnRuns, turnVars, Typed, TypeOK
<1>3. CASE s = held[h]
  <2>1. CommandsOn(s)' = CommandsOn(s) \ {h} /\ h \in CommandsOn(s)
    BY <1>1, <1>3 DEF CommandsOn, CommandUnavailable, HandlerDone, Typed, TypeOK, NoSession, Sessions
  <2>2. Cardinality(CommandsOn(s)') = Cardinality(CommandsOn(s)) - 1
    BY <2>1, CommandsOnType, FS_RemoveElement
  <2>3. Cardinality(CommandsOn(s)) > 0
    BY <2>1, CommandsOnType, FS_EmptySet
  <2>4. /\ active'[s] = IF active[s] > 0 THEN active[s] - 1 ELSE active[s]
        /\ muHolder' = muHolder
        /\ One(TurnRuns(s))' = One(TurnRuns(s))
        /\ chan' = chan /\ fan' = fan
    BY <1>1, <1>3 DEF CommandUnavailable, EndTurn, TurnRuns, turnVars, Typed, TypeOK
  <2>5. Owed(s)' = Owed(s) - 1
    BY <2>2, <2>4, OwedType DEF Owed, Typed
  <2>6. Owed(s) \in Int /\ Owed(s) > 0
    BY <2>3, OwedType DEF Owed, Typed
  <2>7. QED
    BY <2>4, <2>5, <2>6, OwedType DEF Covered, Typed
<1>4. QED
  BY <1>2, <1>3

\* An event other than turn.end owes nothing.
LEMMA EmitOtherCovered ==
    ASSUME Typed, NEW u \in Sessions, EmitOther(u), NEW s \in Sessions, Covered(s)
    PROVE  Covered(s)'
<1>1. CommandsOn(s)' = CommandsOn(s)
  BY DEF CommandsOn, EmitOther, handlerVars
<1>2. CASE s # u
  BY <1>1, <1>2, CoveredFrame
     DEF EmitOther, Publish, TurnRuns, turnVars, Typed, TypeOK
<1>3. CASE s = u
  <2>1. /\ active' = active /\ muHolder' = muHolder /\ fan' = fan
        /\ One(TurnRuns(s))' = One(TurnRuns(s))
        /\ chan'[s] = Published(s, "other")
    BY <1>3 DEF EmitOther, Publish, TurnRuns, turnVars, Typed, TypeOK
  <2>2. One("other" = "turn.end") = 0
    BY DEF One
  <2>3. EndsQueued(chan'[s]) \in Nat /\ EndsQueued(chan'[s]) <= EndsQueued(chan[s])
    BY <2>1, <2>2, EndsPublished, OwedType DEF Events, Typed
  <2>4. Owed(s)' <= Owed(s) /\ Owed(s) \in Int /\ Owed(s)' \in Int
    BY <1>1, <2>1, <2>3, OwedType DEF Owed, Typed
  <2>5. QED
    BY <2>1, <2>4, OwedType DEF Covered, Typed
<1>4. QED
  BY <1>2, <1>3

\* The end of a turn moves it from the Loop to the channel, or loses it.
LEMMA FinishTurnCovered ==
    ASSUME Typed, NEW u \in Sessions, FinishTurn(u), NEW s \in Sessions, Covered(s)
    PROVE  Covered(s)'
<1>1. CommandsOn(s)' = CommandsOn(s)
  BY DEF CommandsOn, FinishTurn, handlerVars
<1>2. CASE s # u
  BY <1>1, <1>2, CoveredFrame DEF FinishTurn, Publish, TurnRuns, Typed, TypeOK
<1>3. CASE s = u
  <2>1. /\ active' = active /\ muHolder' = muHolder /\ fan' = fan
        /\ One(TurnRuns(s))' = 0 /\ One(TurnRuns(s)) = 1
        /\ chan'[s] = Published(s, "turn.end")
    BY <1>3 DEF FinishTurn, Publish, TurnRuns, One, Typed, TypeOK
  <2>2. One("turn.end" = "turn.end") = 1
    BY DEF One
  <2>3. /\ EndsQueued(chan'[s]) \in Nat
        /\ EndsQueued(chan'[s]) <= EndsQueued(chan[s]) + 1
    BY <2>1, <2>2, EndsPublished DEF Events, Typed
  <2>4. Owed(s)' <= Owed(s) /\ Owed(s) \in Int /\ Owed(s)' \in Int
    BY <1>1, <2>1, <2>3, OwedType DEF Owed, Typed
  <2>5. QED
    BY <2>1, <2>4, OwedType DEF Covered, Typed
<1>4. QED
  BY <1>2, <1>3

\* The fanout takes a turn.end out of the channel and owes it until endTurn.
LEMMA FanoutDispatchCovered ==
    ASSUME Typed, NEW u \in Sessions, FanoutDispatch(u), NEW s \in Sessions, Covered(s)
    PROVE  Covered(s)'
<1>1. CommandsOn(s)' = CommandsOn(s)
  BY DEF CommandsOn, FanoutDispatch, handlerVars
<1>2. CASE s # u
  BY <1>1, <1>2, CoveredFrame
     DEF FanoutDispatch, TurnRuns, turnVars, Typed, TypeOK
<1>3. CASE s = u
  <2>1. /\ active' = active /\ muHolder' = muHolder
        /\ One(TurnRuns(s))' = One(TurnRuns(s))
        /\ chan[s] \in Seq(Events) /\ chan[s] # <<>> /\ chan'[s] = Tail(chan[s])
        /\ fan'[s] = IF Head(chan[s]) = "turn.end" THEN "ending" ELSE "select"
        /\ fan[s] = "select"
    BY <1>3 DEF FanoutDispatch, TurnRuns, turnVars, Typed, TypeOK
  <2>2. One(fan[s] = "ending")' = One(Head(chan[s]) = "turn.end")
    BY <2>1 DEF One
  <2>3. One(fan[s] = "ending") = 0
    BY <2>1 DEF One
  <2>4. EndsQueued(chan[s]) = EndsQueued(chan'[s]) + One(Head(chan[s]) = "turn.end")
    BY <2>1, EndsQueuedTail
  <2>5. EndsQueued(chan'[s]) \in Nat /\ One(Head(chan[s]) = "turn.end") \in Nat
    BY <2>1, HeadTailProperties, EndsQueuedType DEF One
  <2>6. Owed(s)' = Owed(s)
    BY <1>1, <2>1, <2>2, <2>3, <2>4, <2>5, OwedType DEF Owed, Typed
  <2>7. QED
    BY <2>1, <2>6 DEF Covered
<1>4. QED
  BY <1>2, <1>3

\* endTurn retires the turn.end the fanout owed.
LEMMA FanoutEndTurnCovered ==
    ASSUME Typed, NEW u \in Sessions, FanoutEndTurn(u), NEW s \in Sessions, Covered(s)
    PROVE  Covered(s)'
<1>1. CommandsOn(s)' = CommandsOn(s)
  BY DEF CommandsOn, FanoutEndTurn, handlerVars
<1>2. CASE s # u
  BY <1>1, <1>2, CoveredFrame
     DEF FanoutEndTurn, EndTurn, TurnRuns, turnVars, Typed, TypeOK
<1>3. CASE s = u
  <2>1. /\ active'[s] = IF active[s] > 0 THEN active[s] - 1 ELSE active[s]
        /\ muHolder' = muHolder /\ chan' = chan
        /\ One(TurnRuns(s))' = One(TurnRuns(s))
        /\ One(fan[s] = "ending")' = 0 /\ One(fan[s] = "ending") = 1
    BY <1>3 DEF FanoutEndTurn, EndTurn, TurnRuns, turnVars, One, Typed, TypeOK
  <2>2. Owed(s)' = Owed(s) - 1 /\ Owed(s) \in Int /\ Owed(s) > 0
    BY <1>1, <2>1, OwedType DEF Owed, Typed
  <2>3. QED
    BY <2>1, <2>2, OwedType DEF Covered, Typed
<1>4. QED
  BY <1>2, <1>3

\* Each step covers what it owes, as long as no command can publish turn.end.
LEMMA CoveredStep ==
    ASSUME ~ShellEnabled, Typed, [Next]_vars, NEW s \in Sessions, Covered(s)
    PROVE  Covered(s)'
<1> USE DEF poolVars, sessVars, turnVars, handlerVars
<1> USE DEF Typed, TypeOK
<1>1. ASSUME NEW h \in Handlers, NEW i \in Ids, GetExisting(h, i) PROVE Covered(s)'
  <2>1. CommandsOn(s)' = CommandsOn(s)
    BY <1>1 DEF CommandsOn, GetExisting
  <2>2. QED
    BY <1>1, <2>1, CoveredFrame DEF GetExisting, TurnRuns
<1>2. ASSUME NEW h \in Handlers, NEW i \in Ids, Get(h, i) PROVE Covered(s)'
  <2>1. CommandsOn(s)' = CommandsOn(s)
    BY <1>2 DEF CommandsOn, Get
  <2>2. QED
    BY <1>2, <2>1, CoveredFrame DEF Get, TurnRuns
<1>3. ASSUME NEW h \in Handlers, GetNew(h) PROVE Covered(s)'
  <2>1. CommandsOn(s)' = CommandsOn(s)
    BY <1>3 DEF CommandsOn, GetNew
  <2>2. QED
    BY <1>3, <2>1, CoveredFrame DEF GetNew, TurnRuns
<1>4. ASSUME NEW h \in Handlers, GetBuildFails(h) PROVE Covered(s)'
  <2>1. CommandsOn(s)' = CommandsOn(s)
    BY <1>4 DEF CommandsOn, GetBuildFails
  <2>2. QED
    BY <1>4, <2>1, CoveredFrame DEF GetBuildFails, TurnRuns
<1>5. ASSUME NEW h \in Handlers, EditClose(h) PROVE Covered(s)'
  <2>1. CommandsOn(s)' = CommandsOn(s)
    BY <1>5 DEF CommandsOn, EditClose, CancelledTurn
  <2>2. QED
    BY <1>5, <2>1, CoveredFrame DEF EditClose, CancelledTurn, TurnRuns
<1>6. ASSUME NEW h \in Handlers, Release(h) PROVE Covered(s)'
  <2>1. CommandsOn(s)' = CommandsOn(s)
    BY <1>6 DEF CommandsOn, Release, HandlerDone
  <2>2. QED
    BY <1>6, <2>1, CoveredFrame DEF Release, HandlerDone, TurnRuns
<1>7. ASSUME NEW h \in Handlers, EditEnd(h) PROVE Covered(s)'
  <2>1. CommandsOn(s)' = CommandsOn(s)
    BY <1>7 DEF CommandsOn, EditEnd, HandlerDone
  <2>2. QED
    BY <1>7, <2>1, CoveredFrame DEF EditEnd, HandlerDone, TurnRuns
<1>8. ASSUME NEW u \in Sessions, TakeTurn(u) PROVE Covered(s)'
  BY <1>8, CoveredFrame DEF TakeTurn, TurnRuns, CommandsOn
<1>9. ASSUME NEW u \in Sessions, CancelTurn(u) PROVE Covered(s)'
  BY <1>9, CoveredFrame DEF CancelTurn, CancelledTurn, TurnRuns, CommandsOn
<1>10. ASSUME NEW u \in Sessions, FanoutExit(u) PROVE Covered(s)'
  BY <1>10, CoveredFrame DEF FanoutExit, TurnRuns, CommandsOn
<1>11. ASSUME NEW u \in Sessions, CloseBegin(u) PROVE Covered(s)'
  BY <1>11, CoveredFrame DEF CloseBegin, CancelledTurn, TurnRuns, CommandsOn
<1>12. ASSUME NEW u \in Sessions, CloseEnd(u) PROVE Covered(s)'
  BY <1>12, CoveredFrame DEF CloseEnd, TurnRuns, CommandsOn
<1>13. ASSUME NEW i \in Ids, Delete(i) PROVE Covered(s)'
  BY <1>13, CoveredFrame DEF Delete, TurnRuns, CommandsOn
<1>14. ASSUME GcScan \/ GcEvict PROVE Covered(s)'
  BY <1>14, CoveredFrame DEF GcScan, GcEvict, TurnRuns, CommandsOn
<1>15. ASSUME SignalShutdown PROVE Covered(s)'
  BY <1>15, CoveredFrame DEF SignalShutdown, TurnRuns, CommandsOn
<1>16. ASSUME ShutdownDrain PROVE Covered(s)'
  BY <1>16, CoveredFrame DEF ShutdownDrain, TurnRuns, CommandsOn
<1>17. ASSUME UNCHANGED vars PROVE Covered(s)'
  BY <1>17, CoveredFrame DEF vars, TurnRuns, CommandsOn
<1>18. ASSUME NEW h \in Handlers, CommandPublishEnd(h) \/ CommandEndTurn(h)
       PROVE  FALSE
  BY <1>18 DEF CommandPublishEnd, CommandEndTurn, HandlersOK
<1>19. ASSUME NEW h \in Handlers, NEW i \in Ids, GetScan(h, i) PROVE Covered(s)'
  <2>1. CommandsOn(s)' = CommandsOn(s)
    BY <1>19 DEF CommandsOn, GetScan
  <2>2. QED
    BY <1>19, <2>1, CoveredFrame DEF GetScan, TurnRuns
<1>20. ASSUME NEW h \in Handlers, NEW i \in Ids, EditCheck(h, i) PROVE Covered(s)'
  <2>1. CommandsOn(s)' = CommandsOn(s)
    BY <1>20 DEF CommandsOn, EditCheck
  <2>2. QED
    BY <1>20, <2>1, CoveredFrame DEF EditCheck, TurnRuns
<1>21. QED
  BY <1>1, <1>2, <1>3, <1>4, <1>5, <1>6, <1>7, <1>8, <1>9, <1>10, <1>11,
     <1>12, <1>13, <1>14, <1>15, <1>16, <1>17, <1>18, <1>19, <1>20,
     SendBeginCovered, SendAcceptedCovered, SendRefusedCovered,
     CommandBeginCovered, CommandUnavailableCovered, EmitOtherCovered,
     FinishTurnCovered, FanoutDispatchCovered, FanoutEndTurnCovered
     DEF Next, HandlerStep, SessionStep

\* Nothing is owed in the initial state.
LEMMA InitCovered == Init => \A s \in Sessions : Covered(s)
<1> SUFFICES ASSUME Init, NEW s \in Sessions PROVE Covered(s)
  OBVIOUS
<1>1. active[s] = 0 /\ muHolder[s] = NoHandler /\ turn[s] = "idle"
      /\ chan[s] = <<>> /\ fan[s] = "select"
  BY DEF Init
<1>2. CommandsOn(s) = {}
  BY DEF CommandsOn, Init
<1>3. {n \in DOMAIN chan[s] : chan[s][n] = "turn.end"} = {}
  BY <1>1
<1>4. Cardinality(CommandsOn(s)) = 0 /\ EndsQueued(chan[s]) = 0
  BY <1>2, <1>3, FS_EmptySet DEF EndsQueued
<1>5. QED
  BY <1>1, <1>4 DEF Covered, Owed, One, TurnRuns

\* The inductive invariant behind ActiveCoversTurns and VictimsIdle.
CountInv == Typed /\ (~ShellEnabled => \A s \in Sessions : Covered(s))

\* It holds in every reachable state.
LEMMA CountInvariant == Spec => []CountInv
<1>1. Init => CountInv
  BY InitTyped, InitCovered DEF CountInv
<1>2. CountInv /\ [Next]_vars => CountInv'
  BY TypedStep, CoveredStep DEF CountInv
<1>3. QED
  BY <1>1, <1>2, PTL DEF Spec

\* In a deployment without the shell tool, the lock-free activeTurns counter
\* never falls below the turns in flight, for any number of handlers and
\* sessions and any channel capacity.
THEOREM ActiveCoversTurnsCorrect == Spec => []ActiveCoversTurns
<1>1. CountInv => ActiveCoversTurns
  BY DEF CountInv, ActiveCoversTurns, Covered
<1>2. QED
  BY <1>1, CountInvariant, PTL
-----------------------------------------------------------------------------
(* The pool map and the lives of the sessions agree.                        *)

\* What holding pool.mu over several steps guarantees: one holder, victims still
\* in the map, and room for the session GetOrCreate is building.
LockOK ==
    /\ \A h \in Handlers : pc[h] \in {"creating", "editing", "editWait"} => poolHolder = h
    /\ poolHolder = NoHandler => victims = {}
    /\ victims \subseteq Pooled
    /\ \A h \in Handlers : pc[h] = "creating" =>
            target \in Ids \ Pooled /\ Cardinality(Pooled \ victims) < MaxSessions
    /\ \A h \in Handlers : pc[h] = "editing" =>
            \E i \in Pooled : victims = {i} /\ pool[i] = held[h]

PoolInv == Typed /\ PoolConsistent /\ LockOK

\* Two ids never share a session.
LEMMA PoolInjective ==
    ASSUME PoolInv, NEW i \in Pooled, NEW j \in Pooled, pool[i] = pool[j]
    PROVE  i = j
BY DEF PoolInv, PoolConsistent

\* Evicting ids keeps the map and the lives in agreement.
LEMMA EvictionAgrees ==
    ASSUME PoolInv, NEW E \in SUBSET Pooled
    PROVE  LET P == {i \in Ids : EvictedPool(E)[i] # NoSession} IN
           /\ P = Pooled \ E
           /\ \A i \in P : /\ EvictedPool(E)[i] = pool[i]
                           /\ EvictedLife(E)[pool[i]] = "open"
           /\ \A s \in Sessions : EvictedLife(E)[s] = "open" =>
                    life[s] = "open" /\ \E i \in P : pool[i] = s
           /\ IsFiniteSet(P) /\ Cardinality(P) <= Cardinality(Pooled)
<1> DEFINE P == {i \in Ids : EvictedPool(E)[i] # NoSession}
<1> USE DEF PoolInv, Typed
<1>1. P = Pooled \ E
  BY DEF EvictedPool, Pooled
<1>2. ASSUME NEW i \in P
      PROVE  EvictedPool(E)[i] = pool[i] /\ EvictedLife(E)[pool[i]] = "open"
  <2>1. i \in Pooled /\ i \notin E /\ pool[i] \in Sessions
    BY <1>1, PooledSession
  <2>2. ~ \E j \in E : pool[j] = pool[i]
    BY <2>1, PoolInjective
  <2>3. QED
    BY <2>1, <2>2 DEF EvictedPool, EvictedLife, PoolConsistent, Pooled
<1>3. ASSUME NEW s \in Sessions, EvictedLife(E)[s] = "open"
      PROVE  life[s] = "open" /\ \E i \in P : pool[i] = s
  <2>1. life[s] = "open" /\ ~ \E j \in E : pool[j] = s
    BY <1>3 DEF EvictedLife
  <2>2. PICK i \in Ids : pool[i] = s
    BY <2>1 DEF PoolConsistent
  <2>3. i \in P
    BY <1>1, <2>1, <2>2 DEF Pooled, Sessions, NoSession
  <2>4. QED
    BY <2>1, <2>2, <2>3
<1>4. IsFiniteSet(Pooled)
  BY PoolAssumption, FS_Subset DEF Pooled
<1>5. IsFiniteSet(P) /\ Cardinality(P) <= Cardinality(Pooled)
  BY <1>1, <1>4, FS_Subset
<1>6. QED
  BY <1>1, <1>2, <1>3, <1>5

\* A step that only evicts pooled ids keeps the pool consistent.
LEMMA EvictionConsistent ==
    ASSUME PoolInv, NEW E \in SUBSET Pooled,
           pool' = EvictedPool(E), life' = EvictedLife(E), sid' = sid
    PROVE  PoolConsistent'
<1> DEFINE P == {i \in Ids : EvictedPool(E)[i] # NoSession}
<1>1. Pooled' = P
  BY DEF Pooled
<1>0. /\ P = Pooled \ E
      /\ \A i \in P : EvictedPool(E)[i] = pool[i] /\ EvictedLife(E)[pool[i]] = "open"
      /\ \A s \in Sessions : EvictedLife(E)[s] = "open" =>
            life[s] = "open" /\ \E i \in P : pool[i] = s
      /\ IsFiniteSet(P) /\ Cardinality(P) <= Cardinality(Pooled)
  BY EvictionAgrees
<1>p. P \subseteq Ids
  OBVIOUS
<1> HIDE DEF P
<1>2. Cardinality(Pooled') <= MaxSessions
  <2>1. IsFiniteSet(Pooled)
    BY PoolAssumption, FS_Subset DEF Pooled
  <2>2. Cardinality(Pooled) \in Nat /\ Cardinality(P) \in Nat
    BY <1>0, <2>1, FS_CardinalityType
  <2>3. Cardinality(Pooled) <= MaxSessions /\ MaxSessions \in Nat
    BY PoolAssumption DEF PoolInv, PoolConsistent
  <2>4. Cardinality(P) <= MaxSessions
    BY <1>0, <2>2, <2>3
  <2>5. QED
    BY <1>1, <2>4
<1>3. ASSUME NEW i \in P PROVE life'[pool'[i]] = "open" /\ sid'[pool'[i]] = i
  <2>1. sid[pool[i]] = i
    BY <1>0 DEF PoolInv, PoolConsistent
  <2>2. pool'[i] = pool[i]
    BY <1>0
  <2>3. life'[pool[i]] = "open"
    BY <1>0
  <2>4. QED
    BY <2>1, <2>2, <2>3
<1>4. ASSUME NEW s \in Sessions, life'[s] = "open" PROVE \E i \in Ids : pool'[i] = s
  <2>1. EvictedLife(E)[s] = "open"
    BY <1>4
  <2>2. PICK i \in P : pool[i] = s
    BY <1>0, <2>1
  <2>3. pool'[i] = s
    BY <1>0, <2>2
  <2>4. QED
    BY <1>p, <2>3
<1>5. QED
  BY <1>1, <1>2, <1>3, <1>4 DEF PoolConsistent

\* GetOrCreate makes room before it builds.
LEMMA RoomForInsert ==
    ASSUME Typed, PoolConsistent, NEW E \in EvictionsForInsert
    PROVE  E \subseteq Pooled /\ Cardinality(Pooled \ E) < MaxSessions
<1>1. IsFiniteSet(Pooled) /\ Cardinality(Pooled) \in Nat
  BY PoolAssumption, FS_Subset, FS_CardinalityType DEF Pooled
<1>2. E \subseteq Pooled
  BY EvictionsAreEvictable DEF Evictable
<1>3. CASE E = {}
  <2>1. Pooled \ E = Pooled
    BY <1>3
  <2>2. Cardinality(Pooled) < MaxSessions
    BY <1>3 DEF EvictionsForInsert
  <2>3. QED
    BY <1>2, <2>1, <2>2
<1>4. CASE E # {}
  <2>1. PICK v \in Pooled : E = {v}
    BY <1>2, <1>4 DEF EvictionsForInsert
  <2>2. Cardinality(Pooled \ {v}) = Cardinality(Pooled) - 1
    BY <1>1, FS_RemoveElement
  <2>3. Cardinality(Pooled) <= MaxSessions
    BY DEF PoolConsistent
  <2>4. Cardinality(Pooled \ {v}) < MaxSessions
    BY <1>1, <2>2, <2>3, PoolAssumption
  <2>5. QED
    BY <1>2, <2>1, <2>4
<1>5. QED
  BY <1>3, <1>4

\* Evicting the victim, building the session and inserting it.
LEMMA GetNewConsistent ==
    ASSUME PoolInv, NEW h \in Handlers, GetNew(h)
    PROVE  PoolConsistent'
<1> DEFINE E == victims
           i == target
<1> USE DEF PoolInv, Typed
<1>1. PICK s \in Sessions :
        /\ life[s] = "unborn"
        /\ pool' = [EvictedPool(E) EXCEPT ![i] = s]
        /\ life' = [EvictedLife(E) EXCEPT ![s] = "open"]
        /\ sid' = [sid EXCEPT ![s] = i]
  BY DEF GetNew, NextUnborn
<1> DEFINE P == {j \in Ids : EvictedPool(E)[j] # NoSession}
<1>2. E \in SUBSET Pooled /\ i \in Ids \ Pooled /\ Cardinality(Pooled \ E) < MaxSessions
  BY DEF LockOK, GetNew
<1>3. /\ P = Pooled \ E
      /\ \A j \in P : EvictedPool(E)[j] = pool[j] /\ EvictedLife(E)[pool[j]] = "open"
      /\ \A t \in Sessions : EvictedLife(E)[t] = "open" =>
            life[t] = "open" /\ \E j \in P : pool[j] = t
      /\ IsFiniteSet(P)
  BY <1>2, EvictionAgrees
<1>4. Pooled' = P \cup {i} /\ i \notin P
  BY <1>1, <1>2, <1>3, EvictionType DEF Pooled, Sessions, NoSession
<1> HIDE DEF E, i
<1>5. Cardinality(P) < MaxSessions /\ Cardinality(P) \in Nat
  BY <1>2, <1>3, FS_CardinalityType
<1>6. Cardinality(Pooled') <= MaxSessions
  <2>1. Cardinality(Pooled') = Cardinality(P) + 1
    BY <1>3, <1>4, FS_AddElement
  <2>2. QED
    BY <1>5, <2>1, PoolAssumption
<1>7. ASSUME NEW j \in Pooled' PROVE life'[pool'[j]] = "open" /\ sid'[pool'[j]] = j
  <2>1. CASE j = i
    BY <1>1, <1>2, <2>1, EvictionType DEF TypeOK
  <2>2. CASE j # i
    <3>1. j \in P /\ j \in Pooled
      BY <1>3, <1>4, <1>7, <2>2
    <3>2. pool'[j] = pool[j] /\ pool[j] \in Sessions
      BY <1>1, <1>3, <2>2, <3>1, EvictionType, PooledSession
    <3>3. pool[j] # s
      BY <1>1, <3>1 DEF PoolConsistent
    <3>4. life'[pool[j]] = "open"
      BY <1>1, <1>3, <3>1, <3>2, EvictionType
    <3>5. sid'[pool[j]] = j
      BY <1>1, <3>1, <3>2, <3>3 DEF PoolConsistent, TypeOK
    <3>6. QED
      BY <3>2, <3>4, <3>5
  <2>3. QED
    BY <2>1, <2>2
<1>8. ASSUME NEW t \in Sessions, life'[t] = "open" PROVE \E j \in Ids : pool'[j] = t
  <2>1. CASE t = s
    BY <1>1, <1>2, <2>1, EvictionType
  <2>2. CASE t # s
    <3>1. PICK j \in P : pool[j] = t
      BY <1>1, <1>3, <1>8, <2>2, EvictionType
    <3>2. j \in Ids /\ pool'[j] = t
      BY <1>1, <1>3, <1>4, <3>1, EvictionType
    <3>3. QED
      BY <3>2
  <2>3. QED
    BY <2>1, <2>2
<1>9. QED
  BY <1>6, <1>7, <1>8 DEF PoolConsistent

\* A message edit closes the session it takes out of the map.
LEMMA EditCloseConsistent ==
    ASSUME PoolInv, NEW h \in Handlers, EditClose(h)
    PROVE  PoolConsistent'
<1> USE DEF PoolInv, Typed
<1>0. PICK i \in Pooled : victims = {i} /\ pool[i] = held[h]
  BY DEF EditClose, LockOK
<1>1. i \in Pooled /\ i \in Ids /\ pool[i] \in Sessions
  BY PooledSession
<1>2. /\ pool' = EvictedPool({i}) /\ sid' = sid
      /\ life' = [life EXCEPT ![pool[i]] = "closed"]
  BY <1>0 DEF EditClose
<1>3. /\ IsFiniteSet(Pooled) /\ Pooled' = Pooled \ {i}
      /\ Cardinality(Pooled') <= Cardinality(Pooled)
      /\ Cardinality(Pooled) \in Nat /\ Cardinality(Pooled') \in Nat
  <2>1. IsFiniteSet(Pooled)
    BY PoolAssumption, FS_Subset DEF Pooled
  <2>2. Pooled' = Pooled \ {i}
    BY <1>2 DEF EvictedPool, Pooled
  <2>3. QED
    BY <2>1, <2>2, FS_Subset, FS_CardinalityType
<1>4. Cardinality(Pooled') <= MaxSessions
  BY <1>3, PoolAssumption DEF PoolConsistent
<1>5. ASSUME NEW j \in Pooled' PROVE life'[pool'[j]] = "open" /\ sid'[pool'[j]] = j
  <2>1. j \in Pooled /\ j # i /\ pool[j] \in Sessions /\ pool'[j] = pool[j]
    BY <1>2, <1>3, <1>5, PooledSession DEF EvictedPool
  <2>2. pool[j] # pool[i]
    BY <1>1, <2>1, PoolInjective
  <2>3. QED
    BY <1>1, <1>2, <2>1, <2>2 DEF PoolConsistent, TypeOK
<1>6. ASSUME NEW t \in Sessions, life'[t] = "open" PROVE \E j \in Ids : pool'[j] = t
  <2>1. life[t] = "open" /\ t # pool[i]
    BY <1>1, <1>2, <1>6 DEF TypeOK
  <2>2. PICK j \in Ids : pool[j] = t
    BY <2>1 DEF PoolConsistent
  <2>3. QED
    BY <1>2, <2>1, <2>2 DEF EvictedPool
<1>7. QED
  BY <1>4, <1>5, <1>6 DEF PoolConsistent

\* Every step keeps the map and the lives in agreement.
LEMMA PoolConsistentStep ==
    ASSUME PoolInv, [Next]_vars
    PROVE  PoolConsistent'
<1>1. ASSUME NEW h \in Handlers, GetBuildFails(h) PROVE PoolConsistent'
  BY <1>1, EvictionConsistent DEF GetBuildFails, PoolInv, LockOK
<1>2. ASSUME GcEvict PROVE PoolConsistent'
  BY <1>2, EvictionConsistent DEF GcEvict, PoolInv, LockOK
<1>3. ASSUME NEW i \in Ids, Delete(i) PROVE PoolConsistent'
  BY <1>3, EvictionConsistent DEF Delete
<1>4. ASSUME ShutdownDrain PROVE PoolConsistent'
  <2>1. EvictedPool(Ids) = EvictedPool(Pooled)
    BY DEF EvictedPool, Pooled
  <2>2. QED
    BY <1>4, <2>1, EvictionConsistent DEF ShutdownDrain
<1>5. ASSUME NEW s \in Sessions, CloseBegin(s) \/ CloseEnd(s) PROVE PoolConsistent'
  <2>1. /\ life[s] # "open" /\ pool' = pool /\ sid' = sid
        /\ \A t \in Sessions : life'[t] = "open" <=> life[t] = "open"
    BY <1>5 DEF CloseBegin, CloseEnd, poolVars, PoolInv, Typed, TypeOK, sessVars
  <2>2. Pooled' = Pooled
    BY <2>1 DEF Pooled
  <2>3. QED
    BY <2>1, <2>2, PooledSession DEF PoolConsistent, PoolInv, Typed
<1>6. ASSUME UNCHANGED <<pool, life, sid>> PROVE PoolConsistent'
  BY <1>6 DEF PoolConsistent, Pooled, PoolInv
<1>7. QED
  BY <1>1, <1>2, <1>3, <1>4, <1>5, <1>6, GetNewConsistent, EditCloseConsistent
     DEF Next, HandlerStep, SessionStep, vars, poolVars, sessVars, GetExisting,
         Get, GetScan, EditCheck, GcScan, SendBegin, SendAccepted, SendRefused, Release, CommandBegin,
         CommandUnavailable, CommandPublishEnd, CommandEndTurn, EditEnd,
         EmitOther, FinishTurn, TakeTurn, CancelTurn, FanoutDispatch,
         FanoutEndTurn, FanoutExit, SignalShutdown

\* Steps that leave the map, the lock and the handlers inside it alone.
LEMMA LockFrame ==
    ASSUME LockOK, UNCHANGED <<pool, poolHolder, victims, target>>,
           \A h \in Handlers : pc'[h] \in {"creating", "editing", "editWait"} =>
                pc'[h] = pc[h] /\ held'[h] = held[h]
    PROVE  LockOK'
BY DEF LockOK, Pooled

\* While pool.mu is free, nobody is inside an operation that holds it.
LEMMA NobodyInside ==
    ASSUME LockOK, PoolLockFree, NEW h \in Handlers
    PROVE  pc[h] \notin {"creating", "editing", "editWait"} /\ victims = {}
BY PoolAssumption DEF LockOK, PoolLockFree

\* Every step keeps LockOK.
LEMMA LockStep ==
    ASSUME PoolInv, [Next]_vars
    PROVE  LockOK'
<1> USE DEF PoolInv, Typed, TypeOK, HandlersOK, lockVars, poolVars, sessVars, turnVars,
            handlerVars
<1>1. ASSUME NEW h \in Handlers, NEW i \in Ids, GetScan(h, i) PROVE LockOK'
  <2>1. PICK E \in EvictionsForInsert : LockPool(h, E)
    BY <1>1 DEF GetScan
  <2>2. Pooled' = Pooled /\ i \in Ids \ Pooled
    BY <1>1 DEF GetScan, Pooled
  <2>3. \A g \in Handlers : g # h => pc'[g] \notin {"creating", "editing", "editWait"}
    BY <1>1, NobodyInside DEF GetScan
  <2>4. poolHolder' = h /\ victims' = E /\ target' = i /\ pc'[h] = "creating"
    BY <1>1, <2>1 DEF GetScan, LockPool
  <2>5. E \subseteq Pooled /\ Cardinality(Pooled \ E) < MaxSessions
    BY RoomForInsert
  <2>6. QED
    BY <2>2, <2>3, <2>4, <2>5, PoolAssumption DEF LockOK
<1>2. ASSUME NEW h \in Handlers, NEW i \in Ids, EditCheck(h, i) PROVE LockOK'
  <2>1. Pooled' = Pooled /\ i \in Pooled /\ pool' = pool
    BY <1>2 DEF EditCheck, Pooled, Evictable
  <2>2. \A g \in Handlers : g # h => pc'[g] \notin {"creating", "editing", "editWait"}
    BY <1>2, NobodyInside DEF EditCheck
  <2>3. /\ poolHolder' = h /\ victims' = {i} /\ pc'[h] = "editing"
        /\ held'[h] = pool[i]
    BY <1>2 DEF EditCheck, LockPool
  <2>4. QED
    BY <2>1, <2>2, <2>3, PoolAssumption DEF LockOK
<1>3. ASSUME NEW h \in Handlers, GetNew(h) \/ GetBuildFails(h) \/ EditEnd(h)
      PROVE  LockOK'
  <2>1. UnlockPool /\ pc'[h] \in {"held", "idle"}
    BY <1>3 DEF GetNew, GetBuildFails, EditEnd, HandlerDone
  <2>2. \A g \in Handlers : g # h => pc'[g] \notin {"creating", "editing", "editWait"}
    BY <1>3 DEF LockOK, GetNew, GetBuildFails, EditEnd, HandlerDone
  <2>3. QED
    BY <2>1, <2>2 DEF LockOK, UnlockPool
<1>4. ASSUME NEW h \in Handlers, EditClose(h) PROVE LockOK'
  <2>1. poolHolder' = h /\ victims' = {} /\ pc'[h] = "editWait"
    BY <1>4 DEF LockOK, EditClose
  <2>2. \A g \in Handlers : g # h => pc'[g] \notin {"creating", "editing", "editWait"}
    BY <1>4 DEF LockOK, EditClose
  <2>3. QED
    BY <2>1, <2>2, PoolAssumption DEF LockOK
<1>5. ASSUME GcScan PROVE LockOK'
  <2>1. /\ poolHolder' = Collector /\ victims' \subseteq Pooled /\ Pooled' = Pooled
        /\ \A g \in Handlers : pc'[g] \notin {"creating", "editing", "editWait"}
    BY <1>5, NobodyInside DEF GcScan, LockPool, Evictable, Pooled
  <2>2. QED
    BY <2>1, PoolAssumption DEF LockOK
<1>6. ASSUME GcEvict PROVE LockOK'
  <2>1. \A g \in Handlers : pc'[g] \notin {"creating", "editing", "editWait"}
    BY <1>6, PoolAssumption DEF LockOK, GcEvict
  <2>2. QED
    BY <1>6, <2>1 DEF LockOK, GcEvict, UnlockPool
<1>7. ASSUME ShutdownDrain \/ \E i \in Ids : Delete(i) PROVE LockOK'
  <2>1. /\ poolHolder' = NoHandler /\ victims' = {}
        /\ \A g \in Handlers : pc'[g] \notin {"creating", "editing", "editWait"}
    BY <1>7, NobodyInside DEF ShutdownDrain, Delete, PoolLockFree, LockOK
  <2>2. QED
    BY <2>1 DEF LockOK
<1>8. ASSUME NEW h \in Handlers,
             \/ \E i \in Ids : GetExisting(h, i) \/ Get(h, i)
             \/ SendBegin(h) \/ SendAccepted(h) \/ SendRefused(h) \/ Release(h)
             \/ CommandBegin(h) \/ CommandUnavailable(h)
             \/ CommandPublishEnd(h) \/ CommandEndTurn(h)
      PROVE  LockOK'
  <2>1. /\ UNCHANGED <<pool, poolHolder, victims, target>>
        /\ \A g \in Handlers : pc'[g] \in {"creating", "editing", "editWait"} =>
                pc'[g] = pc[g] /\ held'[g] = held[g]
    BY <1>8 DEF GetExisting, Get, SendBegin, SendAccepted, SendRefused, Release,
                CommandBegin, CommandUnavailable, CommandPublishEnd,
                CommandEndTurn, HandlerDone
  <2>2. QED
    BY <2>1, LockFrame
<1>9. ASSUME UNCHANGED <<pool, poolHolder, victims, target, pc, held>> PROVE LockOK'
  BY <1>9, LockFrame
<1>10. ASSUME NEW s \in Sessions, SessionStep(s)
       PROVE  UNCHANGED <<pool, poolHolder, victims, target, pc, held>>
  BY <1>10 DEF SessionStep, EmitOther, FinishTurn, TakeTurn, CancelTurn,
               FanoutDispatch, FanoutEndTurn, FanoutExit, CloseBegin, CloseEnd
<1>11. ASSUME SignalShutdown \/ UNCHANGED vars
       PROVE  UNCHANGED <<pool, poolHolder, victims, target, pc, held>>
  BY <1>11 DEF SignalShutdown, vars
<1>12. QED
  BY <1>1, <1>2, <1>3, <1>4, <1>5, <1>6, <1>7, <1>8, <1>9, <1>10, <1>11
     DEF Next, HandlerStep

\* Every reachable state satisfies PoolInv.
LEMMA PoolInvariant == Spec => []PoolInv
<1>1. Init => PoolInv
  <2> SUFFICES ASSUME Init PROVE PoolConsistent /\ LockOK
    BY InitTyped DEF PoolInv
  <2>1. Pooled = {}
    BY DEF Init, Pooled
  <2>2. Cardinality(Pooled) = 0
    BY <2>1, FS_EmptySet
  <2>3. PoolConsistent
    BY <2>1, <2>2, PoolAssumption DEF Init, PoolConsistent
  <2>4. LockOK
    BY <2>1 DEF Init, LockOK
  <2>5. QED
    BY <2>3, <2>4
<1>2. PoolInv /\ [Next]_vars => PoolInv'
  BY TypedStep, PoolConsistentStep, LockStep DEF PoolInv
<1>3. QED
  BY <1>1, <1>2, PTL DEF Spec

\* For every capacity the pool stays within it, every id maps to an open
\* session of that id, and every open session can be found through the pool.
THEOREM PoolConsistentCorrect == Spec => []PoolConsistent
<1>1. PoolInv => PoolConsistent
  BY DEF PoolInv
<1>2. QED
  BY <1>1, PoolInvariant, PTL
-----------------------------------------------------------------------------
(* Who may leave the pool.                                                  *)

\* A session that runs a turn is not evictable.
LEMMA RunningNotEvictable ==
    ASSUME CountInv, ~ShellEnabled, NEW i \in Evictable
    PROVE  ~TurnRuns(pool[i])
<1>1. pool[i] \in Sessions /\ ~(active[pool[i]] > 0)
  BY PooledSession DEF Evictable, IsActiveTurn, CountInv, Typed
<1>2. active[pool[i]] >= Owed(pool[i])
  BY <1>1 DEF CountInv, Covered
<1>3. SUFFICES ASSUME TurnRuns(pool[i]) PROVE FALSE
  OBVIOUS
<1>4. One(TurnRuns(pool[i])) = 1
  BY <1>3 DEF One
<1>5. Owed(pool[i]) \in Int /\ Owed(pool[i]) >= 1
  BY <1>1, <1>4, OwedType DEF Owed, CountInv, Typed
<1>6. QED
  BY <1>1, <1>2, <1>5, OwedType DEF CountInv, Typed

\* New victims come from the evictable sessions.
LEMMA VictimsEvictable ==
    ASSUME [Next]_vars
    PROVE  victims' \ victims \subseteq Evictable
<1>1. ASSUME NEW h \in Handlers, NEW i \in Ids, GetScan(h, i)
      PROVE  victims' \subseteq Evictable
  BY <1>1, EvictionsAreEvictable DEF GetScan, LockPool
<1>2. ASSUME NEW h \in Handlers, NEW i \in Ids, EditCheck(h, i)
      PROVE  victims' \subseteq Evictable
  BY <1>2 DEF EditCheck, LockPool
<1>3. ASSUME GcScan PROVE victims' \subseteq Evictable
  BY <1>3 DEF GcScan, LockPool
<1>4. ASSUME victims' \in {victims, {}} PROVE victims' \ victims \subseteq Evictable
  BY <1>4
<1>5. QED
  BY <1>1, <1>2, <1>3, <1>4
     DEF Next, HandlerStep, SessionStep, vars, poolVars, lockVars, UnlockPool,
         GetExisting, Get, GetNew, GetBuildFails, EditClose, EditEnd, SendBegin,
         SendAccepted, SendRefused, Release, CommandBegin, CommandUnavailable,
         CommandPublishEnd, CommandEndTurn, EmitOther, FinishTurn, TakeTurn,
         CancelTurn, FanoutDispatch, FanoutEndTurn, FanoutExit, CloseBegin,
         CloseEnd, Delete, GcEvict, SignalShutdown, ShutdownDrain

\* Only a victim, a deleted id or the drain of Shutdown leaves the map.
LEMMA LeavesAsVictim ==
    ASSUME PoolInv, [Next]_vars, NEW i \in Ids, pool[i] # NoSession, pool'[i] # pool[i]
    PROVE  i \in victims \/ ShutdownDrain \/ Delete(i)
<1> USE DEF PoolInv, Typed, TypeOK
<1>1. ASSUME NEW h \in Handlers, GetNew(h) PROVE i \in victims
  <2>1. target # i
    BY <1>1 DEF GetNew, LockOK, Pooled
  <2>2. PICK s \in Sessions : pool' = [EvictedPool(victims) EXCEPT ![target] = s]
    BY <1>1 DEF GetNew
  <2>3. pool'[i] = EvictedPool(victims)[i]
    BY <2>1, <2>2, EvictionType
  <2>4. QED
    BY <2>3 DEF EvictedPool
<1>2. ASSUME pool' = EvictedPool(victims) PROVE i \in victims
  BY <1>2 DEF EvictedPool
<1>3. ASSUME NEW j \in Ids, Delete(j) PROVE Delete(i)
  BY <1>3 DEF Delete, EvictedPool
<1>4. pool' # pool
  OBVIOUS
<1>5. QED
  BY <1>1, <1>2, <1>3, <1>4
     DEF Next, HandlerStep, SessionStep, vars, poolVars, GetScan, EditCheck, GcScan,
         GetExisting, Get, GetBuildFails, EditClose, EditEnd, SendBegin,
         SendAccepted, SendRefused, Release, CommandBegin, CommandUnavailable,
         CommandPublishEnd, CommandEndTurn, EmitOther, FinishTurn, TakeTurn,
         CancelTurn, FanoutDispatch, FanoutEndTurn, FanoutExit, CloseBegin,
         CloseEnd, GcEvict, SignalShutdown

\* In a deployment without the shell tool, LRU eviction, idle GC and message
\* edit never pick a session whose Loop is running a turn, and nothing else
\* but DELETE and Shutdown takes a session out of the pool.
THEOREM VictimsIdleCorrect ==
    ASSUME ~ShellEnabled
    PROVE  Spec => VictimsIdle
<1> DEFINE A == /\ \A i \in victims' \ victims : ~TurnRuns(pool[i])
                /\ \A i \in Ids :
                        pool[i] # NoSession /\ pool'[i] # pool[i]
                            => i \in victims \/ ShutdownDrain \/ Delete(i)
<1>1. CountInv /\ PoolInv /\ [Next]_vars => A
  BY VictimsEvictable, RunningNotEvictable, LeavesAsVictim
<1>2. CountInv /\ PoolInv /\ [Next]_vars => [A]_vars
  BY <1>1
<1>3. QED
  BY <1>2, CountInvariant, PoolInvariant, PTL DEF Spec, VictimsIdle
=============================================================================
